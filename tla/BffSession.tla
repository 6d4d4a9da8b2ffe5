----------------------------- MODULE BffSession -----------------------------
(***************************************************************************)
(* One BFF session and the requests that use it at the same time:          *)
(* handleSession and handleLogout (bff/app.go), handleElevate              *)
(* (bff/elevate.go) and the proxied calls of bff.Gateway.ProxyWithSession, *)
(* with the session store, the token refresh and the issuer behind them.   *)
(*                                                                         *)
(* A handler runs in a goroutine of its own.  It looks the session up      *)
(* once, keeps the pointer, and talks to the issuer or writes the session  *)
(* back (store.Put) later: every point at which another request can come   *)
(* in between is a step of its own here.  Requests without a session or    *)
(* without the CSRF token they need are answered 401, 403 or (logout) 204  *)
(* and change nothing, so they are no steps of the model.                  *)
(*                                                                         *)
(* The store, Gateway.EnsureFresh and the issuer are external (backendkit  *)
(* and Socrate, not in this repository) and modelled from how this code    *)
(* uses them and from what its documents say of them.  Tokens are numbered *)
(* in the order the issuer makes them; a token number names an access      *)
(* token and, unless it is an elevated one, the refresh token beside it.   *)
(* Expiry at the issuer is left out: live means not revoked, not used up.  *)
(***************************************************************************)
EXTENDS Naturals

CONSTANTS Requests,   \* slots for concurrent requests on the session
          MaxToken,   \* bound: tokens the issuer makes
          IdleMax,    \* session lifetimes, in ticks
          AbsMax

ASSUME BoundsAssumption ==
    /\ MaxToken \in Nat \ {0}
    /\ IdleMax \in Nat \ {0} /\ AbsMax \in Nat \ {0}

VARIABLES
    stored,    \* the session is in the store
    tombstone, \* its id has been Deleted
    idle,      \* ticks since the last Touch, up to IdleMax
    life,      \* ticks since the login, up to AbsMax
    sess,      \* the session object every handler points to
    req,       \* the requests
    next,      \* the issuer's next token number
    liveA,     \* access tokens the issuer accepts
    liveR,     \* refresh tokens the issuer accepts
    ended,     \* history: the session was logged out, rejected or lost in a restart
    lost,      \* history: the issuer rotated a refresh token and the answer was lost
    logout     \* history: how the logout went

store == <<stored, tombstone, idle, life>>
issuer == <<next, liveA, liveR>>
vars == <<store, sess, req, issuer, ended, lost, logout>>

Tokens == 1 .. MaxToken
Kinds == {"session", "proxy", "elevate", "logout"}
Waiting == {"ensure", "joined", "refreshing", "rotated", "rejected"}
SigningOut == {"readRefresh", "readAccess", "revokeRefresh", "revokeAccess", "delete"}
Stages == Waiting \cup SigningOut \cup {"free", "got", "fatal", "ready", "elevated"}

\* A slot without a request.
Free == [kind |-> "session", at |-> "free", access |-> 1, refresh |-> 1]

\* logout: none begun, one running (alone, or overlapped by a request that may
\* change the tokens), done alone with both tokens revoked, or not fully revoked.
LogoutStates == {"none", "running", "overlapped", "revoked", "failed"}

Init ==
    /\ stored = TRUE /\ tombstone = FALSE /\ idle = 0 /\ life = 0
    /\ sess = [access |-> 1, refresh |-> 1, fresh |-> TRUE]
    /\ req = [r \in Requests |-> Free]
    /\ next = 2 /\ liveA = {1} /\ liveR = {1}
    /\ ended = FALSE /\ lost = FALSE
    /\ logout = "none"

-----------------------------------------------------------------------------
(* The session store (bff.MemoryStore) *)

\* Get: in the store and within both lifetimes.
Found == stored /\ idle < IdleMax /\ life < AbsMax

\* Put writes the session back, unless its id was logged out meanwhile.
\* Mutant of PutBack: an unconditional write.
PutAlways == stored' = TRUE /\ UNCHANGED tombstone

PutBack == stored' = (stored \/ ~tombstone) /\ UNCHANGED tombstone

Delete == stored' = FALSE /\ tombstone' = TRUE /\ ended' = TRUE

Goto(r, stage) == req' = [req EXCEPT ![r].at = stage]
Finish(r) == req' = [req EXCEPT ![r] = Free]

\* History: a request that may still change the session's tokens, by a refresh or
\* a step-up.
ChangesTokens(r) ==
    \/ req[r].kind = "elevate" /\ req[r].at # "free"
    \/ req[r].at \in {"ensure", "refreshing", "rotated"}

-----------------------------------------------------------------------------
(* Lookup *)

\* SessionFromRequest finds the session, and the CSRF token, where needed, matches.
Begin(r, kind) ==
    /\ req[r].at = "free"
    /\ Found
    /\ req' = [req EXCEPT ![r] = [Free EXCEPT !.kind = kind,
                                              !.at = IF kind = "session" THEN "got" ELSE "ensure"]]
    /\ logout' = IF logout = "running" /\ kind # "session" THEN "overlapped" ELSE logout
    /\ UNCHANGED <<store, sess, issuer, ended, lost>>

\* The same for logout.
BeginLogout(r) ==
    /\ req[r].at = "free"
    /\ Found
    /\ req' = [req EXCEPT ![r] = [Free EXCEPT !.kind = "logout", !.at = "readRefresh"]]
    /\ logout' = IF \E x \in Requests : ChangesTokens(x) THEN "overlapped"
                 ELSE IF logout = "none" THEN "running" ELSE logout
    /\ UNCHANGED <<store, sess, issuer, ended, lost>>

\* Mutant of SessionAnswered: the absolute lifetime starts anew as well.
SessionAnsweredAnew(r) ==
    /\ req[r].at = "got"
    /\ idle' = 0 /\ life' = 0
    /\ PutBack
    /\ Finish(r)
    /\ UNCHANGED <<sess, issuer, ended, logout, lost>>

\* handleSession: Touch, Put, and the answer.
SessionAnswered(r) ==
    /\ req[r].at = "got"
    /\ idle' = 0
    /\ PutBack
    /\ Finish(r)
    /\ UNCHANGED <<life, sess, issuer, ended, logout, lost>>

-----------------------------------------------------------------------------
(* Gateway.EnsureFresh: refresh when the token is within the leeway of its  *)
(* expiry, and one refresh for all the requests that need it.               *)

Refreshing(r) == req[r].at \in {"refreshing", "rotated", "rejected"}

FreshEnough(r) ==
    /\ req[r].at = "ensure"
    /\ sess.fresh
    /\ req' = [req EXCEPT ![r].at = "ready", ![r].access = sess.access]
    /\ UNCHANGED <<store, sess, issuer, ended, logout, lost>>

\* Mutant of StartRefresh: each request refreshes for itself.
StartRefreshAlone(r) ==
    /\ req[r].at = "ensure"
    /\ ~sess.fresh
    /\ req' = [req EXCEPT ![r].at = "refreshing", ![r].refresh = sess.refresh]
    /\ UNCHANGED <<store, sess, issuer, ended, logout, lost>>

StartRefresh(r) ==
    /\ req[r].at = "ensure"
    /\ ~sess.fresh
    /\ \A x \in Requests : ~Refreshing(x)
    /\ req' = [req EXCEPT ![r].at = "refreshing", ![r].refresh = sess.refresh]
    /\ UNCHANGED <<store, sess, issuer, ended, logout, lost>>

JoinRefresh(r) ==
    /\ req[r].at = "ensure"
    /\ ~sess.fresh
    /\ \E x \in Requests : Refreshing(x)
    /\ Goto(r, "joined")
    /\ UNCHANGED <<store, sess, issuer, ended, logout, lost>>

\* The issuer answers the refresh grant: it rotates a live refresh token ...
IssuerRotates(r) ==
    /\ req[r].at = "refreshing"
    /\ req[r].refresh \in liveR
    /\ next <= MaxToken
    /\ next' = next + 1
    /\ liveA' = liveA \cup {next}
    /\ liveR' = (liveR \ {req[r].refresh}) \cup {next}
    /\ req' = [req EXCEPT ![r].at = "rotated", ![r].access = next]
    /\ UNCHANGED <<store, sess, ended, logout, lost>>

\* ... and rejects one that was revoked or used before.
IssuerRejects(r) ==
    /\ req[r].at = "refreshing"
    /\ req[r].refresh \notin liveR
    /\ Goto(r, "rejected")
    /\ UNCHANGED <<store, sess, issuer, ended, logout, lost>>

\* The requests that share r's refresh.
Sharing(r) == {x \in Requests : x = r \/ req[x].at = "joined"}

FinishAll(S) == req' = [x \in Requests |-> IF x \in S THEN Free ELSE req[x]]

\* Mutant of RefreshDone: the rotated refresh token is not kept.
RefreshDoneUnrotated(r) ==
    /\ req[r].at = "rotated"
    /\ sess' = [sess EXCEPT !.access = req[r].access, !.fresh = TRUE]
    /\ PutBack
    /\ req' = [x \in Requests |->
                  IF x \in Sharing(r) THEN [req[x] EXCEPT !.at = "ready", !.access = req[r].access]
                  ELSE req[x]]
    /\ UNCHANGED <<idle, life, issuer, ended, logout, lost>>

\* The rotated tokens arrive, go into the session and are written through.
RefreshDone(r) ==
    /\ req[r].at = "rotated"
    /\ sess' = [access |-> req[r].access, refresh |-> req[r].access, fresh |-> TRUE]
    /\ PutBack
    /\ req' = [x \in Requests |->
                  IF x \in Sharing(r) THEN [req[x] EXCEPT !.at = "ready", !.access = req[r].access]
                  ELSE req[x]]
    /\ UNCHANGED <<idle, life, issuer, ended, logout, lost>>

\* The rejection arrives at all that share the refresh ...
RefreshRejected(r) ==
    /\ req[r].at = "rejected"
    /\ req' = [x \in Requests |->
                  IF x \in Sharing(r) THEN [req[x] EXCEPT !.at = "fatal"] ELSE req[x]]
    /\ UNCHANGED <<store, sess, issuer, ended, logout, lost>>

\* ... and each of them, on its own, deletes the session and answers 401
\* (IsFatalRefreshError).
SessionExpired(r) ==
    /\ req[r].at = "fatal"
    /\ Delete
    /\ Finish(r)
    /\ UNCHANGED <<idle, life, sess, issuer, logout, lost>>

\* Mutant of RefreshUnavailable: only the request that asked hears of it.
RefreshUnavailableToOne(r) ==
    /\ req[r].at \in {"refreshing", "rotated"}
    /\ Finish(r)
    /\ lost' = (lost \/ req[r].at = "rotated")
    /\ UNCHANGED <<store, sess, issuer, ended, logout>>

\* The token endpoint is unreachable, or its answer is lost: 502, session kept.
RefreshUnavailable(r) ==
    /\ req[r].at \in {"refreshing", "rotated"}
    /\ FinishAll(Sharing(r))
    /\ lost' = (lost \/ req[r].at = "rotated")
    /\ UNCHANGED <<store, sess, issuer, ended, logout>>

-----------------------------------------------------------------------------
(* Proxied call and step-up, once the token is fresh *)

\* ProxyWithSession: Touch, Put, forward with the bearer, and relay the answer.
ProxyAnswered(r) ==
    /\ req[r].at = "ready" /\ req[r].kind = "proxy"
    /\ idle' = 0
    /\ PutBack
    /\ Finish(r)
    /\ UNCHANGED <<life, sess, issuer, ended, logout, lost>>

\* The admin API answers the elevate call with an elevated token ...
ElevateGranted(r) ==
    /\ req[r].at = "ready" /\ req[r].kind = "elevate"
    /\ req[r].access \in liveA
    /\ next <= MaxToken
    /\ next' = next + 1
    /\ liveA' = liveA \cup {next}
    /\ req' = [req EXCEPT ![r].at = "elevated", ![r].access = next]
    /\ UNCHANGED <<store, sess, liveR, ended, logout, lost>>

\* ... or refuses (4xx forwarded), fails (502), or does not answer (502).
ElevateRefused(r) ==
    /\ req[r].at = "ready" /\ req[r].kind = "elevate"
    /\ Finish(r)
    /\ UNCHANGED <<store, sess, issuer, ended, logout, lost>>

\* Mutant of ElevateAbsorbed: the refresh token is replaced along with the access token.
ElevateAbsorbedWhole(r) ==
    /\ req[r].at = "elevated"
    /\ sess' = [access |-> req[r].access, refresh |-> req[r].access, fresh |-> TRUE]
    /\ PutBack
    /\ Finish(r)
    /\ UNCHANGED <<idle, life, issuer, ended, logout, lost>>

\* elevatedTokenTTL > 0: the token replaces the session's access token; the
\* refresh token stays.  A lifetime of 1 to 30 s is already within the leeway.
ElevateAbsorbed(r) ==
    /\ req[r].at = "elevated"
    /\ \E withinLeeway \in BOOLEAN :
          sess' = [sess EXCEPT !.access = req[r].access, !.fresh = ~withinLeeway]
    /\ PutBack
    /\ Finish(r)
    /\ UNCHANGED <<idle, life, issuer, ended, logout, lost>>

\* elevatedTokenTTL <= 0 (no usable exp): 502, nothing absorbed.
ElevateUnusable(r) ==
    /\ req[r].at = "elevated"
    /\ Finish(r)
    /\ UNCHANGED <<store, sess, issuer, ended, logout, lost>>

-----------------------------------------------------------------------------
(* handleLogout: read the refresh token and the access token, each under    *)
(* the session's lock, revoke the one and then the other, each best effort, *)
(* and delete the session.                                                  *)

ReadRefresh(r) ==
    /\ req[r].at = "readRefresh"
    /\ req' = [req EXCEPT ![r].at = "readAccess", ![r].refresh = sess.refresh]
    /\ UNCHANGED <<store, sess, issuer, ended, logout, lost>>

ReadAccess(r) ==
    /\ req[r].at = "readAccess"
    /\ req' = [req EXCEPT ![r].at = "revokeRefresh", ![r].access = sess.access]
    /\ UNCHANGED <<store, sess, issuer, ended, logout, lost>>

\* Mutant of RevokeRefresh: the access token is sent for the refresh token.
RevokeRefreshSwapped(r) ==
    /\ req[r].at = "revokeRefresh"
    /\ \/ liveR' = liveR \ {req[r].access} /\ UNCHANGED logout
       \/ logout' = "failed" /\ UNCHANGED liveR
    /\ Goto(r, "revokeAccess")
    /\ UNCHANGED <<store, sess, next, liveA, ended, lost>>

RevokeRefresh(r) ==
    /\ req[r].at = "revokeRefresh"
    /\ \/ liveR' = liveR \ {req[r].refresh} /\ UNCHANGED logout
       \/ logout' = "failed" /\ UNCHANGED liveR
    /\ Goto(r, "revokeAccess")
    /\ UNCHANGED <<store, sess, next, liveA, ended, lost>>

RevokeAccess(r) ==
    /\ req[r].at = "revokeAccess"
    /\ \/ liveA' = liveA \ {req[r].access} /\ UNCHANGED logout
       \/ logout' = "failed" /\ UNCHANGED liveA
    /\ Goto(r, "delete")
    /\ UNCHANGED <<store, sess, next, liveR, ended, lost>>

LogoutDone(r) ==
    /\ req[r].at = "delete"
    /\ Delete
    /\ logout' = IF logout = "running" THEN "revoked" ELSE logout
    /\ Finish(r)
    /\ UNCHANGED <<idle, life, sess, issuer, lost>>

-----------------------------------------------------------------------------
\* The access token comes within the leeway of its expiry.
TokenAges ==
    /\ sess.fresh
    /\ sess' = [sess EXCEPT !.fresh = FALSE]
    /\ UNCHANGED <<store, req, issuer, ended, logout, lost>>

Tick ==
    /\ idle < IdleMax \/ life < AbsMax
    /\ idle' = IF idle < IdleMax THEN idle + 1 ELSE IdleMax
    /\ life' = IF life < AbsMax THEN life + 1 ELSE AbsMax
    /\ UNCHANGED <<stored, tombstone, sess, req, issuer, ended, logout, lost>>

\* The ticker's store.Sweep drops a session past one of its lifetimes.
Sweep ==
    /\ stored /\ ~Found
    /\ stored' = FALSE
    /\ UNCHANGED <<tombstone, idle, life, sess, req, issuer, ended, logout, lost>>

\* The process restarts: the store and every request in flight are gone.
Restart ==
    /\ stored' = FALSE /\ tombstone' = FALSE
    /\ req' = [r \in Requests |-> Free]
    /\ ended' = TRUE
    /\ logout' = IF logout \in {"running", "overlapped"} THEN "failed" ELSE logout
    /\ UNCHANGED <<idle, life, sess, issuer, lost>>

Progress(r) ==
    \/ SessionAnswered(r)
    \/ FreshEnough(r) \/ StartRefresh(r) \/ JoinRefresh(r)
    \/ IssuerRotates(r) \/ IssuerRejects(r)
    \/ RefreshDone(r) \/ RefreshRejected(r) \/ SessionExpired(r) \/ RefreshUnavailable(r)
    \/ ProxyAnswered(r)
    \/ ElevateGranted(r) \/ ElevateRefused(r) \/ ElevateAbsorbed(r) \/ ElevateUnusable(r)
    \/ ReadRefresh(r) \/ ReadAccess(r) \/ RevokeRefresh(r) \/ RevokeAccess(r) \/ LogoutDone(r)

Next ==
    \/ \E r \in Requests :
          \/ \E kind \in Kinds \ {"logout"} : Begin(r, kind)
          \/ BeginLogout(r)
          \/ Progress(r)
    \/ TokenAges \/ Tick \/ Sweep \/ Restart

Spec == Init /\ [][Next]_vars

\* Handlers run to their end (calls to the issuer time out after 10 s), and the
\* clock and the minute ticker go on.
FairSpec ==
    /\ Spec
    /\ \A r \in Requests : WF_vars(Progress(r))
    /\ WF_vars(Tick) /\ WF_vars(Sweep)

-----------------------------------------------------------------------------
(* Properties *)

TypeOK ==
    /\ stored \in BOOLEAN /\ tombstone \in BOOLEAN /\ ended \in BOOLEAN /\ lost \in BOOLEAN
    /\ idle \in 0 .. IdleMax /\ life \in 0 .. AbsMax
    /\ sess \in [access : Tokens, refresh : Tokens, fresh : BOOLEAN]
    /\ req \in [Requests -> [kind : Kinds, at : Stages, access : Tokens, refresh : Tokens]]
    /\ next \in 1 .. MaxToken + 1
    /\ liveA \subseteq Tokens /\ liveR \subseteq Tokens
    /\ logout \in LogoutStates

\* A request in flight during a sign-out, a rejected refresh or a restart can never
\* bring the session back, whatever it writes afterwards (backendkit v1.26.1).
NoResurrection == ended => ~stored

\* Only a grant the issuer rejects tears the session down: when a refresh is
\* rejected, and until the last request that hears of it has deleted the session, the
\* session's own refresh token is dead.  A late rejection never destroys a session
\* whose tokens another request has renewed meanwhile.
RejectionIsCurrent ==
    \A r \in Requests : req[r].at \in {"rejected", "fatal"} => sess.refresh \notin liveR

\* A sign-out whose revocations all succeed, and that no proxied call or step-up
\* of the same session overlaps, leaves no token of the session usable at the issuer.
LogoutRevokesTokens ==
    logout = "revoked" => sess.access \notin liveA /\ sess.refresh \notin liveR

\* "revokes the session's tokens at the issuer so they cannot be replayed after
\* logout" (revokeSessionTokens): the same with other requests in flight.
LogoutRevokesTokensAlways ==
    logout \in {"revoked", "overlapped"} /\ ended /\ (\A r \in Requests : req[r].at = "free") =>
        sess.access \notin liveA /\ sess.refresh \notin liveR

\* Until a sign-out revokes it or the answer to a rotation is lost, a stored session
\* can renew its tokens: its refresh token is live, or the successor is on its way
\* to it.  Neither a step-up nor another request's refresh costs the session that.
SessionRenewable ==
    stored /\ logout = "none" /\ ~lost =>
        sess.refresh \in liveR \/ \E r \in Requests : req[r].at = "rotated"

\* Every request is answered: none is left behind by a refresh it shared.
RequestsAnswered ==
    \A r \in Requests : req[r].at # "free" ~> req[r].at = "free"

\* The session as SessionGrant sees it: a renewal takes place when the issuer rotates the
\* refresh token, though the session gets to know later.
Promise == INSTANCE SessionGrant WITH
    grant <- {token \in liveR : /\ ~ended
                                /\ \/ token = sess.refresh
                                   \/ \E r \in Requests : req[r].at = "rotated" /\ req[r].access = token},
    phase <- IF ~ended THEN "open" ELSE IF tombstone THEN "closed" ELSE "forgotten",
    excused <- lost \/ logout # "none"

\* Whatever its requests do at the same time, the session has one refresh token that is
\* renewed at once and only forwards, and is deleted only when it has lost that or its user
\* signs out.
ImplementsSessionGrant == Promise!Spec

\* However busy the session, its absolute lifetime ends it, and the sweep removes it
\* for good: requests still in flight do not keep it in memory.
SessionsEnd == <>[]~stored
=============================================================================
