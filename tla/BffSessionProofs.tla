-------------------------- MODULE BffSessionProofs --------------------------
(***************************************************************************)
(* Proofs about one BFF session, for any number of concurrent requests,    *)
(* tokens and any lifetimes.                                               *)
(*                                                                         *)
(*   GoneInv     what has ended is out of the store, and either its id is  *)
(*               marked or no request that could write it back is left;    *)
(*   RefreshInv  one refresh at a time, with the session's own token; when *)
(*               it is rejected that token is dead, and no other on the way; *)
(*   RenewInv    the session's refresh token is live, or its successor is  *)
(*               on the way, until something else ends the session;        *)
(*   SignOutInv  a sign-out that runs alone holds the session's tokens and *)
(*               has revoked what it has passed;                           *)
(*   GrantInv    the issuer's next token is newer than all there are, and  *)
(*               a session whose token was rotated is left with a dead one *)
(*               until it gets the new one.                                *)
(*                                                                         *)
(* With these the session implements SessionGrant, the promise in which    *)
(* a renewal is one step.                                                  *)
(***************************************************************************)
EXTENDS BffSession, TLAPS

GoneInv == ended => ~stored /\ (tombstone \/ \A r \in Requests : req[r].at = "free")

RefreshInv ==
    /\ \A r, x \in Requests : Refreshing(r) /\ Refreshing(x) => r = x
    /\ \A r \in Requests : req[r].at \in {"refreshing", "rejected"} => req[r].refresh = sess.refresh
    /\ \A r \in Requests : req[r].at \in {"rejected", "fatal"} =>
           sess.refresh \notin liveR /\ \A x \in Requests : req[x].at # "rotated"

Revoking(r) == req[r].at \in SigningOut

RenewInv ==
    /\ \A r \in Requests : Revoking(r) => logout # "none"
    /\ \A r \in Requests : req[r].at = "rotated" /\ logout = "none" => req[r].access \in liveR
    /\ ~ended /\ logout = "none" /\ ~lost =>
           sess.refresh \in liveR \/ \E r \in Requests : req[r].at = "rotated"

KindInv == \A r \in Requests : req[r].at = "elevated" => req[r].kind = "elevate"

SignOutInv ==
    /\ logout = "revoked" => ended
    /\ logout \in {"running", "revoked"} => \A r \in Requests : ~ChangesTokens(r)
    /\ logout = "running" => \A r \in Requests :
           /\ req[r].at \in SigningOut \ {"readRefresh"} => req[r].refresh = sess.refresh
           /\ req[r].at \in SigningOut \ {"readRefresh", "readAccess"} =>
                  req[r].access = sess.access
           /\ req[r].at \in {"revokeAccess", "delete"} => sess.refresh \notin liveR
           /\ req[r].at = "delete" => sess.access \notin liveA
    /\ LogoutRevokesTokens

GrantInv ==
    /\ sess.refresh < next /\ \A token \in liveR : token < next
    /\ \A r \in Requests : req[r].at = "rotated" =>
           req[r].access < next /\ sess.refresh \notin liveR

IInv == TypeOK /\ GoneInv /\ RefreshInv /\ RenewInv /\ KindInv /\ SignOutInv /\ GrantInv

Call == [kind : Kinds, at : Stages, access : Tokens, refresh : Tokens]

-----------------------------------------------------------------------------
(* What a step does to the requests *)

\* A request with these fields.
Fields(c, kind, at, access, refresh) ==
    c.kind = kind /\ c.at = at /\ c.access = access /\ c.refresh = refresh

\* A slot without a request is a call that is nowhere.
LEMMA FreeType == Free \in Call /\ Free.at = "free" /\ Free.kind = "session"
  BY BoundsAssumption DEF Free, Call, Kinds, Stages, Tokens

\* A request goes on to another stage, keeping its kind and tokens.
LEMMA Going ==
  ASSUME TypeOK, NEW r \in Requests, NEW stage \in Stages, Goto(r, stage)
  PROVE  /\ req' \in [Requests -> Call]
         /\ Fields(req'[r], req[r].kind, stage, req[r].access, req[r].refresh)
         /\ \A x \in Requests \ {r} : req'[x] = req[x]
  <1> DEFINE c == [req[r] EXCEPT !.at = stage]
  <1>1. c \in Call /\ Fields(c, req[r].kind, stage, req[r].access, req[r].refresh)
    BY DEF TypeOK, Call, Fields
  <1>2. req' = [req EXCEPT ![r] = c]
    BY DEF Goto
  <1> HIDE DEF c
  <1>3. QED
    BY <1>1, <1>2 DEF TypeOK, Call

\* The same with a new access token, or with the refresh token it sends.
LEMMA GoingWithAccess ==
  ASSUME TypeOK, NEW r \in Requests, NEW stage \in Stages, NEW token \in Tokens,
         req' = [req EXCEPT ![r].at = stage, ![r].access = token]
  PROVE  /\ req' \in [Requests -> Call]
         /\ Fields(req'[r], req[r].kind, stage, token, req[r].refresh)
         /\ \A x \in Requests \ {r} : req'[x] = req[x]
  <1> DEFINE c == [req[r] EXCEPT !.at = stage, !.access = token]
  <1>0. req[r] \in Call
    BY DEF TypeOK, Call
  <1>1. c \in Call /\ Fields(c, req[r].kind, stage, token, req[r].refresh)
    BY <1>0 DEF Call, Fields
  <1>2. req' = [req EXCEPT ![r] = c]
    OBVIOUS
  <1> HIDE DEF c
  <1>3. QED
    BY <1>1, <1>2 DEF TypeOK, Call

LEMMA GoingWithRefresh ==
  ASSUME TypeOK, NEW r \in Requests, StartRefresh(r)
  PROVE  /\ req' \in [Requests -> Call]
         /\ Fields(req'[r], req[r].kind, "refreshing", req[r].access, sess.refresh)
         /\ \A x \in Requests \ {r} : req'[x] = req[x]
  <1> DEFINE c == [req[r] EXCEPT !.at = "refreshing", !.refresh = sess.refresh]
  <1>0. req[r] \in Call /\ sess.refresh \in Tokens /\ "refreshing" \in Stages
    BY DEF TypeOK, Call, Stages, Waiting, SigningOut
  <1>1. c \in Call /\ Fields(c, req[r].kind, "refreshing", req[r].access, sess.refresh)
    BY <1>0 DEF Call, Fields
  <1>2. req' = [req EXCEPT ![r] = c]
    BY DEF StartRefresh
  <1> HIDE DEF c
  <1>3. QED
    BY <1>1, <1>2 DEF TypeOK, Call

\* A request ends.
LEMMA Finishing ==
  ASSUME TypeOK, NEW r \in Requests, Finish(r)
  PROVE  /\ req' \in [Requests -> Call]
         /\ req'[r].at = "free" /\ req'[r].kind = "session"
         /\ \A x \in Requests \ {r} : req'[x] = req[x]
  BY FreeType DEF Finish, TypeOK, Call

\* Several requests end together.
LEMMA FinishingAll ==
  ASSUME TypeOK, NEW S, FinishAll(S)
  PROVE  /\ req' \in [Requests -> Call]
         /\ \A x \in Requests : IF x \in S THEN req'[x].at = "free" /\ req'[x].kind = "session"
                                          ELSE req'[x] = req[x]
  BY FreeType DEF FinishAll, TypeOK, Call

\* A request begins.
LEMMA Beginning ==
  ASSUME TypeOK, NEW r \in Requests, NEW kind \in Kinds, Begin(r, kind)
  PROVE  /\ req' \in [Requests -> Call]
         /\ req'[r].kind = kind
         /\ req'[r].at = IF kind = "session" THEN "got" ELSE "ensure"
         /\ \A x \in Requests \ {r} : req'[x] = req[x]
  <1> DEFINE stage == IF kind = "session" THEN "got" ELSE "ensure"
             c == [Free EXCEPT !.kind = kind, !.at = stage]
  <1>1. stage \in Stages
    BY DEF Stages, Waiting, SigningOut
  <1>2. c \in Call /\ c.kind = kind /\ c.at = stage
    BY <1>1, FreeType DEF Call
  <1>3. req' = [req EXCEPT ![r] = c]
    BY DEF Begin
  <1> HIDE DEF c
  <1>4. QED
    BY <1>2, <1>3 DEF TypeOK, Call

LEMMA BeginningLogout ==
  ASSUME TypeOK, NEW r \in Requests, BeginLogout(r)
  PROVE  /\ req' \in [Requests -> Call]
         /\ req'[r].kind = "logout" /\ req'[r].at = "readRefresh"
         /\ \A x \in Requests \ {r} : req'[x] = req[x]
  <1> DEFINE c == [Free EXCEPT !.kind = "logout", !.at = "readRefresh"]
  <1>1. "logout" \in Kinds /\ "readRefresh" \in Stages
    BY DEF Kinds, Stages, SigningOut
  <1>2. c \in Call /\ c.kind = "logout" /\ c.at = "readRefresh"
    BY <1>1, FreeType DEF Call
  <1>3. req' = [req EXCEPT ![r] = c]
    BY DEF BeginLogout
  <1> HIDE DEF c
  <1>4. QED
    BY <1>2, <1>3 DEF TypeOK, Call

\* A sign-out reads one of the session's tokens.
LEMMA Reading ==
  ASSUME TypeOK, NEW r \in Requests, ReadRefresh(r) \/ ReadAccess(r)
  PROVE  /\ req' \in [Requests -> Call]
         /\ ReadRefresh(r) => Fields(req'[r], req[r].kind, "readAccess", req[r].access, sess.refresh)
         /\ ReadAccess(r) => Fields(req'[r], req[r].kind, "revokeRefresh", sess.access, req[r].refresh)
         /\ \A x \in Requests \ {r} : req'[x] = req[x]
  <1>0. /\ req[r] \in Call /\ sess.access \in Tokens /\ sess.refresh \in Tokens
        /\ {"readAccess", "revokeRefresh"} \subseteq Stages
    BY DEF TypeOK, Call, Stages, SigningOut
  <1>1. CASE ReadRefresh(r)
    <2> DEFINE c == [req[r] EXCEPT !.at = "readAccess", !.refresh = sess.refresh]
    <2>1. c \in Call /\ Fields(c, req[r].kind, "readAccess", req[r].access, sess.refresh)
      BY <1>0 DEF Call, Fields
    <2>2. req' = [req EXCEPT ![r] = c]
      BY <1>1 DEF ReadRefresh
    <2>3. ~ReadAccess(r)
      BY <1>1 DEF ReadRefresh, ReadAccess
    <2> HIDE DEF c
    <2>4. QED
      BY <2>1, <2>2, <2>3 DEF TypeOK, Call
  <1>2. CASE ReadAccess(r)
    <2> DEFINE c == [req[r] EXCEPT !.at = "revokeRefresh", !.access = sess.access]
    <2>1. c \in Call /\ Fields(c, req[r].kind, "revokeRefresh", sess.access, req[r].refresh)
      BY <1>0 DEF Call, Fields
    <2>2. req' = [req EXCEPT ![r] = c]
      BY <1>2 DEF ReadAccess
    <2>3. ~ReadRefresh(r)
      BY <1>2 DEF ReadRefresh, ReadAccess
    <2> HIDE DEF c
    <2>4. QED
      BY <2>1, <2>2, <2>3 DEF TypeOK, Call
  <1>3. QED
    BY <1>1, <1>2

\* A refresh is rejected: all that shared it have an end of the session before them.
LEMMA Hearing ==
  ASSUME TypeOK, NEW r \in Requests, RefreshRejected(r)
  PROVE  /\ req' \in [Requests -> Call]
         /\ \A x \in Sharing(r) : Fields(req'[x], req[x].kind, "fatal", req[x].access, req[x].refresh)
         /\ \A x \in Requests \ Sharing(r) : req'[x] = req[x]
  <1> DEFINE c(x) == [req[x] EXCEPT !.at = "fatal"]
  <1>1. \A x \in Requests : c(x) \in Call /\ Fields(c(x), req[x].kind, "fatal", req[x].access, req[x].refresh)
    <2> SUFFICES ASSUME NEW x \in Requests
                 PROVE  c(x) \in Call /\ Fields(c(x), req[x].kind, "fatal", req[x].access, req[x].refresh)
      OBVIOUS
    <2>1. req[x] \in Call /\ "fatal" \in Stages
      BY DEF TypeOK, Call, Stages
    <2>2. QED
      BY <2>1 DEF Call, Fields
  <1>2. Sharing(r) \subseteq Requests
    BY DEF Sharing
  <1>3. req' = [x \in Requests |-> IF x \in Sharing(r) THEN c(x) ELSE req[x]]
    BY DEF RefreshRejected
  <1> HIDE DEF c
  <1>4. QED
    BY <1>1, <1>2, <1>3 DEF TypeOK, Call

\* A refresh is over: all that shared it go on with the new token.
LEMMA Shared ==
  ASSUME TypeOK, NEW r \in Requests, RefreshDone(r)
  PROVE  /\ req' \in [Requests -> Call]
         /\ \A x \in Sharing(r) : Fields(req'[x], req[x].kind, "ready", req[r].access, req[x].refresh)
         /\ \A x \in Requests \ Sharing(r) : req'[x] = req[x]
  <1> DEFINE c(x) == [req[x] EXCEPT !.at = "ready", !.access = req[r].access]
  <1>1. \A x \in Requests : c(x) \in Call /\ Fields(c(x), req[x].kind, "ready", req[r].access, req[x].refresh)
    <2> SUFFICES ASSUME NEW x \in Requests
                 PROVE  c(x) \in Call /\ Fields(c(x), req[x].kind, "ready", req[r].access, req[x].refresh)
      OBVIOUS
    <2>1. req[x] \in Call /\ req[r].access \in Tokens /\ "ready" \in Stages
      BY DEF TypeOK, Call, Stages
    <2>2. QED
      BY <2>1 DEF Call, Fields
  <1>2. Sharing(r) \subseteq Requests
    BY DEF Sharing
  <1>3. req' = [x \in Requests |-> IF x \in Sharing(r) THEN c(x) ELSE req[x]]
    BY DEF RefreshDone
  <1> HIDE DEF c
  <1>4. QED
    BY <1>1, <1>2, <1>3 DEF TypeOK, Call

-----------------------------------------------------------------------------
\* The requests keep their type in every step.
LEMMA RequestsPreserved == TypeOK /\ [Next]_vars => req' \in [Requests -> Call]
  <1> SUFFICES ASSUME TypeOK, [Next]_vars
               PROVE  req' \in [Requests -> Call]
    OBVIOUS
  <1>0. req \in [Requests -> Call]
    BY DEF TypeOK, Call
  <1>1. ASSUME NEW r \in Requests, NEW kind \in Kinds, Begin(r, kind)
        PROVE  req' \in [Requests -> Call]
    BY <1>1, Beginning
  <1>2. ASSUME NEW r \in Requests,
               \/ BeginLogout(r) \/ ReadRefresh(r) \/ ReadAccess(r)
               \/ RefreshDone(r) \/ RefreshRejected(r) \/ StartRefresh(r)
        PROVE  req' \in [Requests -> Call]
    BY <1>2, BeginningLogout, Reading, Shared, Hearing, GoingWithRefresh
  <1>3. ASSUME NEW r \in Requests,
               \/ SessionAnswered(r) \/ ProxyAnswered(r) \/ ElevateRefused(r) \/ ElevateAbsorbed(r)
               \/ ElevateUnusable(r) \/ SessionExpired(r) \/ LogoutDone(r)
        PROVE  req' \in [Requests -> Call]
    BY <1>3, Finishing DEF SessionAnswered, ProxyAnswered, ElevateRefused, ElevateAbsorbed,
                           ElevateUnusable, SessionExpired, LogoutDone
  <1>4. ASSUME NEW r \in Requests, RefreshUnavailable(r)
        PROVE  req' \in [Requests -> Call]
    BY <1>4, FinishingAll DEF RefreshUnavailable
  <1>5. ASSUME NEW r \in Requests,
               JoinRefresh(r) \/ IssuerRejects(r) \/ RevokeRefresh(r) \/ RevokeAccess(r)
        PROVE  req' \in [Requests -> Call]
    <2>1. \E stage \in Stages : Goto(r, stage)
      BY <1>5 DEF JoinRefresh, IssuerRejects, RevokeRefresh, RevokeAccess, Stages, Waiting, SigningOut
    <2>2. QED
      BY <2>1, Going
  <1>6. ASSUME NEW r \in Requests, FreshEnough(r) \/ IssuerRotates(r) \/ ElevateGranted(r)
        PROVE  req' \in [Requests -> Call]
    <2>1. sess.access \in Tokens /\ (next <= MaxToken => next \in Tokens)
      BY BoundsAssumption DEF TypeOK, Tokens
    <2>2. \E stage \in Stages, token \in Tokens :
             req' = [req EXCEPT ![r].at = stage, ![r].access = token]
      BY <1>6, <2>1 DEF FreshEnough, IssuerRotates, ElevateGranted, Stages, Waiting, SigningOut
    <2>3. QED
      BY <2>2, GoingWithAccess
  <1>7. CASE TokenAges \/ Tick \/ Sweep \/ UNCHANGED vars
    BY <1>0, <1>7 DEF TokenAges, Tick, Sweep, vars
  <1>8. CASE Restart
    BY <1>8, FreeType DEF Restart
  <1>9. QED
    BY Zenon, <1>1, <1>2, <1>3, <1>4, <1>5, <1>6, <1>7, <1>8
       DEF Next, Progress

\* The issuer's tokens keep their type in every step.
LEMMA TokensPreserved ==
  TypeOK /\ [Next]_vars => /\ next' \in 1 .. MaxToken + 1
                          /\ liveA' \subseteq Tokens /\ liveR' \subseteq Tokens
  <1> SUFFICES ASSUME TypeOK, [Next]_vars
               PROVE  /\ next' \in 1 .. MaxToken + 1
                      /\ liveA' \subseteq Tokens /\ liveR' \subseteq Tokens
    OBVIOUS
  <1>0. next \in 1 .. MaxToken + 1 /\ liveA \subseteq Tokens /\ liveR \subseteq Tokens
    BY DEF TypeOK
  <1>1. ASSUME NEW r \in Requests, IssuerRotates(r) \/ ElevateGranted(r)
        PROVE  /\ next' \in 1 .. MaxToken + 1
               /\ liveA' \subseteq Tokens /\ liveR' \subseteq Tokens
    BY <1>0, <1>1, BoundsAssumption DEF IssuerRotates, ElevateGranted, Tokens
  <1>2. ASSUME NEW r \in Requests, RevokeRefresh(r) \/ RevokeAccess(r)
        PROVE  next' = next /\ liveA' \subseteq liveA /\ liveR' \subseteq liveR
    BY <1>2 DEF RevokeRefresh, RevokeAccess
  <1>3. ASSUME NEW r \in Requests, (\E kind \in Kinds : Begin(r, kind)) \/ BeginLogout(r)
        PROVE  UNCHANGED issuer
    BY <1>3 DEF Begin, BeginLogout
  <1>4. ASSUME NEW r \in Requests,
               \/ SessionAnswered(r) \/ FreshEnough(r) \/ StartRefresh(r) \/ JoinRefresh(r)
               \/ IssuerRejects(r) \/ RefreshDone(r) \/ RefreshRejected(r) \/ RefreshUnavailable(r)
        PROVE  UNCHANGED issuer
    BY <1>4 DEF SessionAnswered, FreshEnough, StartRefresh, JoinRefresh, IssuerRejects,
                RefreshDone, RefreshRejected, RefreshUnavailable
  <1>5. ASSUME NEW r \in Requests,
               \/ ProxyAnswered(r) \/ ElevateRefused(r) \/ ElevateAbsorbed(r) \/ ElevateUnusable(r)
               \/ SessionExpired(r) \/ ReadRefresh(r) \/ ReadAccess(r) \/ LogoutDone(r)
        PROVE  UNCHANGED issuer
    BY <1>5 DEF ProxyAnswered, ElevateRefused, ElevateAbsorbed, ElevateUnusable, SessionExpired,
                ReadRefresh, ReadAccess, LogoutDone
  <1>6. CASE TokenAges \/ Tick \/ Sweep \/ Restart \/ UNCHANGED vars
    BY <1>0, <1>6 DEF TokenAges, Tick, Sweep, Restart, vars, issuer
  <1>7. ASSUME UNCHANGED issuer
        PROVE  /\ next' \in 1 .. MaxToken + 1
               /\ liveA' \subseteq Tokens /\ liveR' \subseteq Tokens
    BY <1>0, <1>7 DEF issuer
  <1>8. ASSUME NEW r \in Requests, RevokeRefresh(r) \/ RevokeAccess(r)
        PROVE  /\ next' \in 1 .. MaxToken + 1
               /\ liveA' \subseteq Tokens /\ liveR' \subseteq Tokens
    <2>1. next' = next /\ liveA' \subseteq liveA /\ liveR' \subseteq liveR
      BY <1>2, <1>8
    <2>2. QED
      BY <1>0, <2>1
  <1>9. QED
    BY Zenon, <1>1, <1>3, <1>4, <1>5, <1>6, <1>7, <1>8
       DEF Next, Progress

\* So do the session object, the store and the history.
LEMMA RestPreserved ==
  TypeOK /\ [Next]_vars =>
    /\ stored' \in BOOLEAN /\ tombstone' \in BOOLEAN /\ ended' \in BOOLEAN /\ lost' \in BOOLEAN
    /\ idle' \in 0 .. IdleMax /\ life' \in 0 .. AbsMax
    /\ sess' \in [access : Tokens, refresh : Tokens, fresh : BOOLEAN]
    /\ logout' \in LogoutStates
  <1> DEFINE Rest == /\ stored \in BOOLEAN /\ tombstone \in BOOLEAN /\ ended \in BOOLEAN
                     /\ lost \in BOOLEAN
                     /\ idle \in 0 .. IdleMax /\ life \in 0 .. AbsMax
                     /\ sess \in [access : Tokens, refresh : Tokens, fresh : BOOLEAN]
                     /\ logout \in LogoutStates
  <1> SUFFICES ASSUME TypeOK, [Next]_vars
               PROVE  Rest'
    OBVIOUS
  <1>0. Rest /\ 0 \in 0 .. IdleMax /\ \A r \in Requests : req[r].access \in Tokens
    BY BoundsAssumption DEF TypeOK
  <1>1. ASSUME NEW r \in Requests, (\E kind \in Kinds : Begin(r, kind)) \/ BeginLogout(r)
        PROVE  Rest'
    <2>1. UNCHANGED <<store, sess, ended, lost>>
      BY <1>1 DEF Begin, BeginLogout
    <2>2. logout' \in LogoutStates
      BY <1>0, <1>1 DEF Begin, BeginLogout, LogoutStates
    <2>3. QED
      BY <1>0, <2>1, <2>2 DEF store
  <1>2. ASSUME NEW r \in Requests, SessionAnswered(r) \/ ProxyAnswered(r)
        PROVE  Rest'
    BY <1>0, <1>2 DEF SessionAnswered, ProxyAnswered, PutBack
  <1>3. ASSUME NEW r \in Requests,
               \/ FreshEnough(r) \/ StartRefresh(r) \/ JoinRefresh(r) \/ IssuerRotates(r)
               \/ IssuerRejects(r) \/ RefreshRejected(r) \/ ElevateGranted(r) \/ ElevateRefused(r)
               \/ ElevateUnusable(r) \/ ReadRefresh(r) \/ ReadAccess(r)
        PROVE  Rest'
    <2>1. UNCHANGED <<store, sess, ended, logout, lost>>
      BY <1>3 DEF FreshEnough, StartRefresh, JoinRefresh, IssuerRotates, IssuerRejects,
                  RefreshRejected, ElevateGranted, ElevateRefused, ElevateUnusable,
                  ReadRefresh, ReadAccess
    <2>2. QED
      BY <1>0, <2>1 DEF store
  <1>4. ASSUME NEW r \in Requests, RefreshDone(r) \/ ElevateAbsorbed(r)
        PROVE  Rest'
    <2>1. sess' \in [access : Tokens, refresh : Tokens, fresh : BOOLEAN]
      <3>1. CASE RefreshDone(r)
        BY <1>0, <3>1 DEF RefreshDone
      <3>2. CASE ElevateAbsorbed(r)
        <4>1. PICK withinLeeway \in BOOLEAN :
                sess' = [sess EXCEPT !.access = req[r].access, !.fresh = ~withinLeeway]
          BY <3>2 DEF ElevateAbsorbed
        <4>2. QED
          BY <1>0, <4>1
      <3>3. QED
        BY <1>4, <3>1, <3>2
    <2>2. QED
      BY <1>0, <1>4, <2>1 DEF RefreshDone, ElevateAbsorbed, PutBack
  <1>5. ASSUME NEW r \in Requests, SessionExpired(r) \/ LogoutDone(r)
        PROVE  Rest'
    BY <1>0, <1>5 DEF SessionExpired, LogoutDone, Delete, LogoutStates
  <1>6. ASSUME NEW r \in Requests, RefreshUnavailable(r)
        PROVE  Rest'
    <2>1. UNCHANGED <<store, sess, ended, logout>> /\ lost' \in BOOLEAN
      BY <1>0, <1>6 DEF RefreshUnavailable
    <2>2. QED
      BY <1>0, <2>1 DEF store
  <1>7. ASSUME NEW r \in Requests, RevokeRefresh(r) \/ RevokeAccess(r)
        PROVE  Rest'
    <2>1. UNCHANGED <<store, sess, ended, lost>> /\ logout' \in {logout, "failed"}
      BY <1>7 DEF RevokeRefresh, RevokeAccess
    <2>2. QED
      BY <1>0, <2>1 DEF store, LogoutStates
  <1>8. CASE TokenAges
    <2>1. sess' \in [access : Tokens, refresh : Tokens, fresh : BOOLEAN]
      BY <1>0, <1>8 DEF TokenAges
    <2>2. QED
      BY <1>0, <1>8, <2>1 DEF TokenAges, store
  <1>9. CASE Tick
    BY <1>0, <1>9, BoundsAssumption DEF Tick
  <1>10. CASE Sweep \/ Restart
    BY <1>0, <1>10 DEF Sweep, Restart, LogoutStates
  <1>11. CASE UNCHANGED vars
    BY <1>0, <1>11 DEF vars, store
  <1>12. QED
    BY Zenon, <1>1, <1>2, <1>3, <1>4, <1>5, <1>6, <1>7, <1>8, <1>9, <1>10, <1>11
       DEF Next, Progress

\* Type correctness is preserved by every step.
LEMMA TypePreserved == TypeOK /\ [Next]_vars => TypeOK'
  BY RequestsPreserved, TokensPreserved, RestPreserved DEF TypeOK, Call

-----------------------------------------------------------------------------
\* What has ended stays out of the store: a request that is still there finds the mark.
LEMMA GonePreserved == IInv /\ [Next]_vars => GoneInv'
  <1> SUFFICES ASSUME IInv, [Next]_vars
               PROVE  GoneInv'
    OBVIOUS
  <1>0. TypeOK /\ GoneInv
    BY DEF IInv
  <1> USE <1>0
  \* A request begins only while the session is there.
  <1>1. ASSUME NEW r \in Requests, (\E kind \in Kinds : Begin(r, kind)) \/ BeginLogout(r)
        PROVE  GoneInv'
    BY <1>1 DEF Begin, BeginLogout, Found, GoneInv, store
  \* A request in flight writes the session back, or leaves the store alone.
  <1>2. ASSUME NEW r \in Requests, req[r].at # "free", PutBack, UNCHANGED ended
        PROVE  GoneInv'
    BY <1>2 DEF PutBack, GoneInv
  <1>3. ASSUME NEW r \in Requests, req[r].at # "free", UNCHANGED <<stored, tombstone, ended>>
        PROVE  GoneInv'
    BY <1>3 DEF GoneInv
  <1>4. ASSUME NEW r \in Requests,
               SessionAnswered(r) \/ RefreshDone(r) \/ ProxyAnswered(r) \/ ElevateAbsorbed(r)
        PROVE  GoneInv'
    BY <1>2, <1>4 DEF SessionAnswered, RefreshDone, ProxyAnswered, ElevateAbsorbed
  <1>5. ASSUME NEW r \in Requests,
               \/ FreshEnough(r) \/ StartRefresh(r) \/ JoinRefresh(r)
               \/ IssuerRotates(r) \/ IssuerRejects(r) \/ RefreshRejected(r) \/ RefreshUnavailable(r)
        PROVE  GoneInv'
    BY <1>3, <1>5 DEF FreshEnough, StartRefresh, JoinRefresh, IssuerRotates, IssuerRejects,
                      RefreshRejected, RefreshUnavailable, store
  <1>6. ASSUME NEW r \in Requests,
               \/ ElevateGranted(r) \/ ElevateRefused(r) \/ ElevateUnusable(r)
               \/ ReadRefresh(r) \/ ReadAccess(r) \/ RevokeRefresh(r) \/ RevokeAccess(r)
        PROVE  GoneInv'
    BY <1>3, <1>6 DEF ElevateGranted, ElevateRefused, ElevateUnusable, ReadRefresh, ReadAccess,
                      RevokeRefresh, RevokeAccess, store
  \* The ends themselves.
  <1>7. ASSUME NEW r \in Requests, SessionExpired(r) \/ LogoutDone(r)
        PROVE  GoneInv'
    BY <1>7 DEF SessionExpired, LogoutDone, Delete, GoneInv
  <1>8. CASE Restart
    BY <1>8, FreeType DEF Restart, GoneInv
  <1>9. CASE TokenAges \/ Tick \/ Sweep \/ UNCHANGED vars
    BY <1>9 DEF TokenAges, Tick, Sweep, vars, store, GoneInv
  <1>10. QED
    BY Zenon, <1>1, <1>4, <1>5, <1>6, <1>7, <1>8, <1>9
       DEF Next, Progress

\* One refresh at a time, with the session's own token; a rejection is of that token.
LEMMA RefreshPreserved == IInv /\ [Next]_vars => RefreshInv'
  <1> SUFFICES ASSUME IInv, [Next]_vars
               PROVE  RefreshInv'
    OBVIOUS
  <1>0. TypeOK /\ RefreshInv
    BY DEF IInv
  <1> USE <1>0
  \* A step that starts no refresh, nor carries one on, and gives the session no new token.
  <1>1. ASSUME \A x \in Requests : Refreshing(x)' \/ req'[x].at = "fatal" => req'[x] = req[x],
               sess'.refresh = sess.refresh, liveR' \subseteq liveR
        PROVE  RefreshInv'
    BY <1>1 DEF RefreshInv, Refreshing
  <1>2. ASSUME NEW r \in Requests, StartRefresh(r)
        PROVE  RefreshInv'
    <2>1. Fields(req'[r], req[r].kind, "refreshing", req[r].access, sess.refresh)
          /\ \A x \in Requests \ {r} : req'[x] = req[x] /\ ~Refreshing(x)
      BY <1>2, GoingWithRefresh DEF StartRefresh
    <2>2. UNCHANGED <<sess, liveR>>
      BY <1>2 DEF StartRefresh, issuer
    <2>3. QED
      BY <2>1, <2>2 DEF RefreshInv, Refreshing, Fields
  <1>3. ASSUME NEW r \in Requests, IssuerRejects(r)
        PROVE  RefreshInv'
    <2>1. Fields(req'[r], req[r].kind, "rejected", req[r].access, req[r].refresh)
          /\ \A x \in Requests \ {r} : req'[x] = req[x]
      BY <1>3, Going DEF IssuerRejects, Stages, Waiting, SigningOut
    <2>2. UNCHANGED <<sess, liveR>> /\ req[r].at = "refreshing" /\ req[r].refresh \notin liveR
      BY <1>3 DEF IssuerRejects, issuer
    <2>3. \A x \in Requests : req'[x].at # "rotated"
      BY <2>1, <2>2 DEF RefreshInv, Refreshing, Fields
    <2>4. QED
      BY <2>1, <2>2, <2>3 DEF RefreshInv, Refreshing, Fields
  <1>4. ASSUME NEW r \in Requests, IssuerRotates(r)
        PROVE  RefreshInv'
    <2>1. next \in Tokens /\ "rotated" \in Stages
      BY <1>4, BoundsAssumption DEF IssuerRotates, TypeOK, Tokens, Stages, Waiting, SigningOut
    <2>2. Fields(req'[r], req[r].kind, "rotated", next, req[r].refresh)
          /\ \A x \in Requests \ {r} : req'[x] = req[x]
      BY <1>4, <2>1, GoingWithAccess DEF IssuerRotates
    <2>3. UNCHANGED sess /\ req[r].at = "refreshing" /\ sess.refresh \in liveR
      BY <1>4 DEF IssuerRotates, RefreshInv
    <2>4. \A x \in Requests : req'[x].at \notin {"rejected", "fatal"}
      BY <2>2, <2>3 DEF RefreshInv, Fields
    <2>5. QED
      BY <2>2, <2>3, <2>4 DEF RefreshInv, Refreshing, Fields
  <1>5. ASSUME NEW r \in Requests, RefreshDone(r)
        PROVE  RefreshInv'
    <2>1. \A x \in Requests : ~Refreshing(x)' /\ req'[x].at # "fatal"
      <3>1. \A x \in Requests : Refreshing(x) \/ req[x].at = "fatal" => x \in Sharing(r)
        BY <1>5 DEF RefreshDone, Refreshing, RefreshInv, Sharing
      <3>2. QED
        BY <1>5, <3>1, Shared DEF Refreshing, Fields
    <2>2. QED
      BY <2>1 DEF RefreshInv, Refreshing
  \* The rest.
  <1>6. ASSUME NEW r \in Requests, (\E kind \in Kinds : Begin(r, kind)) \/ BeginLogout(r)
        PROVE  RefreshInv'
    <2>1. UNCHANGED <<sess, liveR>>
      BY <1>6 DEF Begin, BeginLogout, issuer
    <2>2. ~Refreshing(r)' /\ req'[r].at # "fatal" /\ \A x \in Requests \ {r} : req'[x] = req[x]
      BY <1>6, Beginning, BeginningLogout DEF Refreshing
    <2>3. QED
      BY <1>1, <2>1, <2>2
  <1>7. ASSUME NEW r \in Requests, Finish(r), sess'.refresh = sess.refresh, liveR' \subseteq liveR
        PROVE  RefreshInv'
    BY <1>1, <1>7, Finishing DEF Refreshing
  <1>8. ASSUME NEW r \in Requests,
               \/ SessionAnswered(r) \/ ProxyAnswered(r) \/ ElevateRefused(r)
               \/ ElevateUnusable(r) \/ SessionExpired(r) \/ LogoutDone(r)
        PROVE  RefreshInv'
    BY <1>7, <1>8 DEF SessionAnswered, ProxyAnswered, ElevateRefused, ElevateUnusable,
                      SessionExpired, LogoutDone, issuer
  <1>9. ASSUME NEW r \in Requests, ElevateAbsorbed(r)
        PROVE  RefreshInv'
    <2>1. sess'.refresh = sess.refresh /\ UNCHANGED liveR /\ Finish(r)
      BY <1>9 DEF ElevateAbsorbed, issuer, TypeOK
    <2>2. QED
      BY <1>7, <2>1
  <1>10. ASSUME NEW r \in Requests, RefreshUnavailable(r)
         PROVE  RefreshInv'
    <2>1. FinishAll(Sharing(r)) /\ UNCHANGED <<sess, liveR>>
      BY <1>10 DEF RefreshUnavailable, issuer
    <2>2. \A x \in Requests : Refreshing(x)' \/ req'[x].at = "fatal" => req'[x] = req[x]
      BY <2>1, FinishingAll DEF Refreshing
    <2>3. QED
      BY <1>1, <2>1, <2>2
  <1>11. ASSUME NEW r \in Requests, RefreshRejected(r)
         PROVE  RefreshInv'
    <2>1. req[r].at = "rejected" /\ UNCHANGED <<sess, liveR>>
      BY <1>11 DEF RefreshRejected, issuer
    <2>2. sess.refresh \notin liveR /\ \A x \in Requests : req[x].at # "rotated"
      BY <2>1 DEF RefreshInv
    <2>3. \A x \in Requests : ~Refreshing(x)'
      <3>1. \A x \in Requests : Refreshing(x) => x \in Sharing(r)
        BY <2>1 DEF Refreshing, RefreshInv, Sharing
      <3>2. QED
        BY <1>11, <3>1, Hearing DEF Refreshing, Fields
    <2>4. QED
      BY <2>1, <2>2, <2>3 DEF RefreshInv, Refreshing
  <1>12. ASSUME NEW r \in Requests, FreshEnough(r) \/ ElevateGranted(r)
         PROVE  RefreshInv'
    <2>1. sess.access \in Tokens /\ (next <= MaxToken => next \in Tokens)
      BY BoundsAssumption DEF TypeOK, Tokens
    <2>2. \E stage \in {"ready", "elevated"}, token \in Tokens :
             req' = [req EXCEPT ![r].at = stage, ![r].access = token]
      BY <1>12, <2>1 DEF FreshEnough, ElevateGranted
    <2>3. UNCHANGED <<sess, liveR>>
      BY <1>12 DEF FreshEnough, ElevateGranted, issuer
    <2>4. ~Refreshing(r)' /\ req'[r].at # "fatal" /\ \A x \in Requests \ {r} : req'[x] = req[x]
      <3>1. PICK stage \in {"ready", "elevated"}, token \in Tokens :
               req' = [req EXCEPT ![r].at = stage, ![r].access = token]
        BY <2>2
      <3>2. stage \in Stages
        BY DEF Stages
      <3>3. req'[r].at = stage /\ \A x \in Requests \ {r} : req'[x] = req[x]
        BY <3>1, <3>2, GoingWithAccess DEF Fields
      <3>4. QED
        BY <3>3 DEF Refreshing
    <2>5. QED
      BY <1>1, <2>3, <2>4
  <1>13. ASSUME NEW r \in Requests, JoinRefresh(r) \/ RevokeRefresh(r) \/ RevokeAccess(r)
         PROVE  RefreshInv'
    <2>1. \E stage \in {"joined", "revokeAccess", "delete"} : Goto(r, stage)
      BY <1>13 DEF JoinRefresh, RevokeRefresh, RevokeAccess
    <2>2. UNCHANGED sess /\ liveR' \subseteq liveR
      BY <1>13 DEF JoinRefresh, RevokeRefresh, RevokeAccess, issuer
    <2>3. ~Refreshing(r)' /\ req'[r].at # "fatal" /\ \A x \in Requests \ {r} : req'[x] = req[x]
      BY <2>1, Going DEF Refreshing, Fields, Stages, Waiting, SigningOut
    <2>4. QED
      BY <1>1, <2>2, <2>3
  <1>14. CASE TokenAges
    BY <1>1, <1>14 DEF TokenAges, issuer, TypeOK
  <1>15. CASE Tick \/ Sweep \/ UNCHANGED vars
    BY <1>1, <1>15 DEF Tick, Sweep, vars, issuer
  <1>16. CASE Restart
    BY <1>16, FreeType DEF Restart, RefreshInv, Refreshing
  <1>17. ASSUME NEW r \in Requests, ReadRefresh(r) \/ ReadAccess(r)
         PROVE  RefreshInv'
    <2>1. UNCHANGED <<sess, liveR>>
      BY <1>17 DEF ReadRefresh, ReadAccess, issuer
    <2>2. ~Refreshing(r)' /\ req'[r].at # "fatal" /\ \A x \in Requests \ {r} : req'[x] = req[x]
      BY <1>17, Reading DEF Refreshing, Fields
    <2>3. QED
      BY <1>1, <2>1, <2>2
  <1>18. QED
    BY Zenon, <1>2, <1>3, <1>4, <1>5, <1>6, <1>8, <1>9, <1>10, <1>11, <1>12, <1>13, <1>14, <1>15,
       <1>16, <1>17
       DEF Next, Progress

-----------------------------------------------------------------------------
\* Three steps that give a request a token.
LEMMA GettingToken ==
  ASSUME TypeOK, NEW r \in Requests
  PROVE  /\ FreshEnough(r) => Fields(req'[r], req[r].kind, "ready", sess.access, req[r].refresh)
         /\ IssuerRotates(r) => Fields(req'[r], req[r].kind, "rotated", next, req[r].refresh)
         /\ ElevateGranted(r) => Fields(req'[r], req[r].kind, "elevated", next, req[r].refresh)
         /\ FreshEnough(r) \/ IssuerRotates(r) \/ ElevateGranted(r) =>
              \A x \in Requests \ {r} : req'[x] = req[x]
  <1>1. sess.access \in Tokens /\ (next <= MaxToken => next \in Tokens)
    BY BoundsAssumption DEF TypeOK, Tokens
  <1>2. {"ready", "rotated", "elevated"} \subseteq Stages
    BY DEF Stages, Waiting, SigningOut
  <1>3. CASE FreshEnough(r)
    BY <1>1, <1>2, <1>3, GoingWithAccess DEF FreshEnough, IssuerRotates, ElevateGranted
  <1>4. CASE IssuerRotates(r)
    BY <1>1, <1>2, <1>4, GoingWithAccess DEF FreshEnough, IssuerRotates, ElevateGranted
  <1>5. CASE ElevateGranted(r)
    BY <1>1, <1>2, <1>5, GoingWithAccess DEF FreshEnough, IssuerRotates, ElevateGranted
  <1>6. QED
    BY <1>3, <1>4, <1>5

\* Two steps of the refresh, and two of the sign-out, that only move on.
LEMMA MovingOn ==
  ASSUME TypeOK, NEW r \in Requests
  PROVE  /\ JoinRefresh(r) => req'[r].at = "joined"
         /\ IssuerRejects(r) => req'[r].at = "rejected"
         /\ RevokeRefresh(r) => req'[r].at = "revokeAccess"
         /\ RevokeAccess(r) => req'[r].at = "delete"
         /\ JoinRefresh(r) \/ IssuerRejects(r) \/ RevokeRefresh(r) \/ RevokeAccess(r) =>
              /\ req'[r].kind = req[r].kind
              /\ req'[r].access = req[r].access /\ req'[r].refresh = req[r].refresh
              /\ \A x \in Requests \ {r} : req'[x] = req[x]
  <1>1. {"joined", "rejected", "revokeAccess", "delete"} \subseteq Stages
    BY DEF Stages, Waiting, SigningOut
  <1>2. CASE JoinRefresh(r)
    BY <1>1, <1>2, Going DEF JoinRefresh, IssuerRejects, RevokeRefresh, RevokeAccess, Fields
  <1>3. CASE IssuerRejects(r)
    BY <1>1, <1>3, Going DEF JoinRefresh, IssuerRejects, RevokeRefresh, RevokeAccess, Fields
  <1>4. CASE RevokeRefresh(r)
    BY <1>1, <1>4, Going DEF JoinRefresh, IssuerRejects, RevokeRefresh, RevokeAccess, Fields
  <1>5. CASE RevokeAccess(r)
    BY <1>1, <1>5, Going DEF JoinRefresh, IssuerRejects, RevokeRefresh, RevokeAccess, Fields
  <1>6. QED
    BY <1>2, <1>3, <1>4, <1>5

\* Only a step-up holds an elevated token.
LEMMA KindPreserved == IInv /\ [Next]_vars => KindInv'
  <1> SUFFICES ASSUME IInv, [Next]_vars
               PROVE  KindInv'
    OBVIOUS
  <1>0. TypeOK /\ KindInv
    BY DEF IInv
  <1> USE <1>0
  <1>1. ASSUME \A x \in Requests : req'[x] = req[x] \/ req'[x].at # "elevated"
        PROVE  KindInv'
    BY <1>1 DEF KindInv
  <1>2. ASSUME NEW r \in Requests, (\E kind \in Kinds : Begin(r, kind)) \/ BeginLogout(r)
        PROVE  KindInv'
    BY <1>1, <1>2, Beginning, BeginningLogout
  <1>3. ASSUME NEW r \in Requests, Finish(r)
        PROVE  KindInv'
    BY <1>1, <1>3, Finishing
  <1>4. ASSUME NEW r \in Requests,
               \/ SessionAnswered(r) \/ ProxyAnswered(r) \/ ElevateRefused(r) \/ ElevateAbsorbed(r)
               \/ ElevateUnusable(r) \/ SessionExpired(r) \/ LogoutDone(r)
        PROVE  KindInv'
    BY <1>3, <1>4 DEF SessionAnswered, ProxyAnswered, ElevateRefused, ElevateAbsorbed,
                      ElevateUnusable, SessionExpired, LogoutDone
  <1>5. ASSUME NEW r \in Requests, RefreshUnavailable(r)
        PROVE  KindInv'
    <2>1. FinishAll(Sharing(r))
      BY <1>5 DEF RefreshUnavailable
    <2>2. QED
      BY <1>1, <2>1, FinishingAll
  <1>6. ASSUME NEW r \in Requests, RefreshDone(r) \/ RefreshRejected(r)
        PROVE  KindInv'
    BY <1>1, <1>6, Shared, Hearing DEF Fields
  <1>7. ASSUME NEW r \in Requests, StartRefresh(r) \/ ReadRefresh(r) \/ ReadAccess(r)
        PROVE  KindInv'
    BY <1>1, <1>7, GoingWithRefresh, Reading DEF Fields
  <1>8. ASSUME NEW r \in Requests,
               JoinRefresh(r) \/ IssuerRejects(r) \/ RevokeRefresh(r) \/ RevokeAccess(r)
        PROVE  KindInv'
    BY <1>1, <1>8, MovingOn
  <1>9. ASSUME NEW r \in Requests, FreshEnough(r) \/ IssuerRotates(r)
        PROVE  KindInv'
    BY <1>1, <1>9, GettingToken DEF Fields
  <1>10. ASSUME NEW r \in Requests, ElevateGranted(r)
         PROVE  KindInv'
    <2>1. req'[r].kind = "elevate" /\ \A x \in Requests \ {r} : req'[x] = req[x]
      BY <1>10, GettingToken DEF Fields, ElevateGranted
    <2>2. QED
      BY <2>1 DEF KindInv
  <1>11. CASE TokenAges \/ Tick \/ Sweep \/ UNCHANGED vars
    BY <1>1, <1>11 DEF TokenAges, Tick, Sweep, vars
  <1>12. CASE Restart
    BY <1>1, <1>12, FreeType DEF Restart
  <1>13. QED
    BY Zenon, <1>2, <1>4, <1>5, <1>6, <1>7, <1>8, <1>9, <1>10, <1>11, <1>12
       DEF Next, Progress

\* The session's refresh token stays live, or its successor stays on the way.
LEMMA RenewPreserved == IInv /\ [Next]_vars => RenewInv'
  <1> SUFFICES ASSUME IInv, [Next]_vars
               PROVE  RenewInv'
    OBVIOUS
  <1>0. TypeOK /\ RenewInv /\ RefreshInv /\ KindInv
    BY DEF IInv
  <1> USE <1>0
  \* Steps that keep the refresh tokens and what is on the way ...
  <1>1. ASSUME \A x \in Requests : Revoking(x)' => Revoking(x),
               \A x \in Requests : req'[x].at = "rotated" => req'[x] = req[x],
               \A x \in Requests : req[x].at = "rotated" => req'[x] = req[x],
               sess'.refresh = sess.refresh, UNCHANGED <<liveR, ended, lost>>,
               logout' = "none" => logout = "none"
        PROVE  RenewInv'
    BY <1>1 DEF RenewInv
  \* ... that end the session or lose the answer to a rotation ...
  <1>2. ASSUME \A x \in Requests : Revoking(x)' => Revoking(x),
               \A x \in Requests : req'[x].at = "rotated" => req'[x] = req[x],
               UNCHANGED liveR, ended' \/ lost',
               logout' = "none" => logout = "none"
        PROVE  RenewInv'
    BY <1>2 DEF RenewInv
  \* ... or belong to a sign-out.
  <1>3. ASSUME logout' # "none"
        PROVE  RenewInv'
    BY <1>3 DEF RenewInv
  \* A step of one request.
  <1>4. ASSUME NEW r \in Requests, \A x \in Requests \ {r} : req'[x] = req[x],
               req[r].at # "rotated", req'[r].at # "rotated", ~Revoking(r)',
               sess'.refresh = sess.refresh, UNCHANGED <<liveR, ended, lost>>,
               logout' = "none" => logout = "none"
        PROVE  RenewInv'
    <2>1. \A x \in Requests : Revoking(x)' => Revoking(x)
      BY <1>4 DEF Revoking
    <2>2. QED
      BY <1>1, <1>4, <2>1
  <1>5. ASSUME NEW r \in Requests, NEW kind \in Kinds, Begin(r, kind)
        PROVE  RenewInv'
    <2>1. UNCHANGED <<sess, liveR, ended, lost>> /\ req[r].at = "free"
          /\ (logout' = "none" => logout = "none")
      BY <1>5 DEF Begin, issuer
    <2>2. req'[r].at \in {"got", "ensure"} /\ \A x \in Requests \ {r} : req'[x] = req[x]
      BY <1>5, Beginning
    <2>3. ~Revoking(r)'
      BY <2>2 DEF Revoking, SigningOut
    <2>4. QED
      BY <1>4, <2>1, <2>2, <2>3
  <1>6. ASSUME NEW r \in Requests, BeginLogout(r)
        PROVE  RenewInv'
    BY <1>3, <1>6 DEF BeginLogout
  <1>7. ASSUME NEW r \in Requests,
               ReadRefresh(r) \/ ReadAccess(r) \/ RevokeRefresh(r) \/ RevokeAccess(r) \/ LogoutDone(r)
        PROVE  RenewInv'
    <2>1. logout # "none"
      BY <1>7 DEF ReadRefresh, ReadAccess, RevokeRefresh, RevokeAccess, LogoutDone, RenewInv,
                  Revoking, SigningOut
    <2>2. QED
      BY <1>3, <1>7, <2>1 DEF ReadRefresh, ReadAccess, RevokeRefresh, RevokeAccess, LogoutDone
  <1>8. ASSUME NEW r \in Requests,
               \/ SessionAnswered(r) \/ ProxyAnswered(r) \/ ElevateRefused(r) \/ ElevateAbsorbed(r)
               \/ ElevateUnusable(r)
        PROVE  RenewInv'
    <2>1. Finish(r) /\ UNCHANGED <<liveR, ended, lost, logout>> /\ req[r].at # "rotated"
      BY <1>8 DEF SessionAnswered, ProxyAnswered, ElevateRefused, ElevateAbsorbed,
                  ElevateUnusable, issuer
    <2>2. sess'.refresh = sess.refresh
      BY <1>8 DEF SessionAnswered, ProxyAnswered, ElevateRefused, ElevateAbsorbed,
                  ElevateUnusable, TypeOK
    <2>3. req'[r].at = "free" /\ \A x \in Requests \ {r} : req'[x] = req[x]
      BY <2>1, Finishing
    <2>4. ~Revoking(r)'
      BY <2>3 DEF Revoking, SigningOut
    <2>5. QED
      BY <1>4, <2>1, <2>2, <2>3, <2>4
  <1>9. ASSUME NEW r \in Requests,
               StartRefresh(r) \/ JoinRefresh(r) \/ IssuerRejects(r) \/ FreshEnough(r) \/ ElevateGranted(r)
        PROVE  RenewInv'
    <2>1. UNCHANGED <<sess, liveR, ended, lost, logout>> /\ req[r].at # "rotated"
      BY <1>9 DEF StartRefresh, JoinRefresh, IssuerRejects, FreshEnough, ElevateGranted, issuer
    <2>2. req'[r].at \in {"refreshing", "joined", "rejected", "ready", "elevated"}
      BY <1>9, GoingWithRefresh, MovingOn, GettingToken DEF Fields
    <2>3. \A x \in Requests \ {r} : req'[x] = req[x]
      BY <1>9, GoingWithRefresh, MovingOn, GettingToken
    <2>4. ~Revoking(r)'
      BY <2>2 DEF Revoking, SigningOut
    <2>5. QED
      BY <1>4, <2>1, <2>2, <2>3, <2>4
  \* The issuer rotates the token of the one refresh there is.
  <1>10. ASSUME NEW r \in Requests, IssuerRotates(r)
         PROVE  RenewInv'
    <2>1. /\ req'[r].at = "rotated" /\ req'[r].access = next
          /\ \A x \in Requests \ {r} : req'[x] = req[x]
      BY <1>10, GettingToken DEF Fields
    <2>2. next \in liveR' /\ UNCHANGED <<ended, lost, logout>>
      BY <1>10 DEF IssuerRotates
    <2>3. \A x \in Requests \ {r} : req[x].at # "rotated"
      BY <1>10 DEF IssuerRotates, RefreshInv, Refreshing
    <2>4. \A x \in Requests : Revoking(x)' => Revoking(x)
      BY <2>1 DEF Revoking, SigningOut
    <2>5. QED
      BY <2>1, <2>2, <2>3, <2>4 DEF RenewInv
  \* The successor arrives.
  <1>11. ASSUME NEW r \in Requests, RefreshDone(r)
         PROVE  RenewInv'
    <2>1. /\ req[r].at = "rotated" /\ sess'.refresh = req[r].access
          /\ UNCHANGED <<liveR, ended, lost, logout>>
      BY <1>11 DEF RefreshDone, issuer
    <2>2. \A x \in Requests : req'[x] = req[x] \/ req'[x].at = "ready"
      BY <1>11, Shared DEF Fields
    <2>3. \A x \in Requests : Revoking(x)' => Revoking(x)
      BY <2>2 DEF Revoking, SigningOut
    <2>4. \A x \in Requests : req'[x].at = "rotated" => req'[x] = req[x]
      BY <2>2
    <2>5. logout = "none" => req[r].access \in liveR
      BY <2>1 DEF RenewInv
    <2>6. QED
      BY <2>1, <2>3, <2>4, <2>5 DEF RenewInv
  \* A refresh fails, and with it the requests that shared it.
  <1>12. ASSUME NEW r \in Requests, RefreshUnavailable(r)
         PROVE  RenewInv'
    <2>1. FinishAll(Sharing(r)) /\ UNCHANGED <<sess, liveR, logout>>
      BY <1>12 DEF RefreshUnavailable, issuer
    <2>2. \A x \in Requests : IF x \in Sharing(r) THEN req'[x].at = "free" ELSE req'[x] = req[x]
      BY <2>1, FinishingAll
    <2>3. /\ \A x \in Requests : Revoking(x)' => Revoking(x)
          /\ \A x \in Requests : req'[x].at = "rotated" => req'[x] = req[x]
      BY <2>2 DEF Revoking, SigningOut
    <2>4. CASE ended' \/ lost'
      BY <1>2, <2>1, <2>3, <2>4
    <2>5. CASE ~ended' /\ ~lost'
      <3>1. req[r].at = "refreshing" /\ UNCHANGED <<ended, lost>>
        BY <1>12, <2>5 DEF RefreshUnavailable, TypeOK
      <3>2. \A x \in Requests : req[x].at = "rotated" => x \notin Sharing(r)
        BY <3>1 DEF RefreshInv, Refreshing, Sharing
      <3>3. \A x \in Requests : req[x].at = "rotated" => req'[x] = req[x]
        BY <2>2, <3>2
      <3>4. QED
        BY <1>1, <2>1, <2>3, <3>1, <3>3
    <2>6. QED
      BY <2>4, <2>5
  \* A rejection is heard: no successor was on the way.
  <1>13. ASSUME NEW r \in Requests, RefreshRejected(r)
         PROVE  RenewInv'
    <2>1. req[r].at = "rejected" /\ UNCHANGED <<sess, liveR, ended, lost, logout>>
      BY <1>13 DEF RefreshRejected, issuer
    <2>2. \A x \in Requests : req'[x] = req[x] \/ req'[x].at = "fatal"
      BY <1>13, Hearing DEF Fields
    <2>3. \A x \in Requests : Revoking(x)' => Revoking(x)
      BY <2>2 DEF Revoking, SigningOut
    <2>4. \A x \in Requests : req[x].at # "rotated"
      BY <2>1 DEF RefreshInv
    <2>5. \A x \in Requests : req'[x].at = "rotated" => req'[x] = req[x]
      BY <2>2
    <2>6. QED
      BY <1>1, <2>1, <2>3, <2>4, <2>5
  <1>14. ASSUME NEW r \in Requests, SessionExpired(r)
         PROVE  RenewInv'
    <2>1. Finish(r) /\ UNCHANGED <<liveR, logout>> /\ ended'
      BY <1>14 DEF SessionExpired, Delete, issuer
    <2>2. \A x \in Requests : req'[x] = req[x] \/ req'[x].at = "free"
      BY <2>1, Finishing
    <2>3. \A x \in Requests : Revoking(x)' => Revoking(x)
      BY <2>2 DEF Revoking, SigningOut
    <2>4. \A x \in Requests : req'[x].at = "rotated" => req'[x] = req[x]
      BY <2>2
    <2>5. QED
      BY <1>2, <2>1, <2>3, <2>4
  <1>15. CASE TokenAges
    <2>1. UNCHANGED <<req, liveR, ended, lost, logout>> /\ sess'.refresh = sess.refresh
      BY <1>15 DEF TokenAges, issuer, TypeOK
    <2>2. QED
      BY <1>1, <2>1 DEF Revoking
  <1>16. CASE Tick \/ Sweep \/ UNCHANGED vars
    <2>1. UNCHANGED <<req, sess, liveR, ended, lost, logout>>
      BY <1>16 DEF Tick, Sweep, vars, issuer
    <2>2. QED
      BY <1>1, <2>1 DEF Revoking
  <1>17. CASE Restart
    <2>1. \A x \in Requests : req'[x].at = "free"
      BY <1>17, FreeType DEF Restart
    <2>2. ended' /\ UNCHANGED liveR
      BY <1>17 DEF Restart, issuer
    <2>3. QED
      BY <2>1, <2>2 DEF RenewInv, Revoking, SigningOut
  <1>18. QED
    BY Zenon, <1>5, <1>6, <1>7, <1>8, <1>9, <1>10, <1>11, <1>12, <1>13, <1>14, <1>15,
       <1>16, <1>17
       DEF Next, Progress

\* A sign-out that runs alone keeps its hold on the session's tokens.
LEMMA SignOutPreserved == IInv /\ [Next]_vars => SignOutInv'
  <1> SUFFICES ASSUME IInv, [Next]_vars
               PROVE  SignOutInv'
    OBVIOUS
  <1>0. TypeOK /\ GoneInv /\ RenewInv /\ KindInv /\ SignOutInv
    BY DEF IInv
  <1> USE <1>0
  <1> DEFINE Alone == logout \in {"running", "revoked"}
  \* A step after which no sign-out runs alone, or has run alone ...
  <1>1. ASSUME ~Alone'
        PROVE  SignOutInv'
    BY <1>1 DEF SignOutInv, LogoutRevokesTokens
  \* ... and one that only takes tokens or requests away.
  <1>2. ASSUME UNCHANGED <<logout, sess.access, sess.refresh>>,
               liveA' \subseteq liveA, liveR' \subseteq liveR, ended => ended',
               \A x \in Requests : ChangesTokens(x)' => ChangesTokens(x),
               \A x \in Requests : Revoking(x)' => req'[x] = req[x]
        PROVE  SignOutInv'
    BY <1>2 DEF SignOutInv, LogoutRevokesTokens, Revoking, SigningOut
  <1>3. ASSUME NEW r \in Requests, Finish(r),
               UNCHANGED <<logout, sess, liveA, liveR>>, ended => ended'
        PROVE  SignOutInv'
    <2>1. /\ req'[r].at = "free" /\ req'[r].kind = "session"
          /\ \A x \in Requests \ {r} : req'[x] = req[x]
      BY <1>3, Finishing
    <2>2. \A x \in Requests : ChangesTokens(x)' => ChangesTokens(x)
      BY <2>1 DEF ChangesTokens
    <2>3. \A x \in Requests : Revoking(x)' => req'[x] = req[x]
      BY <2>1 DEF Revoking, SigningOut
    <2>4. QED
      BY <1>2, <1>3, <2>2, <2>3
  \* A step that may change the tokens does not happen beside a sign-out that runs alone.
  <1>4. ASSUME NEW r \in Requests, ChangesTokens(r), UNCHANGED logout
        PROVE  SignOutInv'
    BY <1>1, <1>4 DEF SignOutInv
  <1>5. ASSUME NEW r \in Requests,
               \/ FreshEnough(r) \/ StartRefresh(r) \/ JoinRefresh(r) \/ IssuerRotates(r)
               \/ IssuerRejects(r) \/ RefreshDone(r) \/ RefreshUnavailable(r)
        PROVE  SignOutInv'
    BY <1>4, <1>5 DEF FreshEnough, StartRefresh, JoinRefresh, IssuerRotates, IssuerRejects,
                      RefreshDone, RefreshUnavailable, ChangesTokens
  <1>6. ASSUME NEW r \in Requests,
               ElevateGranted(r) \/ ElevateRefused(r) \/ ElevateAbsorbed(r) \/ ElevateUnusable(r)
        PROVE  SignOutInv'
    <2>1. req[r].kind = "elevate" /\ req[r].at # "free" /\ UNCHANGED logout
      BY <1>6 DEF ElevateGranted, ElevateRefused, ElevateAbsorbed, ElevateUnusable, KindInv
    <2>2. QED
      BY <1>4, <2>1 DEF ChangesTokens
  <1>7. ASSUME NEW r \in Requests, SessionAnswered(r) \/ ProxyAnswered(r) \/ SessionExpired(r)
        PROVE  SignOutInv'
    BY <1>3, <1>7 DEF SessionAnswered, ProxyAnswered, SessionExpired, Delete, issuer
  <1>8. ASSUME NEW r \in Requests, RefreshRejected(r)
        PROVE  SignOutInv'
    <2>1. UNCHANGED <<sess, liveA, liveR, ended, logout>> /\ req[r].at = "rejected"
      BY <1>8 DEF RefreshRejected, issuer
    <2>2. \A x \in Requests : \/ req'[x] = req[x]
                              \/ req'[x].at = "fatal" /\ req'[x].kind = req[x].kind /\ req[x].at # "free"
      BY <1>8, <2>1, Hearing DEF Fields, Sharing
    <2>3. \A x \in Requests : ChangesTokens(x)' => ChangesTokens(x)
      BY <2>2 DEF ChangesTokens
    <2>4. \A x \in Requests : Revoking(x)' => req'[x] = req[x]
      BY <2>2 DEF Revoking, SigningOut
    <2>5. QED
      BY <1>2, <2>1, <2>3, <2>4
  \* A request begins: only one that changes no tokens leaves the sign-out alone.
  <1>9. ASSUME NEW r \in Requests, NEW kind \in Kinds, Begin(r, kind)
        PROVE  SignOutInv'
    <2>1. /\ UNCHANGED <<sess, liveA, liveR, ended>> /\ ~ended
          /\ logout' = IF logout = "running" /\ kind # "session" THEN "overlapped" ELSE logout
      BY <1>9 DEF Begin, issuer, Found, GoneInv
    <2>2. logout # "revoked"
      BY <2>1 DEF SignOutInv
    <2>3. CASE kind # "session"
      BY <1>1, <2>1, <2>2, <2>3
    <2>4. CASE kind = "session"
      <3>1. /\ req'[r].at = "got" /\ req'[r].kind = "session"
            /\ \A x \in Requests \ {r} : req'[x] = req[x]
        BY <1>9, <2>4, Beginning
      <3>2. \A x \in Requests : ChangesTokens(x)' => ChangesTokens(x)
        BY <3>1 DEF ChangesTokens
      <3>3. \A x \in Requests : Revoking(x)' => req'[x] = req[x]
        BY <3>1 DEF Revoking, SigningOut
      <3>4. UNCHANGED logout
        BY <2>1, <2>4
      <3>5. QED
        BY <1>2, <2>1, <3>2, <3>3, <3>4
    <2>5. QED
      BY <2>3, <2>4
  <1>10. ASSUME NEW r \in Requests, BeginLogout(r)
         PROVE  SignOutInv'
    <2>1. UNCHANGED <<sess, liveA, liveR, ended>> /\ ~ended
      BY <1>10 DEF BeginLogout, issuer, Found, GoneInv
    <2>2. logout # "revoked"
      BY <2>1 DEF SignOutInv
    <2>3. CASE ~Alone'
      BY <1>1, <2>3
    <2>4. CASE Alone'
      <3>1. /\ \A x \in Requests : ~ChangesTokens(x)
            /\ logout' = "running" /\ logout \in {"none", "running"}
        BY <1>10, <2>2, <2>4 DEF BeginLogout
      <3>2. /\ req'[r].kind = "logout" /\ req'[r].at = "readRefresh"
            /\ \A x \in Requests \ {r} : req'[x] = req[x]
        BY <1>10, BeginningLogout
      <3>3. \A x \in Requests : ~ChangesTokens(x)'
        BY <3>1, <3>2 DEF ChangesTokens
      <3>4. logout = "none" => \A x \in Requests : ~Revoking(x)
        BY DEF RenewInv
      <3>5. ASSUME NEW x \in Requests
            PROVE  /\ req'[x].at \in SigningOut \ {"readRefresh"} => req'[x].refresh = sess.refresh
                   /\ req'[x].at \in SigningOut \ {"readRefresh", "readAccess"} =>
                          req'[x].access = sess.access
                   /\ req'[x].at \in {"revokeAccess", "delete"} => sess.refresh \notin liveR
                   /\ req'[x].at = "delete" => sess.access \notin liveA
        <4>1. CASE x = r
          BY <3>2, <4>1
        <4>2. CASE x # r
          BY <3>1, <3>2, <3>4, <4>2 DEF SignOutInv, Revoking, SigningOut
        <4>3. QED
          BY <4>1, <4>2
      <3>6. QED
        BY <2>1, <3>1, <3>3, <3>5 DEF SignOutInv, LogoutRevokesTokens
    <2>5. QED
      BY <2>3, <2>4
  \* The sign-out itself: it reads the session's tokens ...
  <1>11. ASSUME NEW r \in Requests, ReadRefresh(r) \/ ReadAccess(r)
         PROVE  SignOutInv'
    <2>1. /\ UNCHANGED <<sess, liveA, liveR, ended, logout>>
          /\ req[r].at \in {"readRefresh", "readAccess"}
      BY <1>11 DEF ReadRefresh, ReadAccess, issuer
    <2>2. /\ req'[r].kind = req[r].kind /\ \A x \in Requests \ {r} : req'[x] = req[x]
          /\ req'[r].at \in {"readAccess", "revokeRefresh"}
      BY <1>11, Reading DEF Fields
    <2>3. \A x \in Requests : ChangesTokens(x)' => ChangesTokens(x)
      BY <2>1, <2>2 DEF ChangesTokens
    <2>4. logout = "running" => req'[r].refresh = sess.refresh
      BY <1>11, Reading DEF ReadAccess, SignOutInv, SigningOut, Fields
    <2>5. req'[r].at = "revokeRefresh" => req'[r].access = sess.access
      BY <1>11, Reading DEF Fields
    <2>6. QED
      BY <2>1, <2>2, <2>3, <2>4, <2>5 DEF SignOutInv, LogoutRevokesTokens, SigningOut
  \* ... and the token it has passed is dead.
  <1>12. ASSUME NEW r \in Requests, RevokeRefresh(r)
         PROVE  SignOutInv'
    <2>1. CASE ~Alone'
      BY <1>1, <2>1
    <2>2. CASE Alone'
      <3>1. /\ UNCHANGED <<sess, liveA, ended, logout>> /\ liveR' = liveR \ {req[r].refresh}
            /\ req[r].at = "revokeRefresh"
        BY <1>12, <2>2 DEF RevokeRefresh
      <3>2. /\ req'[r].at = "revokeAccess" /\ req'[r].kind = req[r].kind
            /\ req'[r].access = req[r].access /\ req'[r].refresh = req[r].refresh
            /\ \A x \in Requests \ {r} : req'[x] = req[x]
        BY <1>12, MovingOn
      <3>3. \A x \in Requests : ChangesTokens(x)' => ChangesTokens(x)
        BY <3>1, <3>2 DEF ChangesTokens
      <3>4. logout = "running" => req[r].access = sess.access /\ req[r].refresh = sess.refresh
        BY <3>1 DEF SignOutInv, SigningOut
      <3>5. QED
        BY <3>1, <3>2, <3>3, <3>4 DEF SignOutInv, LogoutRevokesTokens, Revoking, SigningOut
    <2>3. QED
      BY <2>1, <2>2
  <1>13. ASSUME NEW r \in Requests, RevokeAccess(r)
         PROVE  SignOutInv'
    <2>1. CASE ~Alone'
      BY <1>1, <2>1
    <2>2. CASE Alone'
      <3>1. /\ UNCHANGED <<sess, liveR, ended, logout>> /\ liveA' = liveA \ {req[r].access}
            /\ req[r].at = "revokeAccess"
        BY <1>13, <2>2 DEF RevokeAccess
      <3>2. /\ req'[r].at = "delete" /\ req'[r].kind = req[r].kind
            /\ req'[r].access = req[r].access /\ req'[r].refresh = req[r].refresh
            /\ \A x \in Requests \ {r} : req'[x] = req[x]
        BY <1>13, MovingOn
      <3>3. \A x \in Requests : ChangesTokens(x)' => ChangesTokens(x)
        BY <3>1, <3>2 DEF ChangesTokens
      <3>4. logout = "running" => req[r].access = sess.access /\ sess.refresh \notin liveR
        BY <3>1 DEF SignOutInv, SigningOut
      <3>5. QED
        BY <3>1, <3>2, <3>3, <3>4 DEF SignOutInv, LogoutRevokesTokens, Revoking, SigningOut
    <2>3. QED
      BY <2>1, <2>2
  <1>14. ASSUME NEW r \in Requests, LogoutDone(r)
         PROVE  SignOutInv'
    <2>1. /\ UNCHANGED <<sess, liveA, liveR>> /\ ended' /\ Finish(r) /\ req[r].at = "delete"
          /\ logout' = IF logout = "running" THEN "revoked" ELSE logout
      BY <1>14 DEF LogoutDone, Delete, issuer
    <2>2. CASE logout # "running"
      BY <1>3, <2>1, <2>2
    <2>3. CASE logout = "running"
      <3>1. sess.access \notin liveA /\ sess.refresh \notin liveR
        BY <2>1, <2>3 DEF SignOutInv
      <3>2. \A x \in Requests : ~ChangesTokens(x)'
        <4>1. \A x \in Requests : req'[x] = req[x] \/ (req'[x].at = "free" /\ req'[x].kind = "session")
          BY <2>1, Finishing
        <4>2. QED
          BY <2>3, <4>1 DEF SignOutInv, ChangesTokens
      <3>3. QED
        BY <2>1, <2>3, <3>1, <3>2 DEF SignOutInv, LogoutRevokesTokens
    <2>4. QED
      BY <2>2, <2>3
  <1>15. CASE TokenAges
    <2>1. UNCHANGED <<req, liveA, liveR, ended, logout, sess.access, sess.refresh>>
      BY <1>15 DEF TokenAges, issuer, TypeOK
    <2>2. QED
      BY <1>2, <2>1 DEF ChangesTokens
  <1>16. CASE Tick \/ Sweep \/ UNCHANGED vars
    <2>1. UNCHANGED <<req, liveA, liveR, ended, logout, sess>>
      BY <1>16 DEF Tick, Sweep, vars, issuer
    <2>2. QED
      BY <1>2, <2>1 DEF ChangesTokens
  <1>17. CASE Restart
    <2>1. \A x \in Requests : req'[x].at = "free" /\ req'[x].kind = "session"
      BY <1>17, FreeType DEF Restart
    <2>2. /\ ended' /\ UNCHANGED <<sess, liveA, liveR>>
          /\ logout' = IF logout \in {"running", "overlapped"} THEN "failed" ELSE logout
      BY <1>17 DEF Restart, issuer
    <2>3. CASE Alone'
      <3>1. UNCHANGED logout
        BY <2>2, <2>3
      <3>2. /\ \A x \in Requests : ~ChangesTokens(x)'
            /\ \A x \in Requests : ~Revoking(x)'
        BY <2>1 DEF ChangesTokens, Revoking, SigningOut
      <3>3. QED
        BY <1>2, <2>2, <3>1, <3>2
    <2>4. QED
      BY <1>1, <2>3
  <1>18. QED
    BY Zenon, <1>5, <1>6, <1>7, <1>8, <1>9, <1>10, <1>11, <1>12, <1>13, <1>14, <1>15,
       <1>16, <1>17
       DEF Next, Progress

-----------------------------------------------------------------------------
\* Steps that neither touch the refresh tokens, nor what is on the way, nor end the session.
Quiet ==
    /\ \A r \in Requests : req[r].at = "rotated" \/ req'[r].at = "rotated" => req'[r] = req[r]
    /\ sess'.refresh = sess.refresh /\ UNCHANGED <<liveR, ended, tombstone, lost>>
    /\ next' \in {next, next + 1}
    /\ logout # "none" => logout' # "none"

\* A step of one request that gets or keeps another stage than "rotated".
LEMMA QuietRequest ==
  ASSUME NEW r \in Requests, \A x \in Requests \ {r} : req'[x] = req[x],
         req[r].at # "rotated", req'[r].at # "rotated",
         sess'.refresh = sess.refresh, UNCHANGED <<liveR, ended, tombstone, lost>>,
         next' \in {next, next + 1}, logout # "none" => logout' # "none"
  PROVE  Quiet
  BY DEF Quiet

\* The steps that matter to the grant are few.
LEMMA GrantSteps ==
  TypeOK /\ RefreshInv /\ [Next]_vars =>
    \/ Quiet \/ Restart
    \/ \E r \in Requests : \/ IssuerRotates(r) \/ RefreshDone(r) \/ SessionExpired(r)
                           \/ RefreshUnavailable(r) \/ RevokeRefresh(r) \/ LogoutDone(r)
  <1> SUFFICES ASSUME TypeOK, RefreshInv, [Next]_vars, ~Restart,
                      ~\E r \in Requests : \/ IssuerRotates(r) \/ RefreshDone(r) \/ SessionExpired(r)
                                          \/ RefreshUnavailable(r) \/ RevokeRefresh(r) \/ LogoutDone(r)
               PROVE  Quiet
    OBVIOUS
  <1>1. ASSUME NEW r \in Requests, NEW kind \in Kinds, Begin(r, kind)
        PROVE  Quiet
    <2>1. /\ UNCHANGED <<sess, liveR, next, ended, tombstone, lost>> /\ req[r].at = "free"
          /\ logout # "none" => logout' # "none"
      BY <1>1 DEF Begin, issuer, store
    <2>2. req'[r].at \in {"got", "ensure"} /\ \A x \in Requests \ {r} : req'[x] = req[x]
      BY <1>1, Beginning
    <2>3. QED
      BY <2>1, <2>2, QuietRequest
  <1>2. ASSUME NEW r \in Requests, BeginLogout(r)
        PROVE  Quiet
    <2>1. /\ UNCHANGED <<sess, liveR, next, ended, tombstone, lost>> /\ req[r].at = "free"
          /\ logout # "none" => logout' # "none"
      BY <1>2 DEF BeginLogout, issuer, store
    <2>2. req'[r].at = "readRefresh" /\ \A x \in Requests \ {r} : req'[x] = req[x]
      BY <1>2, BeginningLogout
    <2>3. QED
      BY <2>1, <2>2, QuietRequest
  <1>3. ASSUME NEW r \in Requests,
               \/ SessionAnswered(r) \/ ProxyAnswered(r) \/ ElevateRefused(r) \/ ElevateAbsorbed(r)
               \/ ElevateUnusable(r)
        PROVE  Quiet
    <2>1. /\ Finish(r) /\ UNCHANGED <<liveR, next, ended, tombstone, lost, logout>>
          /\ req[r].at # "rotated"
      BY <1>3 DEF SessionAnswered, ProxyAnswered, ElevateRefused, ElevateAbsorbed,
                  ElevateUnusable, PutBack, issuer, store
    <2>2. sess'.refresh = sess.refresh
      BY <1>3 DEF SessionAnswered, ProxyAnswered, ElevateRefused, ElevateAbsorbed,
                  ElevateUnusable, TypeOK
    <2>3. req'[r].at = "free" /\ \A x \in Requests \ {r} : req'[x] = req[x]
      BY <2>1, Finishing
    <2>4. QED
      BY <2>1, <2>2, <2>3, QuietRequest
  <1>4. ASSUME NEW r \in Requests,
               \/ StartRefresh(r) \/ JoinRefresh(r) \/ IssuerRejects(r) \/ FreshEnough(r)
               \/ ElevateGranted(r) \/ ReadRefresh(r) \/ ReadAccess(r) \/ RevokeAccess(r)
        PROVE  Quiet
    <2>1. /\ UNCHANGED <<sess, liveR, ended, tombstone, lost>> /\ req[r].at # "rotated"
          /\ next' \in {next, next + 1} /\ (logout # "none" => logout' # "none")
      BY <1>4 DEF StartRefresh, JoinRefresh, IssuerRejects, FreshEnough, ElevateGranted,
                  ReadRefresh, ReadAccess, RevokeAccess, issuer, store
    <2>2. req'[r].at # "rotated" /\ \A x \in Requests \ {r} : req'[x] = req[x]
      BY <1>4, GoingWithRefresh, GettingToken, Reading, MovingOn DEF Fields
    <2>3. QED
      BY <2>1, <2>2, QuietRequest
  <1>5. ASSUME NEW r \in Requests, RefreshRejected(r)
        PROVE  Quiet
    <2>1. /\ UNCHANGED <<sess, liveR, next, ended, tombstone, lost, logout>>
          /\ \A x \in Requests : req[x].at # "rotated"
      BY <1>5 DEF RefreshRejected, RefreshInv, issuer, store
    <2>2. \A x \in Requests : req'[x] = req[x] \/ req'[x].at = "fatal"
      BY <1>5, Hearing DEF Fields
    <2>3. QED
      BY <2>1, <2>2 DEF Quiet
  <1>6. CASE TokenAges
    BY <1>6 DEF TokenAges, Quiet, issuer, store, TypeOK
  <1>7. CASE Tick \/ Sweep \/ UNCHANGED vars
    BY <1>7 DEF Tick, Sweep, Quiet, vars, issuer, store
  <1>8. QED
    BY Zenon, <1>1, <1>2, <1>3, <1>4, <1>5, <1>6, <1>7
       DEF Next, Progress

\* A token that is issued is newer than those before it, and replaces one that is dead.
LEMMA GrantPreserved == IInv /\ [Next]_vars => GrantInv'
  <1> SUFFICES ASSUME IInv, [Next]_vars
               PROVE  GrantInv'
    OBVIOUS
  <1>0. TypeOK /\ GrantInv /\ RefreshInv
    BY DEF IInv
  <1>t. /\ next \in Nat /\ sess.refresh \in Nat /\ liveR \subseteq Nat
        /\ \A r \in Requests : req[r].access \in Nat /\ req[r].at \in Stages
    BY <1>0, BoundsAssumption DEF TypeOK, Tokens
  <1>1. ASSUME \A x \in Requests : req'[x].at = "rotated" => req'[x] = req[x],
               sess'.refresh = sess.refresh, liveR' \subseteq liveR, next' \in {next, next + 1}
        PROVE  GrantInv'
    BY <1>0, <1>t, <1>1 DEF GrantInv
  <1>2. CASE Quiet
    BY <1>1, <1>2 DEF Quiet
  <1>3. CASE Restart
    BY <1>1, <1>3, FreeType DEF Restart, issuer
  <1>4. ASSUME NEW r \in Requests, RefreshUnavailable(r)
        PROVE  GrantInv'
    <2>1. FinishAll(Sharing(r)) /\ UNCHANGED <<sess, liveR, next>>
      BY <1>4 DEF RefreshUnavailable, issuer
    <2>2. \A x \in Requests : req'[x].at = "rotated" => req'[x] = req[x]
      BY <1>0, <2>1, FinishingAll
    <2>3. QED
      BY <1>1, <2>1, <2>2
  <1>5. ASSUME NEW r \in Requests, RevokeRefresh(r)
        PROVE  GrantInv'
    <2>1. UNCHANGED <<sess, next>> /\ liveR' \subseteq liveR
      BY <1>5 DEF RevokeRefresh
    <2>2. \A x \in Requests : req'[x].at = "rotated" => req'[x] = req[x]
      BY <1>0, <1>5, MovingOn
    <2>3. QED
      BY <1>1, <2>1, <2>2
  <1>6. ASSUME NEW r \in Requests, SessionExpired(r) \/ LogoutDone(r)
        PROVE  GrantInv'
    <2>1. Finish(r) /\ UNCHANGED <<sess, liveR, next>>
      BY <1>6 DEF SessionExpired, LogoutDone, issuer
    <2>2. \A x \in Requests : req'[x].at = "rotated" => req'[x] = req[x]
      BY <1>0, <2>1, Finishing
    <2>3. QED
      BY <1>1, <2>1, <2>2
  <1>7. ASSUME NEW r \in Requests, IssuerRotates(r)
        PROVE  GrantInv'
    <2>1. /\ req'[r].access = next /\ \A x \in Requests \ {r} : req'[x] = req[x]
      BY <1>0, <1>7, GettingToken DEF Fields
    <2>2. \A x \in Requests \ {r} : req[x].at # "rotated"
      BY <1>0, <1>7 DEF IssuerRotates, RefreshInv, Refreshing
    <2>3. /\ sess' = sess /\ next' = next + 1 /\ liveR' = (liveR \ {sess.refresh}) \cup {next}
      BY <1>0, <1>7 DEF IssuerRotates, RefreshInv
    <2>4. QED
      BY <1>0, <1>t, <2>1, <2>2, <2>3 DEF GrantInv
  <1>8. ASSUME NEW r \in Requests, RefreshDone(r)
        PROVE  GrantInv'
    <2>1. \A x \in Requests : req'[x].at # "rotated"
      <3>1. \A x \in Requests : req[x].at = "rotated" => x \in Sharing(r)
        BY <1>0, <1>8 DEF RefreshDone, RefreshInv, Refreshing, Sharing
      <3>2. QED
        BY <1>0, <1>8, <3>1, Shared DEF Fields
    <2>2. sess'.refresh = req[r].access /\ req[r].at = "rotated" /\ UNCHANGED <<liveR, next>>
      BY <1>8 DEF RefreshDone, issuer
    <2>3. QED
      BY <1>0, <2>1, <2>2 DEF GrantInv
  <1>9. QED
    BY <1>0, <1>2, <1>3, <1>4, <1>5, <1>6, <1>7, <1>8, GrantSteps

-----------------------------------------------------------------------------
\* The inductive invariant: what a handler may still do to the session, its tokens
\* and the store, at every point where another request can come in between.
THEOREM Inductive == Spec => []IInv
  <1>1. Init => IInv
    <2> SUFFICES ASSUME Init
                 PROVE  IInv
      OBVIOUS
    <2>1. \A r \in Requests : req[r] = Free
      BY DEF Init
    <2>2. \A r \in Requests : req[r].at = "free" /\ req[r].kind = "session"
      BY <2>1, FreeType
    <2>3. TypeOK
      <3>1. req \in [Requests -> Call]
        BY FreeType DEF Init
      <3>2. 1 \in Tokens /\ 2 \in 1 .. MaxToken + 1
        BY BoundsAssumption DEF Tokens
      <3>3. QED
        <4>1. 0 \in 0 .. IdleMax /\ 0 \in 0 .. AbsMax
          BY BoundsAssumption
        <4>2. sess \in [access : Tokens, refresh : Tokens, fresh : BOOLEAN]
          BY <3>2 DEF Init
        <4>3. liveA \subseteq Tokens /\ liveR \subseteq Tokens
          BY <3>2 DEF Init
        <4>4. QED
          BY <3>1, <3>2, <4>1, <4>2, <4>3 DEF Init, TypeOK, Call, LogoutStates
    <2>4. GoneInv /\ RefreshInv /\ RenewInv /\ KindInv
      BY <2>2 DEF Init, GoneInv, RefreshInv, Refreshing, RenewInv, Revoking, SigningOut, KindInv
    <2>5. SignOutInv
      BY DEF Init, SignOutInv, LogoutRevokesTokens
    <2>6. GrantInv
      BY <2>2 DEF Init, GrantInv
    <2>7. QED
      BY <2>3, <2>4, <2>5, <2>6 DEF IInv
  <1>2. IInv /\ [Next]_vars => IInv'
    BY TypePreserved, GonePreserved, RefreshPreserved, RenewPreserved, KindPreserved,
       SignOutPreserved, GrantPreserved DEF IInv
  <1>3. QED
    BY <1>1, <1>2, PTL DEF Spec

\* Every variable keeps to the values the handlers, the store and the issuer use.
THEOREM TypeCorrect == Spec => []TypeOK
  <1>1. IInv => TypeOK
    BY DEF IInv
  <1>2. QED
    BY <1>1, Inductive, PTL

\* A request in flight never brings back a session that was signed out, rejected by
\* the issuer or lost in a restart, however many requests write it back, and when.
THEOREM NeverResurrected == Spec => []NoResurrection
  <1>1. IInv => NoResurrection
    BY DEF IInv, GoneInv, NoResurrection
  <1>2. QED
    BY <1>1, Inductive, PTL

\* Only the rejection of the session's own, dead, refresh token tears the session down.
THEOREM RejectionsCurrent == Spec => []RejectionIsCurrent
  <1>1. IInv => RejectionIsCurrent
    BY DEF IInv, RefreshInv, RejectionIsCurrent
  <1>2. QED
    BY <1>1, Inductive, PTL

\* Until a sign-out or a lost answer, a stored session can renew its tokens.
THEOREM StaysRenewable == Spec => []SessionRenewable
  <1>1. IInv => SessionRenewable
    BY DEF IInv, GoneInv, RenewInv, SessionRenewable
  <1>2. QED
    BY <1>1, Inductive, PTL

\* A sign-out that runs alone and whose revocations succeed leaves no usable token.
THEOREM SignOutRevokes == Spec => []LogoutRevokesTokens
  <1>1. IInv => LogoutRevokesTokens
    BY DEF IInv, SignOutInv
  <1>2. QED
    BY <1>1, Inductive, PTL

\* The session, with its requests, the store and everything on its way, implements the
\* promise of its grant: initial states map to initial states, and every step to a step or
\* a stutter.
THEOREM SessionGrantImplemented == Spec => ImplementsSessionGrant
  <1>1. Init => Promise!Init
    <2> SUFFICES ASSUME Init
                 PROVE  Promise!Init
      OBVIOUS
    <2>1. \A r \in Requests : req[r].at = "free"
      BY FreeType DEF Init
    <2>2. QED
      BY <2>1 DEF Init, Promise!Init
  <1>2. IInv /\ [Next]_vars => [Promise!Next]_(Promise!vars)
    <2> SUFFICES ASSUME IInv, [Next]_vars
                 PROVE  Promise!Next \/ UNCHANGED Promise!vars
      OBVIOUS
    <2> DEFINE held(token) == \/ token = sess.refresh
                              \/ \E r \in Requests : req[r].at = "rotated" /\ req[r].access = token
               grant == {token \in liveR : ~ended /\ held(token)}
               phase == IF ~ended THEN "open" ELSE IF tombstone THEN "closed" ELSE "forgotten"
               excused == lost \/ logout # "none"
    <2>0. TypeOK /\ GoneInv /\ RefreshInv /\ RenewInv /\ GrantInv
      BY DEF IInv
    <2>m. /\ Promise!Next \/ UNCHANGED Promise!vars <=>
               \/ /\ grant # {}
                  /\ \E token \in Tokens : (\A old \in grant : old < token) /\ grant' = {token}
                  /\ UNCHANGED <<phase, excused>>
               \/ excused' = TRUE /\ UNCHANGED <<grant, phase>>
               \/ grant' = {} /\ excused' = TRUE /\ UNCHANGED phase
               \/ /\ phase = "open" /\ (grant = {} \/ excused)
                  /\ grant' = {} /\ phase' = "closed" /\ UNCHANGED excused
               \/ grant' = {} /\ phase' = "forgotten" /\ UNCHANGED excused
               \/ UNCHANGED <<grant, phase, excused>>
      BY DEF Promise!Next, Promise!Renew, Promise!Excuse, Promise!Lose, Promise!Close,
             Promise!Forget, Promise!vars
    <2>1. CASE Quiet
      <3>1. UNCHANGED <<grant, phase>>
        BY <2>1 DEF Quiet
      <3>2. excused => excused'
        BY <2>1 DEF Quiet
      <3>3. QED
        BY <2>m, <3>1, <3>2
    <2>2. CASE Restart
      BY <2>m, <2>2 DEF Restart
    \* The grant is one token at most.
    <2>s. \A x, y \in grant : x = y
      BY <2>0 DEF GrantInv, RefreshInv, Refreshing
    <2>3. ASSUME NEW r \in Requests, RefreshUnavailable(r)
          PROVE  Promise!Next \/ UNCHANGED Promise!vars
      <3>1. /\ UNCHANGED <<sess, liveR, ended, tombstone, logout>> /\ FinishAll(Sharing(r))
            /\ lost' = (lost \/ req[r].at = "rotated")
        BY <2>3 DEF RefreshUnavailable, issuer, store
      <3>2. \A x \in Requests : req'[x].at # "rotated"
        <4>1. \A x \in Requests \ {r} : req[x].at # "rotated"
          BY <2>0, <2>3 DEF RefreshUnavailable, RefreshInv, Refreshing
        <4>2. r \in Sharing(r)
          BY DEF Sharing
        <4>3. QED
          BY <2>0, <3>1, <4>1, <4>2, FinishingAll
      <3>3. CASE req[r].at = "rotated"
        <4>1. grant' = {} /\ excused' = TRUE /\ UNCHANGED phase
          BY <2>0, <3>1, <3>2, <3>3 DEF GrantInv
        <4>2. QED
          BY <2>m, <4>1
      <3>4. CASE req[r].at # "rotated"
        <4>1. \A x \in Requests : req[x].at # "rotated"
          BY <2>0, <2>3, <3>4 DEF RefreshUnavailable, RefreshInv, Refreshing
        <4>2. UNCHANGED <<grant, phase, excused>>
          BY <3>1, <3>2, <3>4, <4>1
        <4>3. QED
          BY <2>m, <4>2
      <3>5. QED
        BY <3>3, <3>4
    <2>4. ASSUME NEW r \in Requests, RevokeRefresh(r)
          PROVE  Promise!Next \/ UNCHANGED Promise!vars
      <3>1. /\ UNCHANGED <<sess, ended, tombstone, lost>> /\ liveR' \subseteq liveR
            /\ logout # "none" /\ logout' # "none"
        BY <2>0, <2>4 DEF RevokeRefresh, RenewInv, Revoking, SigningOut, store
      <3>2. \A x \in Requests : req'[x].at = "rotated" => req'[x] = req[x]
        BY <2>0, <2>4, MovingOn
      <3>3. grant' \subseteq grant /\ UNCHANGED <<phase, excused>> /\ excused' = TRUE
        BY <3>1, <3>2
      <3>4. grant' = {} \/ grant' = grant
        <4> HIDE DEF grant
        <4> QED BY <2>s, <3>3
      <3>5. QED
        BY <2>m, <3>3, <3>4
    <2>5. ASSUME NEW r \in Requests, SessionExpired(r) \/ LogoutDone(r)
          PROVE  Promise!Next \/ UNCHANGED Promise!vars
      <3>1. /\ ended' = TRUE /\ tombstone' = TRUE /\ UNCHANGED lost /\ req[r].at # "free"
            /\ logout' = "none" <=> logout = "none"
        BY <2>0, <2>5 DEF SessionExpired, LogoutDone, Delete, RenewInv, Revoking, SigningOut
      <3>2. grant' = {} /\ phase' = "closed" /\ UNCHANGED excused
        BY <3>1
      <3>3. CASE ended
        <4>1. grant = {} /\ phase = "closed"
          BY <2>0, <3>1, <3>3 DEF GoneInv
        <4>2. QED
          BY <2>m, <3>2, <4>1
      <3>4. CASE ~ended
        <4>1. grant = {} \/ excused
          <5>1. CASE SessionExpired(r)
            <6>1. sess.refresh \notin liveR /\ \A x \in Requests : req[x].at # "rotated"
              BY <2>0, <5>1 DEF SessionExpired, RefreshInv
            <6>2. QED
              BY <6>1
          <5>2. CASE LogoutDone(r)
            BY <2>0, <5>2 DEF LogoutDone, RenewInv, Revoking, SigningOut
          <5>3. QED
            BY <2>5, <5>1, <5>2
        <4>2. QED
          BY <2>m, <3>2, <3>4, <4>1
      <3>5. QED
        BY <3>3, <3>4
    <2>6. ASSUME NEW r \in Requests, IssuerRotates(r)
          PROVE  Promise!Next \/ UNCHANGED Promise!vars
      <3>1. /\ UNCHANGED <<sess, ended, tombstone, lost, logout>>
            /\ sess.refresh \in liveR /\ liveR' = (liveR \ {sess.refresh}) \cup {next}
            /\ next \in Tokens
        BY <2>0, <2>6, BoundsAssumption DEF IssuerRotates, RefreshInv, TypeOK, Tokens, store
      <3>2. /\ \A x \in Requests : req[x].at # "rotated"
            /\ \A x \in Requests \ {r} : req'[x] = req[x]
            /\ req'[r].at = "rotated" /\ req'[r].access = next
        BY <2>0, <2>6, GettingToken DEF IssuerRotates, RefreshInv, Refreshing, Fields
      <3>3. UNCHANGED <<phase, excused>>
        BY <3>1
      <3>4. CASE ended
        <4>1. UNCHANGED grant
          BY <3>1, <3>4
        <4>2. QED
          BY <2>m, <3>3, <4>1
      <3>5. CASE ~ended
        <4>1. grant = {sess.refresh} /\ grant' = {next}
          BY <3>1, <3>2, <3>5
        <4>2. sess.refresh < next
          BY <2>0 DEF GrantInv
        <4>3. QED
          BY <2>m, <3>1, <3>3, <4>1, <4>2
      <3>6. QED
        BY <3>4, <3>5
    <2>7. ASSUME NEW r \in Requests, RefreshDone(r)
          PROVE  Promise!Next \/ UNCHANGED Promise!vars
      <3>1. /\ UNCHANGED <<liveR, ended, tombstone, lost, logout>>
            /\ sess'.refresh = req[r].access /\ req[r].at = "rotated"
        BY <2>7 DEF RefreshDone, PutBack, issuer
      <3>2. \A x \in Requests \ {r} : req[x].at # "rotated"
        BY <2>0, <3>1 DEF RefreshInv, Refreshing
      <3>3. \A x \in Requests : req'[x].at # "rotated"
        <4>1. r \in Sharing(r)
          BY DEF Sharing
        <4>2. QED
          BY <2>0, <2>7, <3>2, <4>1, Shared DEF Fields
      <3>4. sess.refresh \notin liveR
        BY <2>0, <3>1 DEF GrantInv
      <3>5. UNCHANGED <<grant, phase, excused>>
        BY <3>1, <3>2, <3>3, <3>4
      <3>6. QED
        BY <2>m, <3>5
    <2>8. QED
      BY <2>0, <2>1, <2>2, <2>3, <2>4, <2>5, <2>6, <2>7, GrantSteps
  <1>3. QED
    BY <1>1, <1>2, Inductive, PTL DEF Spec, ImplementsSessionGrant, Promise!Spec
=============================================================================
