--------------------------- MODULE BffLoginProofs ---------------------------
(***************************************************************************)
(* Proofs about signing in through the BFF, for any number of browsers and *)
(* logins, any capacity of the store and any lifetime.                     *)
(*                                                                         *)
(* A session cookie comes at the end of a chain: login response, binding   *)
(* cookie, exchange, callback response, cookie.  OwnInv says of every link *)
(* that it belongs to the browser which began the login; OnceInv says that *)
(* a login still in the store has sent no code; SizeInv bounds the store.  *)
(* FlightInv follows a login nothing has happened to from the redirect on  *)
(* its way to the callback: the store keeps it, and once the browser has   *)
(* followed the redirect, its cookie is no older than the login.           *)
(***************************************************************************)
EXTENDS BffLogin, FiniteSetTheorems, TLAPS

OwnInv ==
    /\ \A b \in Browsers : binding[b] # None => owner[binding[b]] = b
    /\ \A b \in Browsers : cookie[b] # None => owner[cookie[b]] = b
    /\ \A r \in responses : r.binding = "set" \/ r.session = "set" => owner[r.login] = r.to
    /\ \A b \in Browsers, a \in Logins : <<b, a>> \in exchanging => owner[a] = b

OnceInv ==
    \A a \in Logins :
        /\ exchanges[a] <= 1
        /\ owner[a] = None \/ a \in DOMAIN pending => exchanges[a] = 0
        /\ a \in DOMAIN pending => owner[a] # None

SizeInv == IsFiniteSet(DOMAIN pending) /\ Cardinality(DOMAIN pending) <= MaxPending

FlightInv ==
    /\ \A r \in responses :
          /\ r.redirect => r.binding = "set"
          /\ r.binding = "clear" => disturbed[r.login] # {}
    /\ \A b \in Browsers, a \in Logins : <<b, a>> \in exchanging => disturbed[a] # {}
    /\ \A a \in Logins : issuer[a] # "none" => owner[a] # None
    /\ \A r \in responses : r.redirect /\ disturbed[r.login] = {} => Takable(r.login)
    /\ \A a \in Logins : disturbed[a] = {} /\ issuer[a] # "none" =>
          Accepted(a) /\ bindingAge[owner[a]] <= pending[a]

IInv == TypeOK /\ OwnInv /\ OnceInv /\ SizeInv /\ FlightInv

-----------------------------------------------------------------------------
(* What the operators of the model do *)

\* Take, the sweep and a restart keep a part of the store.
LEMMA Dropping ==
  ASSUME TypeOK, NEW S \in SUBSET DOMAIN pending, pending' = Restrict(pending, S)
  PROVE  DOMAIN pending' = S /\ pending' \in [S -> 0 .. TTL]
  BY DEF Restrict, TypeOK

LEMMA Taking ==
  ASSUME TypeOK, NEW a \in Logins, Take(a)
  PROVE  DOMAIN pending' = DOMAIN pending \ {a} /\ pending' \in [DOMAIN pending \ {a} -> 0 .. TTL]
  BY Dropping DEF Take

\* A login is put into the store beside the others.
LEMMA Putting ==
  ASSUME TypeOK, NEW a \in Logins, PutPending(a)
  PROVE  /\ DOMAIN pending' = DOMAIN pending \cup {a}
         /\ pending' \in [DOMAIN pending \cup {a} -> 0 .. TTL]
  BY BoundsAssumption DEF PutPending, TypeOK

\* A mark leaves the history of the logins well typed.
LEMMA Marking ==
  ASSUME TypeOK, NEW S, NEW cause \in Causes, Mark(S, cause)
  PROVE  disturbed' \in [Logins -> SUBSET Causes]
  BY DEF Mark, TypeOK

\* What joins the responses on their way is a response.
LEMMA Responding ==
  ASSUME TypeOK, NEW b \in Browsers, NEW a \in Logins, NEW onBinding \in {"set", "clear"},
         NEW onSession \in {"set", "keep"}, NEW redirect \in BOOLEAN,
         Respond(b, a, onBinding, onSession, redirect)
  PROVE  responses' \subseteq Response
  BY DEF Respond, Response, TypeOK

-----------------------------------------------------------------------------
\* Type correctness is preserved by every step.
LEMMA TypePreserved == TypeOK /\ [Next]_vars => TypeOK'
  <1> SUFFICES ASSUME TypeOK, [Next]_vars
               PROVE  TypeOK'
    OBVIOUS
  <1>1. ASSUME NEW b \in Browsers, NEW a \in Logins, LoginStarted(b, a)
        PROVE  TypeOK'
    <2>1. responses' \subseteq Response
      BY <1>1, Responding DEF LoginStarted
    <2>2. pending' \in [DOMAIN pending' -> 0 .. TTL] /\ DOMAIN pending' \subseteq Logins
      BY <1>1, Putting DEF LoginStarted, TypeOK
    <2>3. owner' \in [Logins -> Browsers \cup {None}]
      BY <1>1 DEF LoginStarted, TypeOK
    <2>4. QED
      BY <1>1, <2>1, <2>2, <2>3 DEF LoginStarted, TypeOK
  <1>2. ASSUME NEW b \in Browsers, NEW a \in Logins, LoginRefused(b, a)
        PROVE  TypeOK'
    <2>1. responses' \subseteq Response
      BY <1>2, Responding DEF LoginRefused
    <2>2. owner' \in [Logins -> Browsers \cup {None}]
      BY <1>2 DEF LoginRefused, TypeOK
    <2>3. QED
      BY <1>2, <2>1, <2>2 DEF LoginRefused, TypeOK, bff
  <1>3. ASSUME NEW r \in responses, Receive(r)
        PROVE  TypeOK'
    <2>1. r.to \in Browsers /\ r.login \in Logins
      BY DEF TypeOK, Response
    <2>2. disturbed' \in [Logins -> SUBSET Causes]
      BY <1>3, Marking DEF Receive, Causes
    <2>3. /\ binding' \in [Browsers -> Logins \cup {None}]
          /\ bindingAge' \in [Browsers -> 0 .. TTL]
          /\ cookie' \in [Browsers -> Logins \cup {None}]
      BY <1>3, <2>1, BoundsAssumption DEF Receive, TypeOK
    <2>4. issuer' \in [Logins -> Stages]
      BY <1>3, <2>1 DEF Receive, TypeOK, Stages
    <2>5. responses' \subseteq Response
      BY <1>3 DEF Receive, TypeOK
    <2>6. QED
      BY <1>3, <2>2, <2>3, <2>4, <2>5 DEF Receive, TypeOK, bff
  <1>4. ASSUME NEW a \in Logins, Authorize(a)
        PROVE  TypeOK'
    <2>1. issuer' \in [Logins -> Stages]
      BY <1>4 DEF Authorize, TypeOK, Stages
    <2>2. QED
      BY <1>4, <2>1 DEF Authorize, TypeOK, bff, browser
  <1>5. ASSUME NEW b \in Browsers, NEW a \in Logins, handleCallback(b, a), ~CallbackError(b, a)
        PROVE  TypeOK'
    <2>1. Take(a) /\ UNCHANGED <<sessions, binding, bindingAge, cookie, owner, issuer>>
      BY <1>5 DEF handleCallback, CallbackUnknown, CallbackUnbound, CallbackWithoutCode,
                  CallbackAccepted, browser
    <2>2. pending' \in [DOMAIN pending' -> 0 .. TTL] /\ DOMAIN pending' \subseteq Logins
      BY <2>1, Taking DEF TypeOK
    <2>3. responses' \subseteq Response
      <3>1. UNCHANGED responses \/ Respond(b, a, "clear", "keep", FALSE)
        BY <1>5 DEF handleCallback, CallbackUnknown, CallbackUnbound, CallbackWithoutCode,
                    CallbackAccepted, browser
      <3>2. QED
        BY <3>1, Responding DEF TypeOK
    <2>4. disturbed' \in [Logins -> SUBSET Causes]
      <3>1. UNCHANGED disturbed \/ Mark({a}, "taken")
        BY <1>5 DEF handleCallback, CallbackUnknown, CallbackUnbound, CallbackWithoutCode,
                    CallbackAccepted
      <3>2. "taken" \in Causes
        BY DEF Causes
      <3>3. QED
        BY <3>1, <3>2, Marking DEF TypeOK
    <2>5. exchanging' \subseteq Browsers \X Logins /\ exchanges' \in [Logins -> Nat]
      <3>1. UNCHANGED <<exchanging, exchanges>> \/ CallbackAccepted(b, a)
        BY <1>5 DEF handleCallback, CallbackUnknown, CallbackUnbound, CallbackWithoutCode
      <3>2. QED
        BY <3>1 DEF CallbackAccepted, TypeOK
    <2>6. QED
      BY <2>1, <2>2, <2>3, <2>4, <2>5 DEF TypeOK
  <1>6. ASSUME NEW b \in Browsers, NEW a \in Logins, ExchangeDone(b, a) \/ ExchangeFailed(b, a)
        PROVE  TypeOK'
    <2>1. responses' \subseteq Response
      BY <1>6, Responding DEF ExchangeDone, ExchangeFailed
    <2>2. QED
      BY <1>6, <2>1 DEF ExchangeDone, ExchangeFailed, TypeOK
  <1>7. CASE Tick
    <2>1. disturbed' \in [Logins -> SUBSET Causes]
      BY <1>7, Marking DEF Tick, Causes
    <2>2. pending' \in [DOMAIN pending' -> 0 .. TTL] /\ DOMAIN pending' \subseteq Logins
      BY <1>7, BoundsAssumption DEF Tick, TypeOK
    <2>3. bindingAge' \in [Browsers -> 0 .. TTL]
      BY <1>7, BoundsAssumption DEF Tick, TypeOK
    <2>4. binding' \in [Browsers -> Logins \cup {None}]
      BY <1>7 DEF Tick, TypeOK
    <2>5. QED
      BY <1>7, <2>1, <2>2, <2>3, <2>4 DEF Tick, TypeOK
  <1>8. CASE Sweep
    BY <1>8, Dropping DEF Sweep, TypeOK, browser
  <1>9. CASE Restart
    <2>1. disturbed' \in [Logins -> SUBSET Causes]
      BY <1>9, Marking DEF Restart, Causes
    <2>2. pending' \in [DOMAIN pending' -> 0 .. TTL] /\ DOMAIN pending' = {}
      BY <1>9, Dropping DEF Restart
    <2>3. QED
      BY <1>9, <2>1, <2>2 DEF Restart, TypeOK, browser
  <1>10. CASE UNCHANGED vars
    BY <1>10 DEF vars, bff, browser, TypeOK
  <1>11. QED
    BY Zenon, <1>1, <1>2, <1>3, <1>4, <1>5, <1>6, <1>7, <1>8, <1>9, <1>10
       DEF Next, handleLogin, CallbackError

-----------------------------------------------------------------------------
\* Every link of the chain stays with the browser that began the login.
LEMMA OwnPreserved == IInv /\ [Next]_vars => OwnInv'
  <1> SUFFICES ASSUME IInv, [Next]_vars
               PROVE  OwnInv'
    OBVIOUS
  <1>0. TypeOK /\ OwnInv
    BY DEF IInv
  <1> USE <1>0
  \* A login nobody owned is on no link; it gets its owner with its first response.
  <1>1. ASSUME NEW b \in Browsers, NEW a \in Logins, handleLogin(b, a)
        PROVE  OwnInv'
    <2>1. /\ owner[a] = None /\ owner' = [owner EXCEPT ![a] = b]
          /\ UNCHANGED <<exchanging, binding, cookie>>
      BY <1>1 DEF handleLogin, LoginStarted, LoginRefused, bff
    <2>2. owner'[a] = b /\ \A x \in Logins : owner[x] # None => owner'[x] = owner[x]
      BY <2>1 DEF TypeOK
    <2>3. \A r \in responses' : r \in responses \/ (r.to = b /\ r.login = a)
      BY <1>1 DEF handleLogin, LoginStarted, LoginRefused, Respond
    <2>4. \A x \in Browsers : x # None
      BY NoneAssumption
    <2>5. \A x \in Browsers : binding'[x] # None => owner'[binding'[x]] = x
      BY <2>1, <2>2, <2>4 DEF OwnInv, TypeOK
    <2>6. \A x \in Browsers : cookie'[x] # None => owner'[cookie'[x]] = x
      BY <2>1, <2>2, <2>4 DEF OwnInv, TypeOK
    <2>7. \A r \in responses' : r.binding = "set" \/ r.session = "set" => owner'[r.login] = r.to
      <3> SUFFICES ASSUME NEW r \in responses', r.binding = "set" \/ r.session = "set"
                   PROVE  owner'[r.login] = r.to
        OBVIOUS
      <3>1. CASE r \in responses
        <4>1. r.to \in Browsers /\ r.login \in Logins
          BY <3>1 DEF TypeOK, Response
        <4>2. QED
          BY <2>2, <2>4, <3>1, <4>1 DEF OwnInv
      <3>2. QED
        BY <2>2, <2>3, <3>1
    <2>8. \A x \in Browsers, y \in Logins : <<x, y>> \in exchanging' => owner'[y] = x
      BY <2>1, <2>2, <2>4 DEF OwnInv
    <2>9. QED
      BY <2>5, <2>6, <2>7, <2>8 DEF OwnInv
  \* A cookie comes from a response of the same login to the same browser.
  <1>2. ASSUME NEW r \in responses, Receive(r)
        PROVE  OwnInv'
    <2>1. r.to \in Browsers /\ r.login \in Logins
      BY DEF TypeOK, Response
    <2>2. UNCHANGED <<owner, exchanging>> /\ responses' \subseteq responses
      BY <1>2 DEF Receive, bff
    <2>3. \A b \in Browsers : binding'[b] # None => owner'[binding'[b]] = b
      BY <1>2, <2>1, <2>2 DEF Receive, OwnInv, TypeOK
    <2>4. \A b \in Browsers : cookie'[b] # None => owner'[cookie'[b]] = b
      BY <1>2, <2>1, <2>2 DEF Receive, OwnInv, TypeOK
    <2>5. QED
      BY <2>2, <2>3, <2>4 DEF OwnInv
  \* An exchange is only sent for the browser whose binding cookie names the login.
  <1>3. ASSUME NEW b \in Browsers, NEW a \in Logins, CallbackAccepted(b, a)
        PROVE  OwnInv'
    <2>1. owner[a] = b
      BY <1>3, NoneAssumption DEF CallbackAccepted, OwnInv
    <2>2. UNCHANGED <<owner, binding, cookie, responses>> /\ exchanging' = exchanging \cup {<<b, a>>}
      BY <1>3 DEF CallbackAccepted, browser
    <2>3. QED
      BY <2>1, <2>2 DEF OwnInv
  \* Responses that set nothing.
  <1>4. ASSUME NEW b \in Browsers, NEW a \in Logins, Respond(b, a, "clear", "keep", FALSE),
               UNCHANGED <<owner, binding, cookie>>, exchanging' \subseteq exchanging
        PROVE  OwnInv'
    <2>1. \A r \in responses' :
            r \in responses \/ (r.binding = "clear" /\ r.session = "keep")
      BY <1>4 DEF Respond
    <2>2. \A r \in responses' : r.binding = "set" \/ r.session = "set" => owner[r.login] = r.to
      BY <2>1 DEF OwnInv
    <2>3. QED
      BY <1>4, <2>2 DEF OwnInv
  <1>5. ASSUME NEW b \in Browsers, NEW a \in Logins,
               CallbackUnbound(b, a) \/ CallbackWithoutCode(b, a) \/ ExchangeFailed(b, a)
        PROVE  OwnInv'
    BY <1>4, <1>5 DEF CallbackUnbound, CallbackWithoutCode, ExchangeFailed
  \* The session cookie is sent to the browser whose exchange it was.
  <1>6. ASSUME NEW b \in Browsers, NEW a \in Logins, ExchangeDone(b, a)
        PROVE  OwnInv'
    <2>1. owner[a] = b /\ UNCHANGED <<owner, binding, cookie>> /\ exchanging' \subseteq exchanging
      BY <1>6 DEF ExchangeDone, OwnInv
    <2>2. \A r \in responses' : r \in responses \/ (r.to = b /\ r.login = a)
      BY <1>6 DEF ExchangeDone, Respond
    <2>3. QED
      BY <2>1, <2>2 DEF OwnInv
  \* The rest takes links away at most.
  <1>7. ASSUME UNCHANGED <<owner, cookie, responses>>, exchanging' \subseteq exchanging,
               \A b \in Browsers : binding'[b] \in {binding[b], None}
        PROVE  OwnInv'
    BY <1>7 DEF OwnInv
  <1>8. CASE Tick
    BY <1>7, <1>8 DEF Tick
  <1>9. CASE Sweep \/ Restart \/ UNCHANGED vars \/ \E a \in Logins : Authorize(a)
    BY <1>7, <1>9 DEF Sweep, Restart, vars, Authorize, bff, browser
  <1>10. ASSUME NEW b \in Browsers, NEW a \in Logins, CallbackError(b, a) \/ CallbackUnknown(b, a)
         PROVE  OwnInv'
    BY <1>7, <1>10 DEF CallbackError, CallbackUnknown, vars, bff, browser
  <1>11. QED
    BY Zenon, <1>1, <1>2, <1>3, <1>5, <1>6, <1>8, <1>9, <1>10 DEF Next, handleCallback

\* A login that is in the store, or that nobody has begun, has sent no code.
LEMMA OncePreserved == IInv /\ [Next]_vars => OnceInv'
  <1> SUFFICES ASSUME IInv, [Next]_vars
               PROVE  OnceInv'
    OBVIOUS
  <1>0. TypeOK /\ OnceInv
    BY DEF IInv
  <1> USE <1>0
  <1>1. ASSUME NEW b \in Browsers, NEW a \in Logins, handleLogin(b, a)
        PROVE  OnceInv'
    <2>1. /\ owner[a] = None /\ owner' = [owner EXCEPT ![a] = b] /\ UNCHANGED exchanges
          /\ b # None
      BY <1>1, NoneAssumption DEF handleLogin, LoginStarted, LoginRefused
    <2>2. DOMAIN pending' \subseteq DOMAIN pending \cup {a}
      BY <1>1, Putting DEF handleLogin, LoginStarted, LoginRefused, bff
    <2>3. owner'[a] = b /\ \A x \in Logins \ {a} : owner'[x] = owner[x]
      BY <2>1 DEF TypeOK
    <2>4. QED
      BY <2>1, <2>2, <2>3 DEF OnceInv
  \* The code is sent and the login leaves the store in one step.
  <1>2. ASSUME NEW b \in Browsers, NEW a \in Logins, CallbackAccepted(b, a)
        PROVE  OnceInv'
    <2>1. a \in DOMAIN pending /\ exchanges[a] = 0 /\ owner[a] # None
      BY <1>2 DEF CallbackAccepted, Takable, OnceInv
    <2>2. DOMAIN pending' = DOMAIN pending \ {a} /\ UNCHANGED owner
      BY <1>2, Taking DEF CallbackAccepted
    <2>3. exchanges'[a] = 1 /\ \A x \in Logins \ {a} : exchanges'[x] = exchanges[x]
      BY <1>2, <2>1 DEF CallbackAccepted, TypeOK
    <2>4. QED
      BY <2>1, <2>2, <2>3 DEF OnceInv
  \* Nothing else sends a code or adds to the store.
  <1>3. ASSUME UNCHANGED <<owner, exchanges>>, DOMAIN pending' \subseteq DOMAIN pending
        PROVE  OnceInv'
    BY <1>3 DEF OnceInv
  <1>4. ASSUME NEW b \in Browsers, NEW a \in Logins,
               handleCallback(b, a) \/ ExchangeDone(b, a) \/ ExchangeFailed(b, a),
               ~CallbackAccepted(b, a)
        PROVE  OnceInv'
    <2>1. UNCHANGED <<owner, exchanges>> /\ (UNCHANGED pending \/ Take(a))
      BY <1>4 DEF handleCallback, CallbackError, CallbackUnknown, CallbackUnbound,
                  CallbackWithoutCode, ExchangeDone, ExchangeFailed, vars, bff, browser
    <2>2. QED
      BY <1>3, <2>1, Taking
  <1>5. CASE Sweep \/ Restart
    BY <1>3, <1>5, Dropping DEF Sweep, Restart
  <1>6. CASE Tick
    BY <1>3, <1>6 DEF Tick
  <1>7. ASSUME UNCHANGED vars \/ (\E r \in responses : Receive(r)) \/ \E a \in Logins : Authorize(a)
        PROVE  OnceInv'
    BY <1>3, <1>7 DEF vars, Receive, Authorize, bff
  <1>8. QED
    BY Zenon, <1>1, <1>2, <1>4, <1>5, <1>6, <1>7 DEF Next, handleCallback

\* Only handleLogin adds to the store, and only below its capacity.
LEMMA SizePreserved == IInv /\ [Next]_vars => SizeInv'
  <1> SUFFICES ASSUME IInv, [Next]_vars
               PROVE  SizeInv'
    OBVIOUS
  <1>0. TypeOK /\ SizeInv /\ Cardinality(DOMAIN pending) \in Nat
    BY FS_CardinalityType DEF IInv, SizeInv
  <1> USE <1>0
  <1>1. ASSUME NEW b \in Browsers, NEW a \in Logins, LoginStarted(b, a)
        PROVE  SizeInv'
    <2>1. DOMAIN pending' = DOMAIN pending \cup {a} /\ Cardinality(DOMAIN pending) < MaxPending
      BY <1>1, Putting DEF LoginStarted
    <2>2. /\ IsFiniteSet(DOMAIN pending \cup {a})
          /\ Cardinality(DOMAIN pending \cup {a}) <= Cardinality(DOMAIN pending) + 1
      <3> DEFINE D == DOMAIN pending
      <3>1. IsFiniteSet(D)
        BY DEF SizeInv
      <3> HIDE DEF D
      <3>2. /\ IsFiniteSet(D \cup {a})
            /\ Cardinality(D \cup {a}) = IF a \in D THEN Cardinality(D) ELSE Cardinality(D) + 1
        BY <3>1, FS_AddElement
      <3>3. QED
        BY <3>2 DEF D
    <2>3. Cardinality(DOMAIN pending \cup {a}) \in Nat
      BY <2>2, FS_CardinalityType
    <2>4. QED
      BY <2>1, <2>2, <2>3, BoundsAssumption DEF SizeInv
  <1>2. ASSUME DOMAIN pending' \subseteq DOMAIN pending
        PROVE  SizeInv'
    <2>1. /\ IsFiniteSet(DOMAIN pending')
          /\ Cardinality(DOMAIN pending') <= Cardinality(DOMAIN pending)
      BY <1>2, FS_Subset DEF SizeInv
    <2>2. Cardinality(DOMAIN pending') \in Nat
      BY <2>1, FS_CardinalityType
    <2>3. QED
      BY <2>1, <2>2, BoundsAssumption DEF SizeInv
  <1>3. ASSUME NEW b \in Browsers, NEW a \in Logins,
               LoginRefused(b, a) \/ handleCallback(b, a) \/ ExchangeDone(b, a) \/ ExchangeFailed(b, a)
        PROVE  SizeInv'
    <2>1. UNCHANGED pending \/ Take(a)
      BY <1>3 DEF LoginRefused, handleCallback, CallbackError, CallbackUnknown, CallbackUnbound,
                  CallbackWithoutCode, CallbackAccepted, ExchangeDone, ExchangeFailed, vars, bff
    <2>2. QED
      BY <1>2, <2>1, Taking
  <1>4. CASE Sweep \/ Restart
    BY <1>2, <1>4, Dropping DEF Sweep, Restart
  <1>5. CASE Tick
    BY <1>2, <1>5 DEF Tick
  <1>6. ASSUME UNCHANGED vars \/ (\E r \in responses : Receive(r)) \/ \E a \in Logins : Authorize(a)
        PROVE  SizeInv'
    BY <1>2, <1>6 DEF vars, Receive, Authorize, bff
  <1>7. QED
    BY Zenon, <1>1, <1>3, <1>4, <1>5, <1>6 DEF Next, handleLogin

\* A history that is empty was empty, and the login was not marked.
LEMMA Unmarked ==
  ASSUME TypeOK, NEW S, NEW cause, Mark(S, cause), NEW a \in Logins, disturbed'[a] = {}
  PROVE  disturbed[a] = {} /\ a \notin S
  BY DEF Mark, TypeOK

\* A login that nothing has happened to stays acceptable.
LEMMA FlightPreserved == IInv /\ [Next]_vars => FlightInv'
  <1> SUFFICES ASSUME IInv, [Next]_vars
               PROVE  FlightInv'
    OBVIOUS
  <1>0. TypeOK /\ OwnInv /\ FlightInv
    BY DEF IInv
  <1> USE <1>0
  <1>a. \A r \in responses :
           /\ r.to \in Browsers /\ r.login \in Logins /\ r.redirect \in BOOLEAN
           /\ r.binding \in {"set", "clear"} /\ r.to # None
    BY NoneAssumption DEF TypeOK, Response
  <1>b. \A r \in responses :
           /\ r.redirect => r.binding = "set"
           /\ r.binding = "set" => owner[r.login] = r.to
           /\ r.binding = "clear" => disturbed[r.login] # {}
    BY DEF FlightInv, OwnInv
  \* The login is stored as its redirect is sent; one that is refused has no redirect.
  <1>1. ASSUME NEW b \in Browsers, NEW a \in Logins, handleLogin(b, a)
        PROVE  FlightInv'
    <2>1. /\ owner[a] = None /\ owner' = [owner EXCEPT ![a] = b] /\ b # None
          /\ UNCHANGED <<issuer, exchanging, binding, bindingAge, disturbed>>
      BY <1>1, NoneAssumption DEF handleLogin, LoginStarted, LoginRefused, bff
    <2>2. owner'[a] = b /\ \A x \in Logins \ {a} : owner'[x] = owner[x]
      BY <2>1 DEF TypeOK
    <2>3. \A r \in responses' :
             \/ r \in responses
             \/ r.login = a /\ r.binding = "set" /\ (r.redirect => LoginStarted(b, a))
      BY <1>1 DEF handleLogin, LoginStarted, LoginRefused, Respond
    <2>4. \A x \in Logins \ {a} : Takable(x) => Takable(x)' /\ pending'[x] = pending[x]
      BY <1>1 DEF handleLogin, LoginStarted, LoginRefused, PutPending, Takable, bff
    <2>5. LoginStarted(b, a) => Takable(a)'
      BY BoundsAssumption DEF LoginStarted, PutPending, Takable
    <2>6. Takable(a) => Takable(a)'
      BY <1>1, <2>5 DEF handleLogin, LoginRefused, Takable, bff
    <2>8. \A x \in Logins : disturbed[x] = {} /\ issuer[x] # "none" =>
             x # a /\ Accepted(x)' /\ bindingAge[owner[x]] <= pending'[x]
      BY <2>1, <2>2, <2>4 DEF FlightInv, Accepted
    <2>9. \A r \in responses' : r.redirect /\ disturbed[r.login] = {} => Takable(r.login)'
      BY <1>a, <2>3, <2>4, <2>5, <2>6 DEF FlightInv
    <2>10. QED
      BY <2>1, <2>2, <2>3, <2>8, <2>9 DEF FlightInv
  \* The redirect brings the cookie, and spoils the other logins of the browser.
  <1>2. ASSUME NEW r \in responses, Receive(r)
        PROVE  FlightInv'
    <2>1. /\ r.to \in Browsers /\ r.login \in Logins /\ r.redirect \in BOOLEAN
          /\ r.binding \in {"set", "clear"}
          /\ \A x \in responses : x.login \in Logins
      BY <1>a
    <2>2. /\ UNCHANGED <<owner, pending, exchanging>> /\ responses' \subseteq responses
          /\ \A x \in Logins : Takable(x)' <=> Takable(x)
      BY <1>2 DEF Receive, bff, Takable
    <2>3. \A x \in Logins : disturbed'[x] = {} =>
             disturbed[x] = {} /\ x \notin OthersOf(r.to, r.login)
      BY <1>2, Unmarked DEF Receive
    <2>4. /\ \A x \in Logins \ {r.login} : issuer'[x] = issuer[x]
          /\ issuer'[r.login] # "none" => r.redirect \/ issuer[r.login] # "none"
      BY <1>2, <2>1 DEF Receive, TypeOK
    <2>5. /\ \A x \in Browsers \ {r.to} :
                binding'[x] = binding[x] /\ bindingAge'[x] = bindingAge[x]
          /\ bindingAge'[r.to] = 0 /\ (r.binding = "set" => binding'[r.to] = r.login)
      BY <1>2, <2>1 DEF Receive, TypeOK
    <2>6. r.redirect => owner[r.login] # None
      BY <1>a, <1>b
    <2>7. \A x \in Logins : issuer'[x] # "none" => owner'[x] # None
      BY <2>2, <2>4, <2>6 DEF FlightInv
    <2>8. ASSUME NEW x \in Logins, disturbed'[x] = {}, issuer'[x] # "none"
          PROVE  Accepted(x)' /\ bindingAge'[owner[x]] <= pending'[x]
      <3>1. disturbed[x] = {} /\ owner[x] \in Browsers
        BY <2>2, <2>3, <2>7, <2>8 DEF TypeOK
      <3>2. CASE x = r.login
        <4>1. r.binding = "set" /\ owner[x] = r.to
          BY <2>1, <3>1, <3>2, <1>b
        <4>2. Takable(x)
          BY <2>4, <2>8, <3>1, <3>2 DEF FlightInv, Accepted
        <4>3. pending[x] \in Nat
          BY <4>2, BoundsAssumption DEF Takable, TypeOK
        <4>4. QED
          BY <2>2, <2>5, <3>2, <4>1, <4>2, <4>3 DEF Accepted
      <3>3. CASE x # r.login
        <4>1. owner[x] # r.to
          BY <2>3, <2>8, <3>3 DEF OthersOf
        <4>2. Accepted(x) /\ bindingAge[owner[x]] <= pending[x]
          BY <2>4, <2>8, <3>1, <3>3 DEF FlightInv
        <4>3. QED
          BY <2>2, <2>5, <3>1, <4>1, <4>2 DEF Accepted
      <3>4. QED
        BY <3>2, <3>3
    <2>9. QED
      BY <2>1, <2>2, <2>3, <2>7, <2>8 DEF FlightInv
  <1>3. ASSUME NEW a \in Logins, Authorize(a)
        PROVE  FlightInv'
    <2>1. /\ UNCHANGED <<responses, disturbed, exchanging, owner, binding, bindingAge, pending>>
          /\ \A x \in Logins : issuer'[x] # "none" => issuer[x] # "none"
      BY <1>3 DEF Authorize, TypeOK, bff, browser
    <2>2. QED
      BY <2>1 DEF FlightInv, Accepted, Takable
  \* A state that is presented marks its login, unless it was expired or unknown.
  <1>4. ASSUME NEW b \in Browsers, NEW a \in Logins, handleCallback(b, a), ~CallbackError(b, a)
        PROVE  FlightInv'
    <2>1. /\ Take(a) /\ UNCHANGED <<issuer, owner, binding, bindingAge>>
          /\ \/ Mark({a}, "taken")
             \/ ~Takable(a) /\ Returned(a) /\ UNCHANGED <<responses, exchanging, disturbed>>
      BY <1>4 DEF handleCallback, CallbackUnknown, CallbackUnbound, CallbackWithoutCode,
                  CallbackAccepted, browser
    <2>2. \A x \in Logins : disturbed'[x] = {} => disturbed[x] = {} /\ issuer[x] \in Stages
      BY <2>1, Unmarked DEF TypeOK
    <2>3. disturbed'[a] # {}
      <3>1. CASE Mark({a}, "taken")
        BY <3>1, Unmarked
      <3>2. CASE ~Takable(a) /\ Returned(a) /\ UNCHANGED disturbed
        BY <3>2 DEF FlightInv, Returned, Accepted
      <3>3. QED
        BY <2>1, <3>1, <3>2
    <2>4. \A x \in Logins \ {a} : Takable(x) => Takable(x)' /\ pending'[x] = pending[x]
      BY <2>1 DEF Take, Restrict, Takable
    <2>5. \A r \in responses' :
             r \in responses \/ (r.login = a /\ r.binding = "clear" /\ ~r.redirect)
      BY <1>4 DEF handleCallback, CallbackUnknown, CallbackUnbound, CallbackWithoutCode,
                  CallbackAccepted, Respond, browser
    <2>6. \A x \in Browsers, y \in Logins : <<x, y>> \in exchanging' =>
             <<x, y>> \in exchanging \/ y = a
      <3>1. UNCHANGED exchanging \/ exchanging' = exchanging \cup {<<b, a>>}
        BY <1>4 DEF handleCallback, CallbackUnknown, CallbackUnbound, CallbackWithoutCode,
                    CallbackAccepted
      <3>2. QED
        BY <3>1
    <2>8. \A x \in Logins : disturbed'[x] = {} /\ issuer'[x] # "none" =>
             Accepted(x)' /\ bindingAge'[owner'[x]] <= pending'[x]
      BY <2>1, <2>2, <2>3, <2>4 DEF FlightInv, Accepted
    <2>9. \A r \in responses' : r.redirect /\ disturbed'[r.login] = {} => Takable(r.login)'
      BY <1>a, <2>2, <2>3, <2>4, <2>5 DEF FlightInv
    <2>10. \A r \in responses' :
              /\ r.redirect => r.binding = "set"
              /\ r.binding = "clear" => disturbed'[r.login] # {}
      <3> SUFFICES ASSUME NEW r \in responses'
                   PROVE  /\ r.redirect => r.binding = "set"
                          /\ r.binding = "clear" => disturbed'[r.login] # {}
        OBVIOUS
      <3>1. CASE r \in responses
        BY <1>a, <1>b, <2>2, <3>1
      <3>2. QED
        BY <2>3, <2>5, <3>1
    <2>11. QED
      BY <2>1, <2>2, <2>3, <2>6, <2>8, <2>9, <2>10 DEF FlightInv
  \* A login whose exchange ends was marked when it was taken.
  <1>5. ASSUME NEW b \in Browsers, NEW a \in Logins, ExchangeDone(b, a) \/ ExchangeFailed(b, a)
        PROVE  FlightInv'
    <2>1. /\ <<b, a>> \in exchanging /\ exchanging' \subseteq exchanging
          /\ UNCHANGED <<pending, binding, bindingAge, owner, issuer, disturbed>>
      BY <1>5 DEF ExchangeDone, ExchangeFailed
    <2>2. \A r \in responses' :
             r \in responses \/ (r.login = a /\ r.binding = "clear" /\ ~r.redirect)
      BY <1>5 DEF ExchangeDone, ExchangeFailed, Respond
    <2>3. disturbed[a] # {}
      BY <2>1 DEF FlightInv
    <2>4. \A r \in responses' :
             /\ r.redirect => r.binding = "set"
             /\ r.binding = "clear" => disturbed'[r.login] # {}
             /\ r.redirect /\ disturbed'[r.login] = {} => Takable(r.login)'
      <3>1. \A x \in Logins : Takable(x)' <=> Takable(x)
        BY <2>1 DEF Takable
      <3>2. \A r \in responses : r.redirect /\ disturbed[r.login] = {} => Takable(r.login)
        BY DEF FlightInv
      <3> SUFFICES ASSUME NEW r \in responses'
                   PROVE  /\ r.redirect => r.binding = "set"
                          /\ r.binding = "clear" => disturbed'[r.login] # {}
                          /\ r.redirect /\ disturbed'[r.login] = {} => Takable(r.login)'
        OBVIOUS
      <3>3. CASE r \in responses
        BY <1>a, <1>b, <2>1, <3>1, <3>2, <3>3
      <3>4. QED
        BY <2>1, <2>2, <2>3, <3>3
    <2>5. QED
      BY <2>1, <2>4 DEF FlightInv, Accepted, Takable
  \* The cookie is no older than the login, so that the login is marked before it goes.
  <1>6. CASE Tick
    <2>1. UNCHANGED <<responses, exchanging, owner, issuer>>
      BY <1>6 DEF Tick
    <2>2. \A x \in Logins : disturbed'[x] = {} =>
             /\ disturbed[x] = {} /\ ~(x \in DOMAIN pending /\ pending'[x] = TTL)
      <3>1. Mark({x \in DOMAIN pending : pending'[x] = TTL}, "expired")
        BY <1>6 DEF Tick
      <3>2. QED
        BY <3>1, Unmarked
    <2>3. \A x \in Logins : disturbed'[x] = {} /\ Takable(x) =>
             Takable(x)' /\ pending'[x] = pending[x] + 1
      <3> SUFFICES ASSUME NEW x \in Logins, disturbed'[x] = {}, Takable(x)
                   PROVE  Takable(x)' /\ pending'[x] = pending[x] + 1
        OBVIOUS
      <3>1. x \in DOMAIN pending /\ pending[x] \in Nat /\ pending[x] < TTL
        BY BoundsAssumption DEF Takable, TypeOK
      <3>2. x \in DOMAIN pending' /\ pending'[x] = pending[x] + 1
        BY <1>6, <3>1 DEF Tick
      <3>3. pending'[x] # TTL
        BY <2>2, <3>1
      <3>4. QED
        BY <3>1, <3>2, <3>3, BoundsAssumption DEF Takable
    <2>4. ASSUME NEW x \in Logins, disturbed'[x] = {}, issuer[x] # "none"
          PROVE  Accepted(x)' /\ bindingAge'[owner[x]] <= pending'[x]
      <3>1. /\ Takable(x) /\ binding[owner[x]] = x /\ bindingAge[owner[x]] <= pending[x]
            /\ owner[x] \in Browsers /\ x # None
        BY <2>2, <2>4, NoneAssumption DEF FlightInv, Accepted, TypeOK
      <3>2. Takable(x)' /\ pending'[x] = pending[x] + 1
        BY <2>3, <2>4, <3>1
      <3>3. /\ pending[x] \in Nat /\ pending'[x] < TTL /\ bindingAge[owner[x]] \in Nat
        BY <3>1, <3>2, BoundsAssumption DEF Takable, TypeOK
      <3>4. bindingAge[owner[x]] + 1 < TTL
        BY <3>1, <3>2, <3>3, BoundsAssumption
      <3>5. binding'[owner[x]] = x /\ bindingAge'[owner[x]] = bindingAge[owner[x]] + 1
        BY <1>6, <3>1, <3>4 DEF Tick, TypeOK
      <3>6. QED
        BY <2>1, <3>1, <3>2, <3>3, <3>5 DEF Accepted
    <2>5. QED
      BY <1>a, <2>1, <2>2, <2>3, <2>4 DEF FlightInv
  <1>7. CASE Sweep
    <2>1. UNCHANGED <<responses, exchanging, owner, issuer, binding, bindingAge, disturbed>>
      BY <1>7 DEF Sweep, browser
    <2>2. \A x \in Logins : Takable(x) => Takable(x)' /\ pending'[x] = pending[x]
      BY <1>7 DEF Sweep, Takable, Restrict
    <2>3. QED
      BY <1>a, <2>1, <2>2 DEF FlightInv, Accepted
  \* A restart marks every login that has begun.
  <1>8. CASE Restart
    <2>1. UNCHANGED <<responses, owner, issuer, binding, bindingAge>> /\ exchanging' = {}
      BY <1>8 DEF Restart, browser
    <2>2. \A x \in Logins : disturbed'[x] = {} => disturbed[x] = {} /\ owner[x] = None
      BY <1>8, Unmarked DEF Restart
    <2>3. QED
      BY <1>a, <1>b, <2>1, <2>2 DEF FlightInv
  <1>9. CASE UNCHANGED vars
    BY <1>9 DEF vars, bff, browser, FlightInv, Accepted, Takable
  <1>10. QED
    BY Zenon, <1>1, <1>2, <1>3, <1>4, <1>5, <1>6, <1>7, <1>8, <1>9 DEF Next, CallbackError

-----------------------------------------------------------------------------
\* The inductive invariant.
THEOREM Inductive == Spec => []IInv
  <1>1. Init => IInv
    <2> SUFFICES ASSUME Init
                 PROVE  IInv
      OBVIOUS
    <2>1. DOMAIN pending = {} /\ IsFiniteSet({}) /\ Cardinality({}) = 0
      BY FS_EmptySet DEF Init
    <2>2. TypeOK
      <3>1. "none" \in Stages /\ 0 \in 0 .. TTL
        BY BoundsAssumption DEF Stages
      <3>2. QED
        BY <2>1, <3>1 DEF Init, TypeOK
    <2>3. OwnInv /\ OnceInv /\ FlightInv
      BY <2>1 DEF Init, OwnInv, OnceInv, FlightInv
    <2>4. SizeInv
      BY <2>1, BoundsAssumption DEF SizeInv
    <2>5. QED
      BY <2>2, <2>3, <2>4 DEF IInv
  <1>2. IInv /\ [Next]_vars => IInv'
    BY TypePreserved, OwnPreserved, OncePreserved, SizePreserved, FlightPreserved DEF IInv
  <1>3. QED
    BY <1>1, <1>2, PTL DEF Spec

\* The stores, the cookies and what is on its way keep their types.
THEOREM TypeCorrect == Spec => []TypeOK
  <1>1. IInv => TypeOK
    BY DEF IInv
  <1>2. QED
    BY <1>1, Inductive, PTL

\* Whatever links are passed on and in whatever order responses arrive, a browser's session
\* cookie is that of a login it began.
THEOREM NoForeignSession == Spec => []SignedInByOwnLogin
  <1>1. IInv => SignedInByOwnLogin
    BY DEF IInv, OwnInv, SignedInByOwnLogin
  <1>2. QED
    BY <1>1, Inductive, PTL

\* A login sends its code at most once, across reloads, copies and restarts.
THEOREM NoCodeTwice == Spec => []CodeSentOnce
  <1>1. IInv => CodeSentOnce
    BY DEF IInv, OnceInv, CodeSentOnce
  <1>2. QED
    BY <1>1, Inductive, PTL

\* A login that comes back with a code, and to which none of the things happened that the
\* history records, is accepted: other browsers, a full store, the sweep, and responses in
\* any order do not spoil it.
THEOREM NothingElseSpoilsLogin == Spec => []UndisturbedLoginAccepted
  <1>1. IInv => UndisturbedLoginAccepted
    BY DEF IInv, FlightInv, UndisturbedLoginAccepted, Returned
  <1>2. QED
    BY <1>1, Inductive, PTL

\* The store never outgrows its capacity.
THEOREM StoreStaysBounded == Spec => []StoreBounded
  <1>1. IInv => StoreBounded
    BY DEF IInv, SizeInv, StoreBounded
  <1>2. QED
    BY <1>1, Inductive, PTL
=============================================================================
