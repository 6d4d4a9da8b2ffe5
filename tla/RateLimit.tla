------------------------------ MODULE RateLimit ------------------------------
(***************************************************************************)
(* The BFF's per-IP request budgets: the type rateLimiter and the handler  *)
(* prologue rateLimited of bff/ratelimit.go, and the minute ticker of      *)
(* app.startBackground that sweeps the table.                              *)
(*                                                                         *)
(* allow and sweep hold the limiter's mutex from before they read the      *)
(* clock until they return, so each is one step.  The clock has a finer    *)
(* unit than the second: UnitsPerSecond of them make the second in which   *)
(* Retry-After is expressed.                                               *)
(***************************************************************************)
EXTENDS Naturals, Sequences, Functions

CONSTANTS Keys,             \* client IPs, as clientIP returns them
          Limits,           \* the limits a limiter may be constructed with
          Window,           \* rateLimiter.window, in clock units
          UnitsPerSecond,   \* clock units in a second
          MaxTime           \* bound: the clock stops here

ASSUME LimitsAssumption == Limits \subseteq Nat
ASSUME WindowAssumption == Window \in Nat \ {0}
ASSUME UnitsAssumption == UnitsPerSecond \in Nat \ {0}
ASSUME MaxTimeAssumption == MaxTime \in Nat

VARIABLES limit,    \* rateLimiter.limit, fixed by newRateLimiter; 0 stands for every
                    \* non-positive limit
          now,      \* rateLimiter.now()
          counts,   \* rateLimiter.counts: the keys present, each with its counter
          reply,    \* the last answer of rateLimited
          admitted  \* history, for the properties: k's admitted events in order,
                    \* each with its time and the start of the window it was charged to

vars == <<limit, now, counts, reply, admitted>>

Counter == [n : Nat, reset : Nat]

\* retryAfter is the header of a 429, retry the remaining time it was made from.
Reply == [key : Keys, status : {200}] \cup
         [key : Keys, status : {429}, retry : Nat, retryAfter : Nat]

NoReply == [status |-> 0]

Admission == [at : Nat, start : Int]

Init ==
    /\ limit \in Limits
    /\ now = 0
    /\ counts = [k \in {} |-> [n |-> 0, reset |-> 0]]
    /\ reply = NoReply
    /\ admitted = [k \in Keys |-> <<>>]

\* now.Before(c.reset) for a key that is in the table.
Open(k) == k \in DOMAIN counts /\ now < counts[k].reset

SetCounter(k, c) ==
    counts' = [x \in DOMAIN counts \cup {k} |-> IF x = k THEN c ELSE counts[x]]

\* Mutant of RetryAfterSeconds: not raised to 1.
RetryAfterTruncated(retry) == retry \div UnitsPerSecond

\* int(retry.Seconds()), raised to 1: the Retry-After header.
RetryAfterSeconds(retry) ==
    IF retry \div UnitsPerSecond < 1 THEN 1 ELSE retry \div UnitsPerSecond

Admitted(k, start) ==
    /\ reply' = [key |-> k, status |-> 200]
    /\ admitted' = [admitted EXCEPT ![k] = Append(@, [at |-> now, start |-> start])]

\* limit <= 0: the limiter is disabled and keeps no table.
AllowDisabled(k) ==
    /\ limit = 0
    /\ reply' = [key |-> k, status |-> 200]
    /\ UNCHANGED <<limit, now, counts, admitted>>

\* No counter, or one whose window has rolled over: a new window starts here.
AllowNewWindow(k) ==
    /\ limit > 0
    /\ ~Open(k)
    /\ SetCounter(k, [n |-> 1, reset |-> now + Window])
    /\ Admitted(k, now)
    /\ UNCHANGED <<limit, now>>

\* Mutant of AllowWithinBudget: off by one.
AllowOneTooMany(k) ==
    /\ limit > 0
    /\ Open(k)
    /\ counts[k].n <= limit
    /\ SetCounter(k, [counts[k] EXCEPT !.n = @ + 1])
    /\ Admitted(k, counts[k].reset - Window)
    /\ UNCHANGED <<limit, now>>

AllowWithinBudget(k) ==
    /\ limit > 0
    /\ Open(k)
    /\ counts[k].n < limit
    /\ SetCounter(k, [counts[k] EXCEPT !.n = @ + 1])
    /\ Admitted(k, counts[k].reset - Window)
    /\ UNCHANGED <<limit, now>>

AllowRejected(k) ==
    /\ limit > 0
    /\ Open(k)
    /\ counts[k].n >= limit
    /\ LET retry == counts[k].reset - now IN
       reply' = [key |-> k, status |-> 429, retry |-> retry,
                 retryAfter |-> RetryAfterSeconds(retry)]
    /\ UNCHANGED <<limit, now, counts, admitted>>

allow(k) ==
    \/ AllowDisabled(k)
    \/ AllowNewWindow(k)
    \/ AllowWithinBudget(k)
    \/ AllowRejected(k)

\* Mutants of sweep: it drops every window, or the wrong ones.
sweepAll ==
    /\ counts' = Restrict(counts, {})
    /\ UNCHANGED <<limit, now, reply, admitted>>

sweepOpen ==
    /\ counts' = Restrict(counts, {k \in DOMAIN counts : ~Open(k)})
    /\ UNCHANGED <<limit, now, reply, admitted>>

\* The ticker's sweep: drop the windows that have rolled over.
sweep ==
    /\ counts' = Restrict(counts, {k \in DOMAIN counts : Open(k)})
    /\ UNCHANGED <<limit, now, reply, admitted>>

Tick ==
    /\ now < MaxTime
    /\ now' = now + 1
    /\ UNCHANGED <<limit, counts, reply, admitted>>

Next ==
    \/ \E k \in Keys : allow(k)
    \/ sweep
    \/ Tick

\* The ticker fires again and again while the process runs, and time passes.
Spec == Init /\ [][Next]_vars

FairSpec == Spec /\ WF_vars(Tick) /\ WF_vars(sweep)

-----------------------------------------------------------------------------
(* Properties *)

TypeOK ==
    /\ limit \in Limits
    /\ now \in 0 .. MaxTime
    /\ DOMAIN counts \subseteq Keys
    /\ counts \in [DOMAIN counts -> Counter]
    /\ reply \in Reply \cup {NoReply}
    /\ admitted \in [Keys -> Seq(Admission)]

\* Of any 2 * limit + 1 successive admissions of one client, the last comes
\* more than a window after the first: however the requests are timed around
\* the rollover of a window, and whatever the sweep deletes, a client gets at
\* most twice its budget within one window's length.
SlidingBudget ==
    limit > 0 =>
        \A k \in Keys : \A i \in DOMAIN admitted[k] :
            i + 2 * limit \in DOMAIN admitted[k] =>
                admitted[k][i + 2 * limit].at > admitted[k][i].at + Window

\* A client is never turned away while it has used less than its budget in the
\* window length that ends now: a 429 is always backed by limit admissions of
\* this very client that are not yet a window old.
RejectionsAreEarned ==
    [][ reply'.status = 429 /\ reply' # reply =>
          LET a == admitted[reply'.key] IN
          /\ Len(a) >= limit
          /\ a[Len(a) - limit + 1].at > now - Window ]_vars

\* Retry-After is rounded down to whole seconds, but a client that obeys it is
\* never sent back later than the rollover (except that one second is the
\* smallest answer), and one second more is always enough.
RetryAfterTracksRollover ==
    reply.status = 429 =>
        /\ reply.retryAfter >= 1
        /\ reply.retryAfter = 1 \/ reply.retryAfter * UnitsPerSecond <= reply.retry
        /\ (reply.retryAfter + 1) * UnitsPerSecond > reply.retry
        /\ reply.retry <= Window

\* Memory is bounded: a client whose window has rolled over is forgotten, or
\* comes back and starts a new one.
ForgetsIdleClients ==
    \A k \in Keys :
        (k \in DOMAIN counts /\ ~Open(k)) ~> (k \notin DOMAIN counts \/ Open(k))

\* The limiter implements the fixed-window promise, with the sweep invisible.
Promise == INSTANCE FixedWindow WITH
    spent  <- [k \in Keys |-> IF Open(k) THEN counts[k].n ELSE 0],
    closes <- [k \in Keys |-> IF Open(k) THEN counts[k].reset ELSE 0]

ImplementsFixedWindow == Promise!Spec
=============================================================================
