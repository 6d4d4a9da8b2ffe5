----------------------------- MODULE FixedWindow -----------------------------
(***************************************************************************)
(* What the BFF's rate limiter promises its callers (bff/ratelimit.go, the *)
(* comments of rateLimiter and allow): each key has a budget of limit      *)
(* events per window of length Window; a window opens with the first event *)
(* after the previous one closed, and closes by itself when it has lasted  *)
(* Window.  There is no table, no sweep and no memory here: RateLimit,     *)
(* the limiter as it is coded, is shown to implement this module.          *)
(***************************************************************************)
EXTENDS Naturals

CONSTANTS Keys,     \* client IPs
          Window,   \* length of a window, in clock units
          MaxTime   \* the clock stops here

VARIABLES limit,    \* events per window; a limiter with limit 0 sets no budget and promises nothing
          now,      \* the clock
          spent,    \* spent[k]: events used up in k's open window, 0 if none is open
          closes    \* closes[k]: when k's open window closes, 0 if none is open

vars == <<limit, now, spent, closes>>

Init ==
    /\ limit \in Nat
    /\ now = 0
    /\ spent = [k \in Keys |-> 0]
    /\ closes = [k \in Keys |-> 0]

\* An event of k is admitted: it opens a window or is charged to the open one.
Admit(k) ==
    \/ /\ spent[k] = 0
       /\ limit > 0
       /\ spent' = [spent EXCEPT ![k] = 1]
       /\ closes' = [closes EXCEPT ![k] = now + Window]
       /\ UNCHANGED <<limit, now>>
    \/ /\ spent[k] \in 1 .. limit - 1
       /\ spent' = [spent EXCEPT ![k] = @ + 1]
       /\ UNCHANGED <<limit, now, closes>>

\* Time passes, and every window whose time has come closes.
Tick ==
    /\ now < MaxTime
    /\ now' = now + 1
    /\ spent' = [k \in Keys |-> IF closes[k] > now + 1 THEN spent[k] ELSE 0]
    /\ closes' = [k \in Keys |-> IF closes[k] > now + 1 THEN closes[k] ELSE 0]
    /\ UNCHANGED limit

Next == Tick \/ \E k \in Keys : Admit(k)

Spec == Init /\ [][Next]_vars
=============================================================================
