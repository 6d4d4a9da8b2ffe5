--------------------------- MODULE BffEdgeProofs ---------------------------
(***************************************************************************)
(* Proofs about the rate limiter and the public edge built on it, for      *)
(* every set of clients, every limit, window, clock unit and cap on log    *)
(* lines.                                                                  *)
(*                                                                         *)
(* The limiter.  SlidingBudget is not inductive: it compares admissions    *)
(* that lie in three different windows, and the limiter remembers at most  *)
(* one.  The inductive invariant WindowInv ties the table to the history:  *)
(* the last n admissions are those of the table's window, every earlier    *)
(* one belongs to a window that had closed when this one opened, and what  *)
(* the sweep has dropped had closed too.                                   *)
(*                                                                         *)
(* The edge.  Every step of it is a step of the limiter for the origin of  *)
(* a request, or leaves the limiter alone; so what is shown of attributed  *)
(* addresses carries over to origins, through the invariant that each      *)
(* origin's requests are let through exactly when its address is admitted. *)
(***************************************************************************)
EXTENDS BffEdge, TLAPS

-----------------------------------------------------------------------------
(* The rate limiter (RateLimit) *)

\* The history of one client on its own: an admission lies in its window, and
\* admissions limit apart lie in different windows.
HistoryInv(k) ==
    \A i \in DOMAIN admitted[k] :
        /\ admitted[k][i].start <= admitted[k][i].at
        /\ admitted[k][i].at < admitted[k][i].start + Window
        /\ i + limit \in DOMAIN admitted[k] =>
               admitted[k][i].start + Window <= admitted[k][i + limit].start

\* A client in the table: its n latest admissions are those of this window.
TableInv(k) ==
    k \in DOMAIN counts =>
        /\ counts[k].n \in 1 .. limit
        /\ counts[k].n <= Len(admitted[k])
        /\ counts[k].reset >= Window
        /\ counts[k].reset <= now + Window
        /\ \A i \in DOMAIN admitted[k] :
               IF i > Len(admitted[k]) - counts[k].n
               THEN admitted[k][i].start = counts[k].reset - Window
               ELSE admitted[k][i].start + Window <= counts[k].reset - Window

\* A client not in the table: all its windows have closed.
AbsentInv(k) ==
    k \notin DOMAIN counts =>
        \A i \in DOMAIN admitted[k] : admitted[k][i].start + Window <= now

WindowInv == \A k \in Keys : HistoryInv(k) /\ TableInv(k) /\ AbsentInv(k)

IInv == TypeOK /\ WindowInv

-----------------------------------------------------------------------------
\* The constants' assumptions under one name, and the limit's type.
LEMMA LimitIsNat == TypeOK => limit \in Nat
  BY LimitsAssumption DEF TypeOK

\* Retry-After is a whole number of seconds.
LEMMA RetryAfterType ==
  ASSUME NEW r \in Nat
  PROVE  RetryAfterSeconds(r) \in Nat
  <1>1. r \div UnitsPerSecond \in Nat
    BY UnitsAssumption
  <1>2. QED
    BY <1>1 DEF RetryAfterSeconds

\* What the type invariant says of one client's history.
LEMMA HistoryType ==
  ASSUME TypeOK, NEW k \in Keys
  PROVE  /\ admitted[k] \in Seq(Admission)
         /\ Len(admitted[k]) \in Nat
         /\ DOMAIN admitted[k] = 1 .. Len(admitted[k])
         /\ \A i \in DOMAIN admitted[k] :
                admitted[k][i].at \in Nat /\ admitted[k][i].start \in Int
  <1>1. admitted[k] \in Seq(Admission)
    BY DEF TypeOK
  <1>2. \A i \in DOMAIN admitted[k] : admitted[k][i] \in Admission
    BY <1>1
  <1>3. QED
    BY <1>1, <1>2 DEF Admission

\* What the type invariant says of one entry of the table.
LEMMA CounterType ==
  ASSUME TypeOK, NEW k \in DOMAIN counts
  PROVE  counts[k].n \in Nat /\ counts[k].reset \in Nat
  BY DEF TypeOK, Counter

\* A window that is not open has closed, whether it is in the table or not.
LEMMA ClosedWindows ==
  ASSUME IInv, NEW k \in Keys, ~Open(k)
  PROVE  \A i \in DOMAIN admitted[k] : admitted[k][i].start + Window <= now
  <1> SUFFICES ASSUME NEW i \in DOMAIN admitted[k]
               PROVE  admitted[k][i].start + Window <= now
    OBVIOUS
  <1>0. TypeOK /\ TableInv(k) /\ AbsentInv(k) /\ now \in Nat
    BY MaxTimeAssumption DEF IInv, WindowInv, TypeOK
  <1>1. CASE k \notin DOMAIN counts
    BY <1>0, <1>1 DEF AbsentInv
  <1>2. CASE k \in DOMAIN counts
    <2>1. counts[k].reset <= now
      BY <1>0, <1>2, CounterType DEF Open
    <2>2. /\ counts[k].n \in Nat /\ counts[k].reset \in Nat
          /\ admitted[k][i].start \in Int /\ Len(admitted[k]) \in Nat
      BY <1>0, <1>2, HistoryType, CounterType
    <2>3. \/ admitted[k][i].start = counts[k].reset - Window
          \/ admitted[k][i].start + Window <= counts[k].reset - Window
      BY <1>0, <1>2 DEF TableInv
    <2>4. QED
      BY <1>0, <2>1, <2>2, <2>3, WindowAssumption
  <1>3. QED
    BY <1>1, <1>2

\* What admitting an event does to the history.
LEMMA AdmittedHistory ==
  ASSUME TypeOK, NEW k \in Keys, NEW start \in Int, Admitted(k, start)
  PROVE  /\ admitted' \in [Keys -> Seq(Admission)]
         /\ \A x \in Keys \ {k} : admitted'[x] = admitted[x]
         /\ Len(admitted'[k]) = Len(admitted[k]) + 1
         /\ DOMAIN admitted'[k] = DOMAIN admitted[k] \cup {Len(admitted[k]) + 1}
         /\ \A i \in DOMAIN admitted[k] : admitted'[k][i] = admitted[k][i]
         /\ admitted'[k][Len(admitted[k]) + 1] = [at |-> now, start |-> start]
  <1> DEFINE e == [at |-> now, start |-> start]
  <1>1. e \in Admission
    BY MaxTimeAssumption DEF TypeOK, Admission
  <1>2. admitted[k] \in Seq(Admission) /\ Len(admitted[k]) \in Nat
        /\ DOMAIN admitted[k] = 1 .. Len(admitted[k])
    BY HistoryType
  <1>3. admitted'[k] = Append(admitted[k], e)
        /\ \A x \in Keys \ {k} : admitted'[x] = admitted[x]
    BY DEF Admitted, TypeOK
  <1>4. Append(admitted[k], e) \in Seq(Admission)
    BY <1>1, <1>2
  <1>5. admitted' \in [Keys -> Seq(Admission)]
    BY <1>4 DEF Admitted, TypeOK
  <1>6. QED
    BY <1>1, <1>2, <1>3, <1>5

-----------------------------------------------------------------------------
\* Type correctness is preserved by every step.
LEMMA TypePreserved == TypeOK /\ [Next]_vars => TypeOK'
  <1> SUFFICES ASSUME TypeOK, [Next]_vars
               PROVE  TypeOK'
    OBVIOUS
  <1> USE WindowAssumption, MaxTimeAssumption
  <1>1. ASSUME NEW k \in Keys, AllowDisabled(k)
        PROVE  TypeOK'
    BY <1>1 DEF AllowDisabled, TypeOK, Reply, NoReply, Counter
  <1>2. ASSUME NEW k \in Keys, AllowNewWindow(k)
        PROVE  TypeOK'
    <2>1. now \in Int /\ Admitted(k, now)
      BY <1>2 DEF AllowNewWindow, TypeOK
    <2>2. admitted' \in [Keys -> Seq(Admission)]
      BY <2>1, AdmittedHistory
    <2>3. QED
      BY <1>2, <2>2 DEF AllowNewWindow, SetCounter, Admitted, TypeOK, Reply, Counter
  <1>3. ASSUME NEW k \in Keys, AllowWithinBudget(k)
        PROVE  TypeOK'
    <2>1. k \in DOMAIN counts /\ counts[k] \in Counter
      BY <1>3 DEF AllowWithinBudget, Open, TypeOK
    <2>2. counts[k].reset - Window \in Int /\ Admitted(k, counts[k].reset - Window)
      BY <1>3, <2>1 DEF AllowWithinBudget, Counter
    <2>3. admitted' \in [Keys -> Seq(Admission)]
      BY <2>2, AdmittedHistory
    <2>4. [counts[k] EXCEPT !.n = @ + 1] \in Counter
      BY <2>1 DEF Counter
    <2>5. DOMAIN counts' \subseteq Keys /\ counts' \in [DOMAIN counts' -> Counter]
      BY <1>3, <2>1, <2>4 DEF AllowWithinBudget, SetCounter, TypeOK
    <2>6. QED
      BY <1>3, <2>3, <2>5 DEF AllowWithinBudget, Admitted, TypeOK, Reply
  <1>4. ASSUME NEW k \in Keys, AllowRejected(k)
        PROVE  TypeOK'
    BY <1>4, RetryAfterType DEF AllowRejected, Open, TypeOK, Reply, Counter
  <1>5. CASE sweep
    BY <1>5 DEF sweep, Restrict, Open, TypeOK, Counter
  <1>6. CASE Tick
    BY <1>6 DEF Tick, TypeOK
  <1>7. CASE UNCHANGED vars
    BY <1>7 DEF vars, TypeOK
  <1>8. QED
    BY <1>1, <1>2, <1>3, <1>4, <1>5, <1>6, <1>7 DEF Next, allow

-----------------------------------------------------------------------------
\* The window invariant is preserved by every step: one step per action.
LEMMA WindowPreserved == IInv /\ [Next]_vars => WindowInv'
  <1> SUFFICES ASSUME IInv, [Next]_vars, NEW k \in Keys
               PROVE  HistoryInv(k)' /\ TableInv(k)' /\ AbsentInv(k)'
    BY DEF WindowInv
  <1> USE WindowAssumption
  <1>0. /\ TypeOK /\ TypeOK' /\ now \in Nat /\ limit \in Nat
        /\ HistoryInv(k) /\ TableInv(k) /\ AbsentInv(k)
    BY TypePreserved, MaxTimeAssumption, LimitIsNat DEF IInv, WindowInv, TypeOK
  \* Steps that leave k's entry, k's history and the clock alone.
  <1>1. ASSUME UNCHANGED <<limit, now>>, admitted'[k] = admitted[k],
               k \in DOMAIN counts <=> k \in DOMAIN counts',
               k \in DOMAIN counts => counts'[k] = counts[k]
        PROVE  HistoryInv(k)' /\ TableInv(k)' /\ AbsentInv(k)'
    BY <1>0, <1>1 DEF HistoryInv, TableInv, AbsentInv
  <1>2. ASSUME NEW x \in Keys, AllowDisabled(x) \/ AllowRejected(x)
        PROVE  HistoryInv(k)' /\ TableInv(k)' /\ AbsentInv(k)'
    BY <1>1, <1>2 DEF AllowDisabled, AllowRejected
  <1>3. ASSUME NEW x \in Keys \ {k}, AllowNewWindow(x) \/ AllowWithinBudget(x)
        PROVE  HistoryInv(k)' /\ TableInv(k)' /\ AbsentInv(k)'
    <2>1. admitted'[k] = admitted[k] /\ UNCHANGED <<limit, now>>
      BY <1>0, <1>3 DEF AllowNewWindow, AllowWithinBudget, Admitted, TypeOK
    <2>2. /\ k \in DOMAIN counts <=> k \in DOMAIN counts'
          /\ k \in DOMAIN counts => counts'[k] = counts[k]
      BY <1>3 DEF AllowNewWindow, AllowWithinBudget, SetCounter
    <2>3. QED
      BY <1>1, <2>1, <2>2
  <1>4. CASE AllowNewWindow(k)
    <2>1. /\ limit' = limit /\ now' = now /\ limit > 0 /\ ~Open(k)
          /\ Admitted(k, now) /\ now \in Int
          /\ k \in DOMAIN counts' /\ counts'[k] = [n |-> 1, reset |-> now + Window]
      BY <1>0, <1>4 DEF AllowNewWindow, SetCounter
    <2>2. \A i \in DOMAIN admitted[k] : admitted[k][i].start + Window <= now
      BY <2>1, ClosedWindows
    <2>3. /\ Len(admitted'[k]) = Len(admitted[k]) + 1
          /\ DOMAIN admitted'[k] = DOMAIN admitted[k] \cup {Len(admitted[k]) + 1}
          /\ \A i \in DOMAIN admitted[k] : admitted'[k][i] = admitted[k][i]
          /\ admitted'[k][Len(admitted[k]) + 1] = [at |-> now, start |-> now]
      BY <1>0, <2>1, AdmittedHistory
    <2>4. HistoryInv(k)'
      <3> SUFFICES ASSUME NEW i \in DOMAIN admitted'[k]
                   PROVE  /\ admitted'[k][i].start <= admitted'[k][i].at
                          /\ admitted'[k][i].at < admitted'[k][i].start + Window
                          /\ i + limit \in DOMAIN admitted'[k] =>
                                 admitted'[k][i].start + Window <= admitted'[k][i + limit].start
        BY <2>1 DEF HistoryInv
      <3>1. CASE i = Len(admitted[k]) + 1
        <4>1. admitted'[k][i].at = now /\ admitted'[k][i].start = now
          BY <2>3, <3>1
        <4>2. i + limit \notin DOMAIN admitted'[k]
          BY <1>0, <2>1, <2>3, <3>1, HistoryType, SMTT(30)
        <4>3. QED
          BY <2>1, <4>1, <4>2, WindowAssumption
      <3>2. CASE i \in DOMAIN admitted[k] /\ i + limit \in DOMAIN admitted[k]
        BY <1>0, <2>3, <3>2 DEF HistoryInv
      <3>3. CASE i \in DOMAIN admitted[k] /\ i + limit \notin DOMAIN admitted[k]
        BY <1>0, <2>2, <2>3, <3>3 DEF HistoryInv
      <3>4. QED
        BY <2>3, <3>1, <3>2, <3>3
    <2>5. TableInv(k)'
      BY <1>0, <2>1, <2>2, <2>3, HistoryType DEF TableInv
    <2>6. QED
      BY <2>1, <2>4, <2>5 DEF AbsentInv
  <1>5. CASE AllowWithinBudget(k)
    <2> DEFINE start == counts[k].reset - Window
               L == Len(admitted[k])
    <2>1. /\ k \in DOMAIN counts /\ now < counts[k].reset
          /\ counts[k].n < limit /\ counts[k].n \in Nat /\ counts[k].reset \in Nat
          /\ start \in Int /\ Admitted(k, start)
          /\ limit' = limit /\ now' = now
      BY <1>0, <1>5, CounterType DEF AllowWithinBudget, Open
    <2>2. /\ k \in DOMAIN counts'
          /\ counts'[k] = [n |-> counts[k].n + 1, reset |-> counts[k].reset]
      BY <1>0, <1>5, <2>1 DEF AllowWithinBudget, SetCounter, TypeOK, Counter
    <2>3. /\ Len(admitted'[k]) = L + 1
          /\ DOMAIN admitted'[k] = DOMAIN admitted[k] \cup {L + 1}
          /\ \A i \in DOMAIN admitted[k] : admitted'[k][i] = admitted[k][i]
          /\ admitted'[k][L + 1] = [at |-> now, start |-> start]
      BY <1>0, <2>1, AdmittedHistory
    <2>4. L \in Nat /\ DOMAIN admitted[k] = 1 .. L /\ counts[k].reset <= now + Window
          /\ counts[k].n \in 1 .. L
          /\ \A i \in DOMAIN admitted[k] :
                 admitted[k][i].at \in Nat /\ admitted[k][i].start \in Int
      BY <1>0, <2>1, HistoryType DEF TableInv
    \* an admission that is not of this window closed before it opened
    <2>5. \A i \in DOMAIN admitted[k] :
             i + limit = L + 1 => admitted[k][i].start + Window <= start
      BY <1>0, <2>1, <2>4 DEF TableInv
    <2>6. HistoryInv(k)'
      <3> SUFFICES ASSUME NEW i \in DOMAIN admitted'[k]
                   PROVE  /\ admitted'[k][i].start <= admitted'[k][i].at
                          /\ admitted'[k][i].at < admitted'[k][i].start + Window
                          /\ i + limit \in DOMAIN admitted'[k] =>
                                 admitted'[k][i].start + Window <= admitted'[k][i + limit].start
        BY <2>1 DEF HistoryInv
      <3>1. CASE i = L + 1
        <4>1. admitted'[k][i].at = now /\ admitted'[k][i].start = start
          BY <2>3, <3>1
        <4>2. i + limit \notin DOMAIN admitted'[k]
          BY <1>0, <2>1, <2>3, <2>4, <3>1
        <4>3. start <= now /\ now < start + Window
          BY <1>0, <2>1, <2>4
        <4>4. QED
          BY <4>1, <4>2, <4>3
      <3>2. CASE i \in DOMAIN admitted[k] /\ i + limit \in DOMAIN admitted[k]
        BY <1>0, <2>3, <3>2 DEF HistoryInv
      <3>3. CASE i \in DOMAIN admitted[k] /\ i + limit \notin DOMAIN admitted[k]
        BY <1>0, <2>3, <2>5, <3>3 DEF HistoryInv
      <3>4. QED
        BY <2>3, <3>1, <3>2, <3>3
    <2>7. TableInv(k)'
      <3>1. counts'[k].n = counts[k].n + 1 /\ counts'[k].reset = counts[k].reset
        BY <2>2
      <3>2. Len(admitted'[k]) - counts'[k].n = L - counts[k].n
        <4>1. Len(admitted'[k]) = L + 1
          BY <2>3
        <4>2. L \in Nat /\ counts[k].n \in Nat
          BY <2>1, <2>4
        <4>3. (L + 1) - (counts[k].n + 1) = L - counts[k].n
          BY <4>2
        <4>4. QED
          BY <3>1, <4>1, <4>3
      <3>3. /\ counts'[k].n \in 1 .. limit' /\ counts'[k].n <= Len(admitted'[k])
            /\ counts'[k].reset >= Window /\ counts'[k].reset <= now' + Window
        <4>1. Len(admitted'[k]) = L + 1
          BY <2>3
        <4>2. /\ counts[k].n \in Nat /\ limit \in Nat /\ counts[k].n < limit
              /\ counts[k].reset >= Window /\ limit' = limit /\ now' = now
          BY <1>0, <2>1 DEF TableInv
        <4>3. L \in Nat /\ counts[k].n <= L /\ counts[k].reset <= now + Window
          BY <2>4
        <4>4. counts'[k].n \in 1 .. limit' /\ counts'[k].n <= Len(admitted'[k])
          BY <3>1, <4>1, <4>2, <4>3
        <4>5. counts'[k].reset >= Window /\ counts'[k].reset <= now' + Window
          BY <3>1, <4>2, <4>3
        <4>6. QED
          BY <4>4, <4>5
      <3>4. ASSUME NEW i \in DOMAIN admitted'[k]
            PROVE  IF i > Len(admitted'[k]) - counts'[k].n
                   THEN admitted'[k][i].start = counts'[k].reset - Window
                   ELSE admitted'[k][i].start + Window <= counts'[k].reset - Window
        <4>1. CASE i = L + 1
          BY <2>1, <2>3, <2>4, <3>1, <3>2, <4>1
        <4>2. CASE i \in DOMAIN admitted[k]
          <5>1. admitted'[k][i] = admitted[k][i]
            BY <2>3, <4>2
          <5>2. QED
            BY <1>0, <2>1, <3>1, <3>2, <4>2, <5>1 DEF TableInv
        <4>3. QED
          BY <2>3, <4>1, <4>2
      <3>5. QED
        BY <2>2, <3>3, <3>4 DEF TableInv
    <2>8. QED
      BY <2>2, <2>6, <2>7 DEF AbsentInv
  <1>6. CASE sweep
    <2>1. /\ limit' = limit /\ now' = now /\ admitted' = admitted
          /\ k \in DOMAIN counts' <=> Open(k)
          /\ Open(k) => counts'[k] = counts[k]
      BY <1>6 DEF sweep, Restrict, Open
    <2>2. HistoryInv(k)'
      BY <1>0, <2>1 DEF HistoryInv
    <2>3. TableInv(k)'
      BY <1>0, <2>1 DEF TableInv, Open
    <2>4. AbsentInv(k)'
      BY <2>1, ClosedWindows DEF AbsentInv
    <2>5. QED
      BY <2>2, <2>3, <2>4
  <1>7. CASE Tick
    <2>1. now' = now + 1 /\ UNCHANGED <<limit, counts, reply, admitted>>
      BY <1>7 DEF Tick
    <2>2. HistoryInv(k)'
      BY <1>0, <2>1 DEF HistoryInv
    <2>3. TableInv(k)'
      BY <1>0, <2>1, CounterType DEF TableInv
    <2>4. AbsentInv(k)'
      BY <1>0, <2>1, HistoryType DEF AbsentInv
    <2>5. QED
      BY <2>2, <2>3, <2>4
  <1>8. CASE UNCHANGED vars
    BY <1>1, <1>8 DEF vars
  <1>9. QED
    BY <1>2, <1>3, <1>4, <1>5, <1>6, <1>7, <1>8 DEF Next, allow

-----------------------------------------------------------------------------
\* The limiter's state has its type at all times: the table holds only clients,
\* each counter is well formed, and an answer is a 200 or a 429 with its header.
THEOREM TypeCorrect == Spec => []TypeOK
  <1>1. Init => TypeOK
    BY MaxTimeAssumption DEF Init, TypeOK
  <1>2. QED
    BY <1>1, TypePreserved, PTL DEF Spec

\* The inductive invariant holds throughout.
THEOREM Inductive == Spec => []IInv
  <1>1. Init => IInv
    BY MaxTimeAssumption DEF Init, IInv, TypeOK, WindowInv, HistoryInv, TableInv, AbsentInv
  <1>2. IInv /\ [Next]_vars => IInv'
    BY TypePreserved, WindowPreserved DEF IInv
  <1>3. QED
    BY <1>1, <1>2, PTL DEF Spec

\* allow (bff/ratelimit.go) never lets more than twice the budget through within
\* one window's length, whatever the timing of the requests and of the sweeps.
THEOREM AtMostTwiceTheBudget == Spec => []SlidingBudget
  <1>1. IInv => SlidingBudget
    <2> SUFFICES ASSUME IInv, limit > 0, NEW k \in Keys, NEW i \in DOMAIN admitted[k],
                        i + 2 * limit \in DOMAIN admitted[k]
                 PROVE  admitted[k][i + 2 * limit].at > admitted[k][i].at + Window
      BY DEF SlidingBudget
    <2>1. limit \in Nat /\ TypeOK /\ HistoryInv(k)
      BY LimitIsNat DEF IInv, WindowInv
    <2>2. i \in Nat /\ i + limit \in DOMAIN admitted[k] /\ (i + limit) + limit = i + 2 * limit
      BY <2>1, HistoryType
    <2>3. admitted[k][i].start + Window <= admitted[k][i + limit].start
      BY <2>1, <2>2 DEF HistoryInv
    <2>4. admitted[k][i + limit].start + Window <= admitted[k][i + 2 * limit].start
      BY <2>1, <2>2 DEF HistoryInv
    <2>5. admitted[k][i].at < admitted[k][i].start + Window
          /\ admitted[k][i + 2 * limit].start <= admitted[k][i + 2 * limit].at
      BY <2>1 DEF HistoryInv
    <2>6. /\ admitted[k][i].at \in Nat /\ admitted[k][i].start \in Int
          /\ admitted[k][i + limit].start \in Int
          /\ admitted[k][i + 2 * limit].at \in Nat /\ admitted[k][i + 2 * limit].start \in Int
      BY <2>1, <2>2, HistoryType
    <2>7. QED
      BY <2>3, <2>4, <2>5, <2>6, WindowAssumption
  <1>2. QED
    BY <1>1, Inductive, PTL

\* allow never turns a client away that has not spent its whole budget within the
\* window's length that ends with the rejection: no other client's requests, no
\* sweep and no rollover can use a client's budget up.
THEOREM NoUnearnedRejection == Spec => RejectionsAreEarned
  <1> DEFINE Earned ==
        reply'.status = 429 /\ reply' # reply =>
          LET a == admitted[reply'.key] IN
          /\ Len(a) >= limit
          /\ a[Len(a) - limit + 1].at > now - Window
  <1>1. IInv /\ [Next]_vars => [Earned]_vars
    <2> SUFFICES ASSUME IInv, [Next]_vars, reply'.status = 429, reply' # reply
                 PROVE  Earned
      OBVIOUS
    <2>1. PICK k \in Keys : AllowRejected(k)
      <3>1. ~(sweep \/ Tick \/ UNCHANGED vars)
        BY DEF sweep, Tick, vars
      <3>2. \A k \in Keys : ~(AllowDisabled(k) \/ AllowNewWindow(k) \/ AllowWithinBudget(k))
        BY DEF AllowDisabled, AllowNewWindow, AllowWithinBudget, Admitted
      <3>3. QED
        BY <3>1, <3>2 DEF Next, allow
    <2> DEFINE L == Len(admitted[k])
    <2>2. reply'.key = k
      BY <2>1 DEF AllowRejected
    <2>3. /\ TypeOK /\ limit \in Nat /\ now \in Nat /\ limit > 0 /\ Open(k)
          /\ k \in DOMAIN counts /\ counts[k].n \in Nat /\ counts[k].reset \in Nat
          /\ counts[k].n >= limit /\ HistoryInv(k) /\ TableInv(k)
      BY <2>1, LimitIsNat, CounterType, MaxTimeAssumption
         DEF AllowRejected, Open, IInv, WindowInv, TypeOK
    <2>4. counts[k].n = limit /\ L >= limit /\ L - limit + 1 \in DOMAIN admitted[k]
      BY <2>3, HistoryType DEF TableInv
    <2>5. L - limit + 1 > L - counts[k].n
      BY <2>3, <2>4, HistoryType
    <2>6. admitted[k][L - limit + 1].start = counts[k].reset - Window
      BY <2>3, <2>4, <2>5 DEF TableInv
    <2>7. admitted[k][L - limit + 1].at >= counts[k].reset - Window
      BY <2>3, <2>4, <2>6, HistoryType, WindowAssumption DEF HistoryInv
    <2>8. admitted[k][L - limit + 1].at > now - Window
      BY <2>3, <2>4, <2>7, HistoryType, WindowAssumption DEF Open
    <2>9. QED
      BY <2>2, <2>4, <2>8
  <1>2. QED
    BY <1>1, Inductive, PTL DEF Spec, RejectionsAreEarned

-----------------------------------------------------------------------------
\* Dividing by the clock units of a second leaves less than one second.
LEMMA WholeSeconds ==
  ASSUME NEW r \in Nat
  PROVE  /\ (r \div UnitsPerSecond) \in Nat
         /\ (r \div UnitsPerSecond) * UnitsPerSecond <= r
         /\ ((r \div UnitsPerSecond) + 1) * UnitsPerSecond > r
  <1> DEFINE U == UnitsPerSecond
             q == r \div U
  <1>1. U \in Nat /\ U > 0
    BY UnitsAssumption
  <1>2. q \in Nat /\ r = U * q + (r % U) /\ r % U \in Nat /\ r % U < U
    BY <1>1
  <1>3. U * q = q * U /\ (q + 1) * U = q * U + U /\ q * U \in Nat
    BY <1>1, <1>2
  <1>4. q * U <= r /\ (q + 1) * U > r
    BY <1>1, <1>2, <1>3
  <1>5. QED
    BY <1>2, <1>4

\* A 429 tells a time within the window, in seconds.
RetryInv ==
    reply.status = 429 =>
        /\ reply.retry \in 1 .. Window
        /\ reply.retryAfter = RetryAfterSeconds(reply.retry)

\* rateLimited (bff/ratelimit.go) never names a Retry-After later than the rollover, but for
\* the smallest answer of one second, and one second more is always enough.
THEOREM RetryAfterRight == Spec => []RetryAfterTracksRollover
  <1>1. Init => RetryInv
    BY DEF Init, RetryInv, NoReply
  <1>2. IInv /\ RetryInv /\ [Next]_vars => RetryInv'
    <2> SUFFICES ASSUME IInv, RetryInv, [Next]_vars
                 PROVE  RetryInv'
      OBVIOUS
    <2>1. ASSUME NEW k \in Keys, AllowRejected(k)
          PROVE  RetryInv'
      <3> DEFINE retry == counts[k].reset - now
      <3>1. /\ TypeOK /\ TableInv(k) /\ k \in DOMAIN counts /\ now < counts[k].reset
            /\ now \in Nat /\ counts[k].reset \in Nat
        BY <2>1, CounterType, MaxTimeAssumption DEF IInv, WindowInv, AllowRejected, Open, TypeOK
      <3>2. retry \in 1 .. Window
        BY <3>1, WindowAssumption DEF TableInv
      <3>3. reply'.retry = retry /\ reply'.retryAfter = RetryAfterSeconds(retry)
        BY <2>1 DEF AllowRejected
      <3>4. QED
        BY <3>2, <3>3 DEF RetryInv
    <2>2. ASSUME NEW k \in Keys, AllowDisabled(k) \/ AllowNewWindow(k) \/ AllowWithinBudget(k)
          PROVE  RetryInv'
      <3>1. reply'.status = 200
        BY <2>2 DEF AllowDisabled, AllowNewWindow, AllowWithinBudget, Admitted
      <3>2. QED
        BY <3>1 DEF RetryInv
    <2>3. CASE sweep \/ Tick \/ UNCHANGED vars
      BY <2>3 DEF sweep, Tick, vars, RetryInv
    <2>4. QED
      BY <2>1, <2>2, <2>3 DEF Next, allow
  <1>3. RetryInv => RetryAfterTracksRollover
    <2> SUFFICES ASSUME RetryInv, reply.status = 429
                 PROVE  /\ reply.retryAfter >= 1
                        /\ reply.retryAfter = 1 \/ reply.retryAfter * UnitsPerSecond <= reply.retry
                        /\ (reply.retryAfter + 1) * UnitsPerSecond > reply.retry
                        /\ reply.retry <= Window
      BY DEF RetryAfterTracksRollover
    <2> DEFINE q == reply.retry \div UnitsPerSecond
    <2>1. reply.retry \in Nat /\ reply.retry <= Window
      BY WindowAssumption DEF RetryInv
    <2>2. /\ q \in Nat /\ q * UnitsPerSecond <= reply.retry
          /\ (q + 1) * UnitsPerSecond > reply.retry
      BY <2>1, WholeSeconds
    <2>3. CASE q < 1
      <3>1. reply.retryAfter = 1
        BY <2>3 DEF RetryInv, RetryAfterSeconds
      <3>2. q = 0
        BY <2>2, <2>3
      <3>3. UnitsPerSecond > reply.retry
        <4> HIDE DEF q
        <4>1. (q + 1) * UnitsPerSecond = UnitsPerSecond
          BY <3>2, UnitsAssumption
        <4>2. QED
          BY <2>2, <4>1
      <3>4. (1 + 1) * UnitsPerSecond > reply.retry
        BY <2>1, <3>3, UnitsAssumption
      <3>5. QED
        BY <2>1, <3>1, <3>4
    <2>4. CASE ~(q < 1)
      <3>1. reply.retryAfter = q /\ q >= 1
        BY <2>2, <2>4 DEF RetryInv, RetryAfterSeconds
      <3>2. QED
        BY <2>1, <2>2, <3>1
    <2>5. QED
      BY <2>3, <2>4
  <1>4. QED
    BY <1>1, <1>2, <1>3, Inductive, PTL DEF Spec

-----------------------------------------------------------------------------
\* rateLimiter implements the fixed-window promise: the table, what the sweep drops from it
\* and how long it remembers a window that has rolled over cannot be told from outside.
THEOREM FixedWindowImplemented == Spec => ImplementsFixedWindow
  <1> USE WindowAssumption
  <1>1. Init => Promise!Init
    BY LimitsAssumption DEF Init, Promise!Init, Open
  <1>2. IInv /\ [Next]_vars => [Promise!Next]_(Promise!vars)
    <2> SUFFICES ASSUME IInv, [Next]_vars
                 PROVE  Promise!Next \/ UNCHANGED Promise!vars
      OBVIOUS
    <2> DEFINE spent == [k \in Keys |-> IF Open(k) THEN counts[k].n ELSE 0]
               closes == [k \in Keys |-> IF Open(k) THEN counts[k].reset ELSE 0]
    <2>0. /\ TypeOK /\ now \in Nat /\ limit \in Nat
          /\ \A k \in DOMAIN counts : /\ k \in Keys /\ counts[k].n \in 1 .. limit
                                      /\ counts[k].reset \in Nat
      BY LimitIsNat, CounterType, MaxTimeAssumption DEF IInv, WindowInv, TableInv, TypeOK
    <2>1. ASSUME NEW k \in Keys, AllowDisabled(k) \/ AllowRejected(k)
          PROVE  UNCHANGED Promise!vars
      BY <2>1 DEF AllowDisabled, AllowRejected, Promise!vars, Open
    <2>2. ASSUME NEW k \in Keys, AllowNewWindow(k)
          PROVE  Promise!Next
      <3>1. /\ Open(k)' /\ counts'[k] = [n |-> 1, reset |-> now + Window] /\ ~Open(k)
            /\ UNCHANGED <<limit, now>> /\ limit > 0
        BY <2>0, <2>2 DEF AllowNewWindow, SetCounter, Open
      <3>2. \A x \in Keys \ {k} : /\ Open(x)' <=> Open(x)
                                  /\ Open(x) => counts'[x] = counts[x]
        BY <2>2 DEF AllowNewWindow, SetCounter, Open
      <3>3. spent' = [spent EXCEPT ![k] = 1] /\ closes' = [closes EXCEPT ![k] = now + Window]
        <4>1. \A x \in Keys : /\ spent'[x] = IF x = k THEN 1 ELSE spent[x]
                             /\ closes'[x] = IF x = k THEN now + Window ELSE closes[x]
          BY <3>1, <3>2
        <4>2. QED
          BY <4>1
      <3>4. spent[k] = 0
        BY <3>1
      <3>5. QED
        BY <3>1, <3>3, <3>4 DEF Promise!Next, Promise!Admit
    <2>3. ASSUME NEW k \in Keys, AllowWithinBudget(k)
          PROVE  Promise!Next
      <3>1. /\ Open(k) /\ Open(k)' /\ UNCHANGED <<limit, now>>
            /\ counts'[k] = [n |-> counts[k].n + 1, reset |-> counts[k].reset]
            /\ counts[k].n < limit
        BY <2>0, <2>3 DEF AllowWithinBudget, SetCounter, Open, TypeOK, Counter
      <3>2. \A x \in Keys \ {k} : /\ Open(x)' <=> Open(x)
                                  /\ Open(x) => counts'[x] = counts[x]
        BY <2>3 DEF AllowWithinBudget, SetCounter, Open
      <3>3. spent' = [spent EXCEPT ![k] = @ + 1] /\ closes' = closes
        <4>1. \A x \in Keys : /\ spent'[x] = IF x = k THEN spent[x] + 1 ELSE spent[x]
                             /\ closes'[x] = closes[x]
          BY <3>1, <3>2
        <4>2. QED
          BY <4>1
      <3>4. spent[k] \in 1 .. limit - 1
        BY <2>0, <3>1 DEF Open
      <3>5. QED
        BY <3>1, <3>3, <3>4 DEF Promise!Next, Promise!Admit
    <2>4. CASE sweep
      <3>1. /\ UNCHANGED <<limit, now>>
            /\ \A k \in Keys : (Open(k)' <=> Open(k)) /\ (Open(k) => counts'[k] = counts[k])
        BY <2>0, <2>4 DEF sweep, Restrict, Open
      <3>2. spent' = spent /\ closes' = closes
        BY <3>1
      <3>3. QED
        BY <3>1, <3>2 DEF Promise!vars
    <2>5. CASE Tick
      <3>1. now < MaxTime /\ now' = now + 1 /\ UNCHANGED <<limit, counts>>
        BY <2>5 DEF Tick
      <3>2. \A k \in Keys : closes[k] > now + 1 <=> Open(k)'
        BY <2>0, <3>1 DEF Open
      <3>3. \A k \in Keys : Open(k)' => Open(k)
        BY <2>0, <3>1 DEF Open
      <3>4. /\ spent' = [k \in Keys |-> IF closes[k] > now + 1 THEN spent[k] ELSE 0]
            /\ closes' = [k \in Keys |-> IF closes[k] > now + 1 THEN closes[k] ELSE 0]
        BY <3>1, <3>2, <3>3
      <3>5. QED
        BY <3>1, <3>4 DEF Promise!Next, Promise!Tick
    <2>6. CASE UNCHANGED vars
      BY <2>6 DEF vars, Promise!vars, Open
    <2>7. QED
      BY <2>1, <2>2, <2>3, <2>4, <2>5, <2>6 DEF Next, allow
  <1>3. QED
    BY <1>1, <1>2, Inductive, PTL DEF Spec, ImplementsFixedWindow, Promise!Spec

-----------------------------------------------------------------------------
(* The public edge (BffEdge) *)

\* Each origin was let through when its address was admitted.
GrantedInv ==
    limit > 0 => \A o \in Keys :
        /\ DOMAIN granted[o] = DOMAIN admitted[o]
        /\ \A i \in DOMAIN granted[o] : granted[o][i] = admitted[o][i].at

\* The lines of one report at most.
Cap == MaxLogged + 1

\* The lines of an open window: a report's for each event charged to it.
LinesInv ==
    \A o \in Keys :
        /\ lines[o] <= limit * Cap
        /\ Open(o) => lines[o] <= counts[o].n * Cap
        /\ route # "csp-report" => lines[o] = 0

\* The handlers that write no log line.
Quiet(a) == handleLogin(a) \/ handleElevate(a) \/ handlePublicIssuerPost(a)

EdgeInv == IInv /\ EdgeTypeOK /\ GrantedInv /\ LinesInv

-----------------------------------------------------------------------------
\* clientIP (bff/ratelimit.go) finds the origin of every request that can arrive.
THEOREM OriginFound ==
  ASSUME NEW a \in Arrivals
  PROVE  clientIP(a) = a.origin /\ a.origin \in Keys
  BY EdgeAssumption DEF Arrivals, clientIP

\* Every step of the edge is a step of the limiter, for the origin of a request.
LEMMA EdgeStep ==
  ASSUME EdgeNext
  PROVE  \/ NotServed
         \/ \E a \in Arrivals :
               /\ a.origin \in Keys /\ clientIP(a) = a.origin /\ allow(a.origin)
               /\ TooManyRequests(a) \/ Quiet(a)
                    \/ \E violations \in Violations : handleCSPReport(a, violations)
         \/ (sweep \/ Tick) /\ UNCHANGED <<route, outcome, granted, lines>>
  BY OriginFound
     DEF EdgeNext, TooManyRequests, Quiet, handleLogin, handleElevate, handlePublicIssuerPost,
         handleCSPReport, Passed

\* The edge refines the limiter.
LEMMA LimiterStep == [EdgeNext]_edgeVars => [Next]_vars
  BY EdgeStep DEF NotServed, edgeVars, Next

LEMMA LimiterSpec == EdgeSpec => Spec
  <1>1. EdgeInit => Init
    BY DEF EdgeInit
  <1>2. QED
    BY <1>1, LimiterStep, PTL DEF EdgeSpec, Spec

\* An origin is let through exactly when an event of its address is admitted.
LEMMA PassedStep ==
  ASSUME EdgeInv, NEW a \in Arrivals, Passed(a), limit > 0
  PROVE  LET k == a.origin IN
         /\ k \in Keys /\ UNCHANGED <<limit, now>>
         /\ granted' = [granted EXCEPT ![k] = Append(@, now)]
         /\ AllowNewWindow(k) \/ AllowWithinBudget(k)
         /\ \E start \in Int : Admitted(k, start)
  <1> DEFINE k == a.origin
  <1>1. k \in Keys /\ allow(k) /\ reply'.status = 200
        /\ granted' = [granted EXCEPT ![k] = Append(@, now)]
    BY OriginFound DEF Passed
  <1>2. TypeOK /\ now \in Nat
    BY MaxTimeAssumption DEF EdgeInv, IInv, TypeOK
  <1>3. AllowNewWindow(k) \/ AllowWithinBudget(k)
    BY <1>1 DEF allow, AllowDisabled, AllowRejected
  <1>4. \E start \in Int : Admitted(k, start)
    <2>1. CASE AllowNewWindow(k)
      BY <1>2, <2>1 DEF AllowNewWindow
    <2>2. CASE AllowWithinBudget(k)
      BY <1>2, <2>2, CounterType, WindowAssumption DEF AllowWithinBudget, Open
    <2>3. QED
      BY <1>3, <2>1, <2>2
  <1>5. UNCHANGED <<limit, now>>
    BY <1>3 DEF AllowNewWindow, AllowWithinBudget
  <1>6. QED
    BY <1>1, <1>3, <1>4, <1>5

-----------------------------------------------------------------------------
\* Intervals from 1 are equal only when they end alike.
LEMMA SameLength ==
  ASSUME NEW m \in Nat, NEW n \in Nat, 1 .. m = 1 .. n
  PROVE  m = n
  <1>1. CASE m < n
    <2>1. n \in 1 .. n /\ n \notin 1 .. m
      BY <1>1
    <2>2. QED
      BY <2>1
  <1>2. CASE n < m
    <2>1. m \in 1 .. m /\ m \notin 1 .. n
      BY <1>2
    <2>2. QED
      BY <2>1
  <1>3. QED
    BY <1>1, <1>2

\* Appending a time to a history keeps its type.
LEMMA GrantedType ==
  ASSUME granted \in [Keys -> Seq(Nat)], NEW k \in Keys, NEW t \in Nat
  PROVE  [granted EXCEPT ![k] = Append(@, t)] \in [Keys -> Seq(Nat)]
  <1>1. Append(granted[k], t) \in Seq(Nat)
    OBVIOUS
  <1>2. QED
    BY <1>1

\* The lines of a report are a number within the cap.
LEMMA LoggedWithinCap ==
  ASSUME NEW violations \in Violations
  PROVE  Logged(violations) \in Nat /\ Logged(violations) <= Cap
  BY EdgeAssumption DEF Logged, Cap

LEMMA EdgeTypePreserved == EdgeInv /\ [EdgeNext]_edgeVars => EdgeTypeOK'
  <1> SUFFICES ASSUME EdgeInv, [EdgeNext]_edgeVars
               PROVE  EdgeTypeOK'
    OBVIOUS
  <1>0. /\ TypeOK' /\ now \in Nat /\ granted \in [Keys -> Seq(Nat)] /\ lines \in [Keys -> Nat]
        /\ route \in Routes
        /\ outcome \in [origin : Keys \cup {NoHeader}, client : Keys \cup {NoHeader},
                        status : {0, 200, 429}]
    BY LimiterStep, TypePreserved, MaxTimeAssumption DEF EdgeInv, EdgeTypeOK, IInv, TypeOK
  <1>1. ASSUME NEW a \in Arrivals, Passed(a)
        PROVE  granted' \in [Keys -> Seq(Nat)]
    BY <1>0, <1>1, OriginFound, GrantedType DEF Passed
  <1>2. ASSUME NEW a \in Arrivals, TooManyRequests(a)
        PROVE  EdgeTypeOK'
    BY <1>0, <1>2, OriginFound DEF TooManyRequests, Outcome, EdgeTypeOK
  <1>3. ASSUME NEW a \in Arrivals, Quiet(a)
        PROVE  EdgeTypeOK'
    <2>1. granted' \in [Keys -> Seq(Nat)]
      BY <1>1, <1>3 DEF Quiet, handleLogin, handleElevate, handlePublicIssuerPost
    <2>2. outcome' \in {NoOutcome, Outcome(a, 200, a.origin)} /\ UNCHANGED <<route, lines>>
      BY <1>3, OriginFound DEF Quiet, handleLogin, handleElevate, handlePublicIssuerPost,
                               attributedProxy, withClientAttribution
    <2>3. QED
      BY <1>0, <2>1, <2>2, OriginFound DEF NoOutcome, Outcome, EdgeTypeOK
  <1>4. ASSUME NEW a \in Arrivals, NEW violations \in Violations, handleCSPReport(a, violations)
        PROVE  EdgeTypeOK'
    <2>1. granted' \in [Keys -> Seq(Nat)]
      BY <1>1, <1>4 DEF handleCSPReport
    <2>2. lines' \in [Keys -> Nat]
      BY <1>0, <1>4, OriginFound, LoggedWithinCap DEF handleCSPReport
    <2>3. QED
      BY <1>0, <1>4, <2>1, <2>2 DEF handleCSPReport, NoOutcome, EdgeTypeOK
  <1>5. CASE NotServed
    BY <1>0, <1>5 DEF NotServed, NoOutcome, EdgeTypeOK
  <1>6. CASE UNCHANGED <<route, outcome, granted, lines>>
    BY <1>0, <1>6 DEF EdgeTypeOK
  <1>7. QED
    BY <1>2, <1>3, <1>4, <1>5, <1>6 DEF EdgeNext, edgeVars, Quiet

LEMMA GrantedPreserved == EdgeInv /\ [EdgeNext]_edgeVars => GrantedInv'
  <1> SUFFICES ASSUME EdgeInv, [EdgeNext]_edgeVars
               PROVE  GrantedInv'
    OBVIOUS
  <1>0. TypeOK /\ GrantedInv /\ now \in Nat /\ limit \in Nat /\ granted \in [Keys -> Seq(Nat)]
    BY LimitIsNat, MaxTimeAssumption DEF EdgeInv, EdgeTypeOK, IInv, TypeOK
  <1>1. ASSUME UNCHANGED <<limit, granted, admitted>>
        PROVE  GrantedInv'
    BY <1>0, <1>1 DEF GrantedInv
  <1>2. ASSUME NEW a \in Arrivals, Passed(a)
        PROVE  GrantedInv'
    <2> DEFINE k == a.origin
    <2>1. CASE ~(limit > 0)
      <3>1. limit' = limit
        BY <1>2 DEF Passed, allow, AllowDisabled, AllowNewWindow, AllowWithinBudget, AllowRejected
      <3>2. QED
        BY <2>1, <3>1 DEF GrantedInv
    <2>2. CASE limit > 0
      <3>1. /\ k \in Keys /\ UNCHANGED <<limit, now>>
            /\ granted' = [granted EXCEPT ![k] = Append(@, now)]
            /\ \E start \in Int : Admitted(k, start)
        BY <1>2, <2>2, PassedStep
      <3>2. PICK start \in Int : Admitted(k, start)
        BY <3>1
      <3>3. /\ \A x \in Keys \ {k} : admitted'[x] = admitted[x]
            /\ DOMAIN admitted'[k] = DOMAIN admitted[k] \cup {Len(admitted[k]) + 1}
            /\ \A i \in DOMAIN admitted[k] : admitted'[k][i] = admitted[k][i]
            /\ admitted'[k][Len(admitted[k]) + 1] = [at |-> now, start |-> start]
        BY <1>0, <3>1, <3>2, AdmittedHistory
      <3>4. /\ granted[k] \in Seq(Nat) /\ DOMAIN granted[k] = DOMAIN admitted[k]
            /\ DOMAIN granted[k] = 1 .. Len(granted[k]) /\ Len(granted[k]) \in Nat
            /\ DOMAIN admitted[k] = 1 .. Len(admitted[k]) /\ Len(admitted[k]) \in Nat
        BY <1>0, <2>2, <3>1, HistoryType DEF GrantedInv
      <3>5. Len(granted[k]) = Len(admitted[k])
        BY <3>4, SameLength
      <3>6. /\ granted'[k] = Append(granted[k], now)
            /\ \A x \in Keys \ {k} : granted'[x] = granted[x]
        BY <1>0, <3>1
      <3>7. /\ DOMAIN granted'[k] = DOMAIN admitted'[k]
            /\ \A i \in DOMAIN granted'[k] : granted'[k][i] = admitted'[k][i].at
        <4>1. DOMAIN granted'[k] = DOMAIN granted[k] \cup {Len(granted[k]) + 1}
          BY <3>4, <3>6
        <4>2. ASSUME NEW i \in DOMAIN granted'[k]
              PROVE  granted'[k][i] = admitted'[k][i].at
          <5>1. CASE i \in DOMAIN granted[k]
            BY <1>0, <2>2, <3>1, <3>3, <3>4, <3>6, <5>1 DEF GrantedInv
          <5>2. CASE i = Len(granted[k]) + 1
            BY <1>0, <3>3, <3>4, <3>5, <3>6, <5>2
          <5>3. QED
            BY <4>1, <5>1, <5>2
        <4>3. QED
          BY <3>3, <3>4, <3>5, <4>1, <4>2
      <3>8. ASSUME NEW o \in Keys
            PROVE  /\ DOMAIN granted'[o] = DOMAIN admitted'[o]
                   /\ \A i \in DOMAIN granted'[o] : granted'[o][i] = admitted'[o][i].at
        <4>1. CASE o = k
          BY <3>7, <4>1
        <4>2. CASE o # k
          <5>1. granted'[o] = granted[o] /\ admitted'[o] = admitted[o]
            BY <3>3, <3>6, <4>2
          <5>2. QED
            BY <1>0, <2>2, <5>1 DEF GrantedInv
        <4>3. QED
          BY <4>1, <4>2
      <3>9. QED
        BY <3>8 DEF GrantedInv
    <2>3. QED
      BY <2>1, <2>2
  <1>3. ASSUME NEW a \in Arrivals, TooManyRequests(a)
        PROVE  GrantedInv'
    <2>1. UNCHANGED <<limit, granted, admitted>>
      BY <1>3 DEF TooManyRequests, allow, AllowDisabled, AllowNewWindow, AllowWithinBudget,
                  AllowRejected, Admitted
    <2>2. QED
      BY <1>1, <2>1
  <1>4. CASE NotServed \/ UNCHANGED edgeVars
    BY <1>1, <1>4 DEF NotServed, edgeVars, vars
  <1>5. CASE (sweep \/ Tick) /\ UNCHANGED <<route, outcome, granted, lines>>
    BY <1>1, <1>5 DEF sweep, Tick
  <1>6. QED
    BY <1>2, <1>3, <1>4, <1>5 DEF EdgeNext, handleLogin, handleElevate,
       handlePublicIssuerPost, handleCSPReport

-----------------------------------------------------------------------------
\* Products with the cap, for the provers.
LEMMA CapArithmetic ==
  /\ Cap \in Nat
  /\ \A n \in Nat : n * Cap \in Nat /\ (n + 1) * Cap = n * Cap + Cap
  /\ \A m, n \in Nat : m <= n => m * Cap <= n * Cap
  <1>1. Cap \in Nat
    BY EdgeAssumption DEF Cap
  <1> HIDE DEF Cap
  <1>2. QED
    BY <1>1

\* What a limiter step that admits k does to its window.
LEMMA WindowStep ==
  ASSUME EdgeInv, NEW k \in Keys, AllowNewWindow(k) \/ AllowWithinBudget(k)
  PROVE  /\ limit' = limit /\ limit \in Nat /\ counts'[k].n \in 1 .. limit
         /\ counts'[k].n = (IF Open(k) THEN counts[k].n ELSE 0) + 1
         /\ Open(k) => counts[k].n \in Nat
         /\ \A x \in Keys \ {k} : (Open(x)' <=> Open(x)) /\ (Open(x) => counts'[x] = counts[x])
  <1>0. /\ TypeOK /\ limit \in Nat
        /\ \A x \in DOMAIN counts : /\ x \in Keys /\ counts[x].n \in 1 .. limit
    BY LimitIsNat DEF EdgeInv, IInv, WindowInv, TableInv, TypeOK
  <1>1. CASE AllowNewWindow(k)
    BY <1>0, <1>1 DEF AllowNewWindow, SetCounter, Open
  <1>2. CASE AllowWithinBudget(k)
    <2>1. k \in DOMAIN counts /\ counts[k].n \in 1 .. limit /\ counts[k].n < limit
      BY <1>0, <1>2 DEF AllowWithinBudget, Open
    <2>2. counts'[k].n = counts[k].n + 1
      BY <1>0, <1>2, <2>1 DEF AllowWithinBudget, SetCounter, TypeOK, Counter
    <2>3. QED
      BY <1>0, <1>2, <2>1, <2>2 DEF AllowWithinBudget, SetCounter, Open
  <1>3. QED
    BY <1>1, <1>2

LEMMA LinesPreserved == EdgeInv /\ [EdgeNext]_edgeVars => LinesInv'
  <1> SUFFICES ASSUME EdgeInv, [EdgeNext]_edgeVars
               PROVE  LinesInv'
    OBVIOUS
  <1>0. /\ TypeOK /\ LinesInv /\ limit \in Nat /\ now \in Nat /\ lines \in [Keys -> Nat]
        /\ \A x \in DOMAIN counts : /\ x \in Keys /\ counts[x].n \in 1 .. limit
                                    /\ counts[x].reset \in Nat
    BY LimitIsNat, MaxTimeAssumption, CounterType
       DEF EdgeInv, EdgeTypeOK, IInv, WindowInv, TableInv, TypeOK
  \* Steps in which windows close or stay, and no line is written.
  <1>1. ASSUME UNCHANGED <<limit, route, lines>>,
               \A x \in Keys : Open(x)' => Open(x) /\ counts'[x] = counts[x]
        PROVE  LinesInv'
    BY <1>0, <1>1 DEF LinesInv
  \* Steps that leave the windows alone as well.
  <1>2. ASSUME UNCHANGED <<limit, now, counts, route, lines>>
        PROVE  LinesInv'
    BY <1>1, <1>2 DEF Open
  <1>3. ASSUME NEW a \in Arrivals, Passed(a), ~(limit > 0)
        PROVE  UNCHANGED <<limit, now, counts>>
    BY <1>3 DEF Passed, allow, AllowDisabled, AllowNewWindow, AllowWithinBudget, AllowRejected
  <1>4. ASSUME NEW a \in Arrivals, TooManyRequests(a)
        PROVE  LinesInv'
    <2>1. UNCHANGED <<limit, now, counts, route, lines>>
      BY <1>4 DEF TooManyRequests, allow, AllowDisabled, AllowNewWindow, AllowWithinBudget,
                  AllowRejected, Admitted
    <2>2. QED
      BY <1>2, <2>1
  <1>5. ASSUME NEW a \in Arrivals, Quiet(a)
        PROVE  LinesInv'
    <2> DEFINE k == a.origin
    <2>1. Passed(a) /\ UNCHANGED <<route, lines>> /\ route # "csp-report"
      BY <1>5 DEF Quiet, handleLogin, handleElevate, handlePublicIssuerPost
    <2>2. CASE ~(limit > 0)
      BY <1>2, <1>3, <2>1, <2>2
    <2>3. CASE limit > 0
      <3>1. k \in Keys /\ (AllowNewWindow(k) \/ AllowWithinBudget(k))
        BY <2>1, <2>3, PassedStep
      <3>2. /\ limit' = limit /\ counts'[k].n \in Nat
            /\ \A x \in Keys \ {k} : (Open(x)' <=> Open(x)) /\ (Open(x) => counts'[x] = counts[x])
        BY <3>1, WindowStep
      <3>3. 0 <= counts'[k].n * Cap /\ 0 <= limit * Cap
        BY <1>0, <3>2, CapArithmetic
      <3>4. \A x \in Keys : lines'[x] = 0
        BY <2>1, <1>0 DEF LinesInv
      <3>5. ASSUME NEW x \in Keys
            PROVE  /\ lines'[x] <= limit' * Cap
                   /\ Open(x)' => lines'[x] <= counts'[x].n * Cap
        <4>1. CASE x = k
          BY <3>1, <3>2, <3>3, <3>4, <4>1
        <4>2. CASE x # k
          BY <1>0, <2>1, <3>2, <4>2 DEF LinesInv
        <4>3. QED
          BY <4>1, <4>2
      <3>6. QED
        BY <2>1, <3>4, <3>5 DEF LinesInv
    <2>4. QED
      BY <2>2, <2>3
  \* A report that is let through writes at most a cap of lines more.
  <1>6. ASSUME NEW a \in Arrivals, NEW violations \in Violations, handleCSPReport(a, violations)
        PROVE  LinesInv'
    <2> DEFINE k == a.origin
               n == Logged(violations)
               before == IF Open(k) THEN counts[k].n ELSE 0
    <2>1. Passed(a) /\ route' = route /\ route = "csp-report"
      BY <1>6 DEF handleCSPReport
    <2>2. CASE ~(limit > 0)
      <3>1. lines' = lines
        BY <1>0, <1>6, <2>2 DEF handleCSPReport
      <3>2. QED
        BY <1>2, <1>3, <2>1, <2>2, <3>1
    <2>3. CASE limit > 0
      <3>1. k \in Keys /\ (AllowNewWindow(k) \/ AllowWithinBudget(k))
        BY <2>1, <2>3, PassedStep
      <3>2. /\ limit' = limit /\ counts'[k].n \in 1 .. limit /\ counts'[k].n = before + 1
            /\ before \in Nat
            /\ \A x \in Keys \ {k} : (Open(x)' <=> Open(x)) /\ (Open(x) => counts'[x] = counts[x])
        BY <3>1, WindowStep
      <3>3. /\ counts'[k].n * Cap = before * Cap + Cap
            /\ counts'[k].n * Cap <= limit * Cap /\ counts'[k].n * Cap \in Nat
            /\ Cap \in Nat /\ limit * Cap \in Nat /\ before * Cap \in Nat
        BY <1>0, <3>2, CapArithmetic
      <3>4. /\ lines' = [lines EXCEPT ![k] = (IF Open(k) THEN @ ELSE 0) + n]
            /\ n \in Nat /\ n <= Cap
        BY <1>6, <2>3, LoggedWithinCap DEF handleCSPReport
      <3>5. lines[k] \in Nat /\ (IF Open(k) THEN lines[k] ELSE 0) <= before * Cap
        BY <1>0, <3>1, <3>3 DEF LinesInv
      <3>6. lines'[k] <= counts'[k].n * Cap /\ lines'[k] <= limit * Cap
        <4>1. lines'[k] = (IF Open(k) THEN lines[k] ELSE 0) + n
          BY <1>0, <3>1, <3>4
        <4> HIDE DEF n, before
        <4>2. QED
          BY <1>0, <3>3, <3>4, <3>5, <4>1, CapArithmetic
      <3>7. ASSUME NEW x \in Keys
            PROVE  /\ lines'[x] <= limit' * Cap
                   /\ Open(x)' => lines'[x] <= counts'[x].n * Cap
        <4>1. CASE x = k
          BY <3>2, <3>6, <4>1
        <4>2. CASE x # k
          <5>1. lines'[x] = lines[x]
            BY <1>0, <3>4, <4>2
          <5>2. QED
            BY <1>0, <3>2, <4>2, <5>1 DEF LinesInv
        <4>3. QED
          BY <4>1, <4>2
      <3>8. QED
        BY <2>1, <3>7 DEF LinesInv
    <2>4. QED
      BY <2>2, <2>3
  <1>7. CASE NotServed \/ UNCHANGED edgeVars
    BY <1>2, <1>7 DEF NotServed, edgeVars, vars
  <1>8. CASE (sweep \/ Tick) /\ UNCHANGED <<route, outcome, granted, lines>>
    <2>1. \A x \in Keys : Open(x)' => Open(x) /\ counts'[x] = counts[x]
      BY <1>0, <1>8 DEF sweep, Tick, Open, Restrict
    <2>2. QED
      BY <1>1, <1>8, <2>1 DEF sweep, Tick
  <1>9. QED
    BY <1>4, <1>5, <1>6, <1>7, <1>8 DEF EdgeNext, Quiet

-----------------------------------------------------------------------------
\* The inductive invariant holds throughout.
THEOREM EdgeInductive == EdgeSpec => []EdgeInv
  <1>1. EdgeInit => EdgeInv
    <2> SUFFICES ASSUME EdgeInit
                 PROVE  EdgeInv
      OBVIOUS
    <2>1. IInv
      BY MaxTimeAssumption DEF EdgeInit, Init, IInv, TypeOK, WindowInv, HistoryInv, TableInv, AbsentInv
    <2>2. EdgeTypeOK
      BY <2>1 DEF EdgeInit, EdgeTypeOK, IInv, NoOutcome
    <2>3. GrantedInv
      BY DEF EdgeInit, Init, GrantedInv
    <2>4. LinesInv
      <3>1. limit \in Nat /\ 0 <= limit * Cap
        BY <2>1, LimitIsNat, CapArithmetic DEF IInv
      <3>2. QED
        BY <3>1 DEF EdgeInit, Init, LinesInv, Open
    <2>5. QED
      BY <2>1, <2>2, <2>3, <2>4 DEF EdgeInv
  <1>2. EdgeInv /\ [EdgeNext]_edgeVars => EdgeInv'
    BY LimiterStep, TypePreserved, WindowPreserved, EdgeTypePreserved, GrantedPreserved,
       LinesPreserved DEF EdgeInv, IInv
  <1>3. QED
    BY <1>1, <1>2, PTL DEF EdgeSpec

\* The edge's state has its type at all times.
THEOREM EdgeTypeCorrect == EdgeSpec => []EdgeTypeOK
  <1>1. EdgeInv => EdgeTypeOK
    BY DEF EdgeInv
  <1>2. QED
    BY <1>1, EdgeInductive, PTL

\* The edge is a limiter: what is proved of RateLimit holds of every route's.
THEOREM EdgeRefinesLimiter == EdgeSpec => Spec
  BY LimiterSpec

\* Whatever header its requests carry and by whatever way they come, an origin gets at most
\* twice the budget within one window's length.
THEOREM OriginBudget == EdgeSpec => []BudgetFollowsOrigin
  <1>1. EdgeInv /\ SlidingBudget => BudgetFollowsOrigin
    <2> SUFFICES ASSUME EdgeInv, SlidingBudget, limit > 0, NEW o \in Keys,
                        NEW i \in DOMAIN granted[o], i + 2 * limit \in DOMAIN granted[o]
                 PROVE  granted[o][i + 2 * limit] > granted[o][i] + Window
      BY DEF BudgetFollowsOrigin
    <2>1. /\ DOMAIN granted[o] = DOMAIN admitted[o]
          /\ \A j \in DOMAIN granted[o] : granted[o][j] = admitted[o][j].at
      BY DEF EdgeInv, GrantedInv
    <2>2. QED
      BY <2>1 DEF SlidingBudget
  <1>2. QED
    BY <1>1, EdgeInductive, LimiterSpec, AtMostTwiceTheBudget, PTL

\* Reports of an origin log at most the budget times the cap while a window is open, whatever
\* they hold and however they fall in it.
THEOREM LogStaysBounded == EdgeSpec => []LogBounded
  <1>1. EdgeInv => LogBounded
    BY DEF EdgeInv, LinesInv, LogBounded, Cap
  <1>2. QED
    BY <1>1, EdgeInductive, PTL

\* The issuer is told the origin of a request, never an address its header made up, when the
\* request is passed on and when the BFF calls on its behalf.
THEOREM IssuerHearsOrigin == EdgeSpec => []IssuerToldOrigin
  <1>1. EdgeInit => IssuerToldOrigin
    BY DEF EdgeInit, NoOutcome, IssuerToldOrigin
  <1>2. IssuerToldOrigin /\ [EdgeNext]_edgeVars => IssuerToldOrigin'
    BY OriginFound DEF EdgeNext, edgeVars, NotServed, NoOutcome, TooManyRequests, handleCSPReport,
       handleLogin, handleElevate, handlePublicIssuerPost, attributedProxy, withClientAttribution,
       Outcome, IssuerToldOrigin
  <1>3. QED
    BY <1>1, <1>2, PTL DEF EdgeSpec

\* A 429 is backed by limit requests of the very origin that is turned away, none of them a
\* window old, behind the proxy or beside it.
THEOREM NoForeignRejection == EdgeSpec => RejectedForOwnRequests
  <1> DEFINE Own ==
        outcome'.status = 429 /\ outcome' # outcome =>
          LET g == granted[outcome'.origin] IN
          /\ Len(g) >= limit
          /\ g[Len(g) - limit + 1] > now - Window
  <1>1. EdgeInv /\ [EdgeNext]_edgeVars => [Own]_edgeVars
    <2> SUFFICES ASSUME EdgeInv, [EdgeNext]_edgeVars, outcome'.status = 429, outcome' # outcome
                 PROVE  Own
      OBVIOUS
    <2>1. PICK a \in Arrivals : TooManyRequests(a)
      <3>1. ~(NotServed \/ UNCHANGED <<route, outcome, granted, lines>>)
        BY DEF NotServed, NoOutcome
      <3>2. \A a \in Arrivals : /\ ~Quiet(a)
                               /\ \A violations \in Violations : ~handleCSPReport(a, violations)
        BY DEF handleCSPReport, Quiet, handleLogin, handleElevate, handlePublicIssuerPost,
               Outcome, NoOutcome
      <3>3. QED
        BY <3>1, <3>2 DEF EdgeNext, edgeVars, Quiet
    <2> DEFINE k == a.origin
    <2>2. k \in Keys /\ outcome'.origin = k /\ AllowRejected(k)
      BY <2>1, OriginFound DEF TooManyRequests, Outcome, allow, AllowDisabled, AllowNewWindow,
                               AllowWithinBudget, Admitted
    <2> DEFINE L == Len(admitted[k])
    <2>3. /\ TypeOK /\ limit \in Nat /\ now \in Nat /\ limit > 0 /\ now < counts[k].reset
          /\ k \in DOMAIN counts /\ counts[k].n \in Nat /\ counts[k].reset \in Nat
          /\ counts[k].n >= limit /\ HistoryInv(k) /\ TableInv(k)
      BY <2>2, LimitIsNat, CounterType, MaxTimeAssumption
         DEF AllowRejected, Open, EdgeInv, IInv, WindowInv, TypeOK
    <2>4. counts[k].n = limit /\ L >= limit /\ L - limit + 1 \in DOMAIN admitted[k]
      BY <2>3, HistoryType DEF TableInv
    <2>5. L - limit + 1 > L - counts[k].n
      BY <2>3, <2>4, HistoryType
    <2>6. admitted[k][L - limit + 1].start = counts[k].reset - Window
      BY <2>3, <2>4, <2>5 DEF TableInv
    <2>7. admitted[k][L - limit + 1].at >= counts[k].reset - Window
      BY <2>3, <2>4, <2>6, HistoryType, WindowAssumption DEF HistoryInv
    <2>8. admitted[k][L - limit + 1].at > now - Window
      BY <2>2, <2>3, <2>4, <2>7, HistoryType, WindowAssumption
    <2>9. /\ DOMAIN granted[k] = DOMAIN admitted[k] /\ granted[k] \in Seq(Nat)
          /\ \A j \in DOMAIN granted[k] : granted[k][j] = admitted[k][j].at
      BY <2>2, <2>3 DEF EdgeInv, EdgeTypeOK, GrantedInv
    <2>10. Len(granted[k]) = L
      <3>1. /\ DOMAIN granted[k] = 1 .. Len(granted[k]) /\ Len(granted[k]) \in Nat
            /\ DOMAIN admitted[k] = 1 .. L /\ L \in Nat
        BY <2>2, <2>3, <2>9, HistoryType
      <3>2. 1 .. Len(granted[k]) = 1 .. L
        BY <2>9, <3>1
      <3> HIDE DEF L
      <3>3. QED
        BY <3>1, <3>2, SameLength
    <2>11. QED
      BY <2>2, <2>4, <2>8, <2>9, <2>10
  <1>2. QED
    BY <1>1, EdgeInductive, PTL DEF EdgeSpec, RejectedForOwnRequests
=============================================================================
