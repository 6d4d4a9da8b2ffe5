--------------------------- MODULE ElevationProofs ---------------------------
(***************************************************************************)
(* Proofs about the step-up prompt, for any number of calls and of         *)
(* step-ups in flight, with and without MFA.                               *)
(*                                                                         *)
(* PromptServesWaiters and LockedOnlyInFlight are inductive with the       *)
(* types.  PerformedAtMostOnce is not: a call that waits and goes out      *)
(* again could be performed a second time if it had been performed before. *)
(* UnperformedInv says that it was not: a call is only challenged instead  *)
(* of being performed, and one that was performed never waits.             *)
(***************************************************************************)
EXTENDS Elevation, TLAPS

\* The places in which a call may have been performed.
MaybePerformed == {"answered", "done", "failed"}

UnperformedInv ==
    \A c \in Calls :
        /\ performed[c] <= 1
        /\ at[c] \notin MaybePerformed => performed[c] = 0

IInv == TypeOK /\ PromptServesWaiters /\ LockedOnlyInFlight /\ UnperformedInv

-----------------------------------------------------------------------------
\* Every place a call can go to is a place.
LEMMA SomePlaces ==
  /\ {"sent", "answered", "done", "challenged", "failed", "waiting", "refused", "abandoned"}
       \subseteq Places
  /\ MaybePerformed \subseteq Places
  BY DEF Places, Settled, MaybePerformed

\* Moving one call to a place.
LEMMA Going ==
  ASSUME TypeOK, NEW c \in Calls, NEW place \in Places, Goto(c, place)
  PROVE  /\ at' \in [Calls -> Places]
         /\ at'[c] = place
         /\ \A x \in Calls \ {c} : at'[x] = at[x]
  BY DEF Goto, TypeOK

\* Moving all the waiting calls to a place.
LEMMA Finishing ==
  ASSUME TypeOK, NEW place \in Places, finishElevation(place)
  PROVE  /\ at' \in [Calls -> Places]
         /\ \A c \in waiters : at'[c] = place
         /\ \A c \in Calls \ waiters : at'[c] = at[c]
  BY DEF finishElevation, TypeOK

\* A slot of the step-ups in flight.
LEMMA Submitting ==
  ASSUME TypeOK, NEW i \in Submits, NEW state \in SubmitStates,
         submit' = [submit EXCEPT ![i] = state]
  PROVE  /\ submit' \in [Submits -> SubmitStates]
         /\ submit'[i] = state
         /\ \A j \in Submits \ {i} : submit'[j] = submit[j]
  BY DEF TypeOK

-----------------------------------------------------------------------------
\* Type correctness is preserved by every step.  The bound on performed needs the rest of
\* the invariant: only a call not performed before is performed.
LEMMA TypePreserved == IInv /\ [Next]_vars => TypeOK'
  <1> SUFFICES ASSUME IInv, [Next]_vars
               PROVE  TypeOK'
    OBVIOUS
  <1>0. TypeOK /\ UnperformedInv
    BY DEF IInv
  <1> USE <1>0
  <1>1. ASSUME NEW c \in Calls, Issue(c)
        PROVE  TypeOK'
    BY <1>1, Going, SomePlaces DEF Issue, TypeOK, prompt
  <1>2. ASSUME NEW c \in Calls, Perform(c)
        PROVE  TypeOK'
    <2>1. performed[c] = 0
      BY <1>2 DEF Perform, UnperformedInv, MaybePerformed
    <2>2. performed' \in [Calls -> 0 .. 2]
      BY <1>2, <2>1 DEF Perform, TypeOK
    <2>3. at' \in [Calls -> Places]
      BY <1>2, Going, SomePlaces DEF Perform
    <2>4. QED
      BY <1>2, <2>2, <2>3 DEF Perform, TypeOK, prompt
  <1>3. ASSUME NEW c \in Calls, Challenge(c) \/ Succeed(c) \/ Lose(c) \/ Refuse(c)
        PROVE  TypeOK'
    <2>1. at' \in [Calls -> Places]
      BY <1>3, Going, SomePlaces DEF Challenge, Succeed, Lose, Refuse
    <2>2. QED
      BY <1>3, <2>1 DEF Challenge, Succeed, Lose, Refuse, TypeOK, prompt
  <1>4. ASSUME NEW c \in Calls, requireElevation(c)
        PROVE  TypeOK'
    <2>1. at' \in [Calls -> Places]
      BY <1>4, Going, SomePlaces DEF requireElevation
    <2>2. QED
      BY <1>4, <2>1 DEF requireElevation, TypeOK
  <1>5. ASSUME NEW i \in Submits, submitElevation(i)
        PROVE  TypeOK'
    <2>1. submit' \in [Submits -> SubmitStates]
      BY <1>5, Submitting DEF submitElevation, SubmitStates
    <2>2. QED
      BY <1>5, <2>1 DEF submitElevation, TypeOK, calls
  <1>6. ASSUME NEW i \in Submits, Grant(i) \/ AskForCode(i) \/ Reject(i)
        PROVE  TypeOK'
    <2>1. submit' \in [Submits -> SubmitStates]
      BY <1>6, Submitting DEF Grant, AskForCode, Reject, SubmitStates
    <2>2. QED
      BY <1>6, <2>1 DEF Grant, AskForCode, Reject, TypeOK, calls, prompt
  <1>7. ASSUME NEW i \in Submits, Confirmed(i)
        PROVE  TypeOK'
    <2>1. submit' \in [Submits -> SubmitStates]
      BY <1>7, Submitting DEF Confirmed, SubmitStates
    <2>2. at' \in [Calls -> Places]
      BY <1>7, Finishing, SomePlaces DEF Confirmed
    <2>3. QED
      BY <1>7, <2>1, <2>2 DEF Confirmed, finishElevation, TypeOK
  <1>8. ASSUME NEW i \in Submits, Unconfirmed(i)
        PROVE  TypeOK'
    <2>1. submit' \in [Submits -> SubmitStates]
      BY <1>8, Submitting DEF Unconfirmed, SubmitStates
    <2>2. QED
      BY <1>8, <2>1 DEF Unconfirmed, TypeOK, calls
  <1>9. CASE cancel \/ onVisibility
    <2>1. at' \in [Calls -> Places]
      BY <1>9, Finishing, SomePlaces DEF cancel, onVisibility
    <2>2. QED
      BY <1>9, <2>1 DEF cancel, onVisibility, finishElevation, TypeOK
  <1>10. CASE Lapse \/ Done \/ UNCHANGED vars
    BY <1>10 DEF Lapse, Done, vars, calls, prompt, TypeOK
  <1>11. QED
    BY Zenon, <1>1, <1>2, <1>3, <1>4, <1>5, <1>6, <1>7, <1>8, <1>9, <1>10
       DEF Next, CallStep, SubmitStep

\* The prompt and its waiters stay together.
LEMMA PromptPreserved == IInv /\ [Next]_vars => PromptServesWaiters'
  <1> SUFFICES ASSUME IInv, [Next]_vars
               PROVE  PromptServesWaiters'
    OBVIOUS
  <1>0. TypeOK /\ PromptServesWaiters
    BY DEF IInv
  <1> USE <1>0
  \* A call moves between places in which it does not wait.
  <1>1. ASSUME NEW c \in Calls, NEW place \in Places \ {"waiting"}, Goto(c, place),
               at[c] # "waiting", UNCHANGED prompt
        PROVE  PromptServesWaiters'
    <2>1. {x \in Calls : at'[x] = "waiting"} = {x \in Calls : at[x] = "waiting"}
      BY <1>1, Going
    <2>2. QED
      BY <1>1, <2>1 DEF PromptServesWaiters, prompt
  <1>2. ASSUME NEW c \in Calls, Issue(c) \/ CallStep(c), ~requireElevation(c)
        PROVE  PromptServesWaiters'
    BY <1>1, <1>2, SomePlaces
       DEF Issue, CallStep, Perform, Challenge, Succeed, Lose, Refuse
  <1>3. ASSUME NEW c \in Calls, requireElevation(c)
        PROVE  PromptServesWaiters'
    <2>1. at'[c] = "waiting" /\ \A x \in Calls \ {c} : at'[x] = at[x]
      BY <1>3, Going, SomePlaces DEF requireElevation
    <2>2. {x \in Calls : at'[x] = "waiting"} = {x \in Calls : at[x] = "waiting"} \cup {c}
      BY <2>1
    <2>3. QED
      BY <1>3, <2>2 DEF requireElevation, PromptServesWaiters
  \* All the waiting calls leave together.
  <1>4. ASSUME NEW place \in Places \ {"waiting"}, finishElevation(place)
        PROVE  PromptServesWaiters'
    <2>1. \A c \in Calls : at'[c] # "waiting"
      BY <1>4, Finishing DEF PromptServesWaiters
    <2>2. QED
      BY <1>4, <2>1 DEF finishElevation, PromptServesWaiters
  <1>5. CASE cancel \/ onVisibility \/ \E i \in Submits : Confirmed(i)
    BY <1>4, <1>5, SomePlaces DEF cancel, onVisibility, Confirmed
  <1>6. ASSUME UNCHANGED <<at, waiters, visible>>
        PROVE  PromptServesWaiters'
    BY <1>6 DEF PromptServesWaiters
  <1>7. ASSUME NEW i \in Submits, submitElevation(i) \/ SubmitStep(i), ~Confirmed(i)
        PROVE  PromptServesWaiters'
    BY <1>6, <1>7
       DEF submitElevation, SubmitStep, Grant, AskForCode, Reject, Unconfirmed, calls, prompt
  <1>8. CASE Lapse \/ Done \/ UNCHANGED vars
    BY <1>6, <1>8 DEF Lapse, Done, vars, calls, prompt
  <1>9. QED
    BY Zenon, <1>2, <1>3, <1>5, <1>7, <1>8 DEF Next, CallStep, SubmitStep

\* A locked prompt has a step-up in flight: what ends one unlocks it.
LEMMA LockPreserved == IInv /\ [Next]_vars => LockedOnlyInFlight'
  <1> DEFINE InFlight(i) == submit[i] # "none"
  <1> SUFFICES ASSUME IInv, [Next]_vars, loading'
               PROVE  \E i \in Submits : InFlight(i)'
    BY DEF LockedOnlyInFlight
  <1>0. TypeOK /\ (loading => \E i \in Submits : InFlight(i))
    BY DEF IInv, LockedOnlyInFlight
  <1> USE <1>0
  <1>1. ASSUME NEW i \in Submits, submitElevation(i)
        PROVE  \E j \in Submits : InFlight(j)'
    BY <1>1, Submitting DEF submitElevation, SubmitStates
  <1>2. ASSUME NEW i \in Submits, Grant(i) \/ AskForCode(i) \/ Reject(i)
        PROVE  \E j \in Submits : InFlight(j)'
    BY <1>2, Submitting DEF Grant, AskForCode, Reject, SubmitStates
  <1>3. ASSUME UNCHANGED <<loading, submit>>
        PROVE  \E j \in Submits : InFlight(j)'
    BY <1>3
  <1>4. ASSUME NEW c \in Calls, Issue(c) \/ CallStep(c)
        PROVE  \E j \in Submits : InFlight(j)'
    BY <1>3, <1>4
       DEF Issue, CallStep, Perform, Challenge, Succeed, Lose, requireElevation, Refuse, prompt
  <1>5. ~(cancel \/ onVisibility \/ \E i \in Submits : Confirmed(i) \/ Unconfirmed(i))
    BY DEF cancel, onVisibility, Confirmed, Unconfirmed, finishElevation
  <1>6. CASE Lapse \/ Done \/ UNCHANGED vars
    BY <1>3, <1>6 DEF Lapse, Done, vars, prompt
  <1>7. QED
    BY Zenon, <1>1, <1>2, <1>4, <1>5, <1>6 DEF Next, SubmitStep

\* A call that may still be sent has not been performed.
LEMMA UnperformedPreserved == IInv /\ [Next]_vars => UnperformedInv'
  <1> SUFFICES ASSUME IInv, [Next]_vars
               PROVE  UnperformedInv'
    OBVIOUS
  <1>0. TypeOK /\ UnperformedInv /\ PromptServesWaiters
    BY DEF IInv
  <1> USE <1>0
  \* A call moves without being performed, and not back from where it may have been.
  <1>1. ASSUME NEW c \in Calls, NEW place \in Places, Goto(c, place), UNCHANGED performed,
               at[c] \in MaybePerformed => place \in MaybePerformed
        PROVE  UnperformedInv'
    BY <1>1, Going DEF UnperformedInv
  <1>2. ASSUME NEW c \in Calls,
               Issue(c) \/ Challenge(c) \/ Succeed(c) \/ Lose(c) \/ requireElevation(c) \/ Refuse(c)
        PROVE  UnperformedInv'
    BY <1>1, <1>2, SomePlaces
       DEF Issue, Challenge, Succeed, Lose, requireElevation, Refuse, MaybePerformed
  <1>3. ASSUME NEW c \in Calls, Perform(c)
        PROVE  UnperformedInv'
    <2>1. performed[c] = 0
      BY <1>3 DEF Perform, UnperformedInv, MaybePerformed
    <2>2. performed'[c] = 1 /\ \A x \in Calls \ {c} : performed'[x] = performed[x]
      BY <1>3, <2>1 DEF Perform, TypeOK
    <2>3. at'[c] = "answered" /\ \A x \in Calls \ {c} : at'[x] = at[x]
      BY <1>3, Going, SomePlaces DEF Perform
    <2>4. QED
      BY <2>2, <2>3 DEF UnperformedInv, MaybePerformed
  \* The waiting calls are among those not performed.
  <1>4. ASSUME NEW place \in Places, finishElevation(place), UNCHANGED performed
        PROVE  UnperformedInv'
    BY <1>4, Finishing DEF UnperformedInv, PromptServesWaiters, MaybePerformed
  <1>5. CASE cancel \/ onVisibility \/ \E i \in Submits : Confirmed(i)
    BY <1>4, <1>5, SomePlaces DEF cancel, onVisibility, Confirmed
  <1>6. ASSUME UNCHANGED <<at, performed>>
        PROVE  UnperformedInv'
    BY <1>6 DEF UnperformedInv
  <1>7. ASSUME NEW i \in Submits, submitElevation(i) \/ SubmitStep(i), ~Confirmed(i)
        PROVE  UnperformedInv'
    BY <1>6, <1>7 DEF submitElevation, SubmitStep, Grant, AskForCode, Reject, Unconfirmed, calls
  <1>8. CASE Lapse \/ Done \/ UNCHANGED vars
    BY <1>6, <1>8 DEF Lapse, Done, vars, calls
  <1>9. QED
    BY Zenon, <1>2, <1>3, <1>5, <1>7, <1>8 DEF Next, CallStep, SubmitStep

-----------------------------------------------------------------------------
\* The inductive invariant.
THEOREM Inductive == Spec => []IInv
  <1>1. Init => IInv
    <2> SUFFICES ASSUME Init
                 PROVE  IInv
      OBVIOUS
    <2>1. \A c \in Calls : at[c] = "idle" /\ performed[c] = 0
      BY DEF Init
    <2>2. TypeOK
      <3>1. "idle" \in Places /\ "none" \in SubmitStates /\ 0 \in 0 .. 2
        BY DEF Places, SubmitStates
      <3>2. at \in [Calls -> Places] /\ retried \in [Calls -> BOOLEAN]
            /\ performed \in [Calls -> 0 .. 2] /\ submit \in [Submits -> SubmitStates]
        BY <3>1 DEF Init
      <3>3. QED
        BY <3>2 DEF Init, TypeOK
    <2>3. PromptServesWaiters /\ LockedOnlyInFlight
      BY <2>1 DEF Init, PromptServesWaiters, LockedOnlyInFlight
    <2>4. UnperformedInv
      BY <2>1 DEF UnperformedInv
    <2>5. QED
      BY <2>2, <2>3, <2>4 DEF IInv
  <1>2. IInv /\ [Next]_vars => IInv'
    BY TypePreserved, PromptPreserved, LockPreserved, UnperformedPreserved DEF IInv
  <1>3. QED
    BY <1>1, <1>2, PTL DEF Spec

\* The calls, the prompt and the step-ups in flight keep their types.
THEOREM TypeCorrect == Spec => []TypeOK
  <1>1. IInv => TypeOK
    BY DEF IInv
  <1>2. QED
    BY <1>1, Inductive, PTL

\* However calls are challenged and the prompt is answered, dismissed or hidden, it is on
\* screen exactly while calls wait for it.
THEOREM PromptIsServing == Spec => []PromptServesWaiters
  <1>1. IInv => PromptServesWaiters
    BY DEF IInv
  <1>2. QED
    BY <1>1, Inductive, PTL

\* The prompt is locked only while a step-up that will unlock it is in flight.
THEOREM NeverLockedForGood == Spec => []LockedOnlyInFlight
  <1>1. IInv => LockedOnlyInFlight
    BY DEF IInv
  <1>2. QED
    BY <1>1, Inductive, PTL

\* The replay after a step-up repeats no call, and a call given up was never performed.
THEOREM NoCallTwice == Spec => []PerformedAtMostOnce
  <1>1. IInv => PerformedAtMostOnce
    BY DEF IInv, TypeOK, UnperformedInv, MaybePerformed, PerformedAtMostOnce
  <1>2. QED
    BY <1>1, Inductive, PTL

\* Waiting calls go out again only on the answer to a step-up, and then all of them.
THEOREM AllRetriedTogether == Spec => RetriedTogether
  <1> DEFINE Retry == \E c \in Calls : at[c] = "waiting" /\ at'[c] = "sent"
             Together ==
               /\ \A c \in Calls : at[c] = "waiting" => at'[c] = "sent"
               /\ \E i \in Submits : submit[i] = "granted" /\ submit'[i] = "none"
  <1>1. IInv /\ [Next]_vars => [Retry => Together]_vars
    <2> SUFFICES ASSUME IInv, Next, NEW c \in Calls, at[c] = "waiting", at'[c] = "sent"
                 PROVE  Together
      OBVIOUS
    <2>1. TypeOK /\ PromptServesWaiters
      BY DEF IInv
    <2> USE <2>1
    <2>2. \A x \in Calls : ~(Issue(x) \/ CallStep(x))
      <3> SUFFICES ASSUME NEW x \in Calls, Issue(x) \/ CallStep(x)
                   PROVE  FALSE
        OBVIOUS
      <3>1. at[x] # "waiting"
        BY DEF Issue, CallStep, Perform, Challenge, Succeed, Lose, requireElevation, Refuse
      <3>2. \E place \in Places : Goto(x, place)
        BY SomePlaces
           DEF Issue, CallStep, Perform, Challenge, Succeed, Lose, requireElevation, Refuse
      <3>3. QED
        BY <3>1, <3>2, Going
    <2>3. ~(cancel \/ onVisibility)
      BY Finishing, SomePlaces DEF cancel, onVisibility, PromptServesWaiters
    <2>4. ~(Lapse \/ Done)
      BY DEF Lapse, Done, vars, calls
    <2>5. \A i \in Submits :
            ~(submitElevation(i) \/ Grant(i) \/ AskForCode(i) \/ Reject(i) \/ Unconfirmed(i))
      BY DEF submitElevation, Grant, AskForCode, Reject, Unconfirmed, calls
    <2>6. PICK i \in Submits : Confirmed(i)
      BY Zenon, <2>2, <2>3, <2>4, <2>5 DEF Next, SubmitStep
    <2>7. \A x \in Calls : at[x] = "waiting" => at'[x] = "sent"
      BY <2>6, Finishing, SomePlaces DEF Confirmed, PromptServesWaiters
    <2>8. submit[i] = "granted" /\ submit'[i] = "none"
      BY <2>6 DEF Confirmed, TypeOK
    <2>9. QED
      BY <2>7, <2>8
  <1>2. QED
    BY <1>1, Inductive, PTL DEF Spec, RetriedTogether
=============================================================================
