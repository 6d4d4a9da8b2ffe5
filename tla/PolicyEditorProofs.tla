------------------------ MODULE PolicyEditorProofs ------------------------
(***************************************************************************)
(* Proofs about the policy editor, for any number of requests in flight    *)
(* and any number of versions.                                             *)
(*                                                                         *)
(* Why a write lands on a version the page has shown: its base was the     *)
(* version on display when it was sent (BasesShown), and the server only   *)
(* stores it on that version.  SavingWhileWriting is inductive as it is:   *)
(* the steps that end a write, or the refresh of the history after one,    *)
(* are the ones that unlock the button.                                    *)
(***************************************************************************)
EXTENDS PolicyEditor, TLAPS

\* What a write says it is based on has been on display.
BasesShown ==
    /\ policy \in shown
    /\ \A s \in Slots : req[s].op \in Writes => req[s].base \in shown

IInv == TypeOK /\ BasesShown /\ SavingWhileWriting

Ops == Writes \cup Reads \cup {"decisions", "validate", "free"}

-----------------------------------------------------------------------------
\* The initial versions are versions.
LEMMA FewVersions == 0 \in Versions /\ 1 \in Versions /\ (0 .. 1) \subseteq Versions
  BY BoundsAssumption DEF Versions

\* A copy of a version is a text.
LEMMA CopyType == \A version \in Versions : Copy(version) \in Text
  BY DEF Copy, Text, Judgements

\* A request as it is sent is a call with the fields it was given.
LEMMA RequestType ==
  ASSUME NEW op \in Ops, NEW base \in Versions, NEW text \in Text
  PROVE  /\ Request(op, base, text) \in Calls
         /\ Request(op, base, text).op = op
         /\ Request(op, base, text).base = base
  BY FewVersions DEF Request, Calls, Ops

\* A slot with no request is a call.
LEMMA FreeType == Free \in Calls /\ Free.op = "free"
  BY FewVersions, CopyType, RequestType DEF Free, Ops, NoText

\* Sending occupies one slot.
LEMMA Sending ==
  ASSUME TypeOK, NEW s \in Slots, NEW op \in Ops, NEW base \in Versions, NEW text \in Text,
         Send(s, op, base, text)
  PROVE  /\ req' \in [Slots -> Calls]
         /\ req'[s].op = op /\ req'[s].base = base
         /\ \A x \in Slots \ {s} : req'[x] = req[x]
  BY RequestType DEF Send, TypeOK

\* Ending a request frees its slot.
LEMMA Ending ==
  ASSUME TypeOK, NEW s \in Slots, End(s)
  PROVE  /\ req' \in [Slots -> Calls]
         /\ req'[s].op = "free"
         /\ \A x \in Slots \ {s} : req'[x] = req[x]
  BY FreeType DEF End, TypeOK

\* An answer changes nothing of what was asked.
LEMMA Answering ==
  ASSUME TypeOK, NEW s \in Slots, NEW ans \in {"none", "200", "409", "422", "403", "lost"},
         req' = [req EXCEPT ![s] = [@ EXCEPT !.ans = ans, !.got = {},
                                           !.version = 0, !.list = 0]]
  PROVE  /\ req' \in [Slots -> Calls]
         /\ req'[s].ans = ans
         /\ \A x \in Slots \ {s} : req'[x] = req[x]
         /\ \A x \in Slots : req'[x].op = req[x].op /\ req'[x].base = req[x].base
  <1> DEFINE c == [req[s] EXCEPT !.ans = ans, !.got = {}, !.version = 0, !.list = 0]
  <1>1. req[s] \in Calls /\ 0 \in Versions
    BY FewVersions DEF TypeOK
  <1>2. c \in Calls /\ c.ans = ans /\ c.op = req[s].op /\ c.base = req[s].base
    BY <1>1 DEF Calls
  <1>3. req' = [req EXCEPT ![s] = c]
    OBVIOUS
  <1> HIDE DEF c
  <1>4. QED
    BY <1>2, <1>3 DEF TypeOK

\* The server stores a version or serves a GET.
Served(s) == StoreVersion(s) \/ \E part \in Resources : ServeRead(s, part)

\* Like any answer, this changes nothing of what was asked.
LEMMA Serving ==
  ASSUME TypeOK, NEW s \in Slots, Served(s)
  PROVE  \A x \in Slots : req'[x].op = req[x].op /\ req'[x].base = req[x].base
  <1>1. req[s] \in Calls
    BY DEF TypeOK
  <1>2. CASE StoreVersion(s)
    <2> DEFINE c == [req[s] EXCEPT !.ans = "200", !.version = latest + 1]
    <2>1. c.op = req[s].op /\ c.base = req[s].base
      BY <1>1 DEF Calls
    <2>2. req' = [req EXCEPT ![s] = c]
      BY <1>2 DEF StoreVersion
    <2> HIDE DEF c
    <2>3. QED
      BY <2>1, <2>2 DEF TypeOK
  <1>3. ASSUME NEW part \in Resources, ServeRead(s, part)
        PROVE  \A x \in Slots : req'[x].op = req[x].op /\ req'[x].base = req[x].base
    <2> DEFINE got == req[s].got \cup {part}
               c == [req[s] EXCEPT !.got = got,
                                   !.ans = IF got = Parts(req[s].op) THEN "200" ELSE @,
                                   !.version = IF part = "policy" THEN latest ELSE @,
                                   !.list = IF part = "list" THEN latest ELSE @]
    <2>1. c.op = req[s].op /\ c.base = req[s].base
      BY <1>1 DEF Calls
    <2>2. req' = [req EXCEPT ![s] = c]
      BY <1>3 DEF ServeRead
    <2> HIDE DEF c
    <2>3. QED
      BY <2>1, <2>2 DEF TypeOK
  <1>4. QED
    BY <1>2, <1>3 DEF Served

-----------------------------------------------------------------------------
\* Type correctness is preserved by every step.
LEMMA TypePreserved == TypeOK /\ [Next]_vars => TypeOK'
  <1> SUFFICES ASSUME TypeOK, [Next]_vars
               PROVE  TypeOK'
    OBVIOUS
  <1>0. NoText \in Text /\ Copy(policy) \in Text /\ 0 \in Versions
    BY FewVersions, CopyType DEF NoText, TypeOK
  \* The admin's steps.
  <1>1. ASSUME NEW s \in Slots, load(s)
        PROVE  TypeOK'
    BY <1>0, <1>1, Sending DEF load, TypeOK, page, form, feedback, Ops, Reads
  <1>2. CASE startEdit
    BY <1>0, <1>2 DEF startEdit, resetDraftFeedback, TypeOK, page
  <1>3. CASE cancelEdit
    BY <1>0, <1>3 DEF cancelEdit, closeEditor, resetDraftFeedback, TypeOK, page
  <1>4. CASE onDraftChanged
    BY <1>4 DEF onDraftChanged, TypeOK, page, Text
  <1>5. ASSUME NEW s \in Slots, validate(s)
        PROVE  TypeOK'
    BY <1>0, <1>5, Sending DEF validate, TypeOK, page, form, feedback, Ops
  <1>6. ASSUME NEW s \in Slots, save(s)
        PROVE  TypeOK'
    BY <1>6, Sending DEF save, TypeOK, page, form, Ops, Writes
  <1>7. ASSUME NEW s \in Slots, restore(s)
        PROVE  TypeOK'
    BY <1>0, <1>7, Sending DEF restore, TypeOK, page, form, Ops, Writes
  <1>8. ASSUME NEW s \in Slots, reloadKeepingDraft(s)
        PROVE  TypeOK'
    BY <1>0, <1>8, Sending DEF reloadKeepingDraft, TypeOK, page, form, feedback, Ops, Reads
  \* The server's steps.
  <1>9. ASSUME NEW s \in Slots, StoreVersion(s)
        PROVE  TypeOK'
    <2>1. latest + 1 \in Versions
      BY <1>9, BoundsAssumption DEF StoreVersion, TypeOK, Versions
    <2>2. [req[s] EXCEPT !.ans = "200", !.version = latest + 1] \in Calls
      BY <2>1 DEF TypeOK, Calls
    <2>3. req' \in [Slots -> Calls]
      BY <1>9, <2>2 DEF StoreVersion, TypeOK
    <2>4. QED
      BY <1>9, <2>1, <2>3 DEF StoreVersion, TypeOK, page, form, feedback
  <1>10. ASSUME NEW s \in Slots, NEW ans \in {"409", "422", "403", "lost"}, Answer(s, ans)
         PROVE  TypeOK'
    <2>1. req' \in [Slots -> Calls]
      BY <1>10, Answering DEF Answer
    <2>2. QED
      BY <1>10, <2>1 DEF Answer, TypeOK, page, form, feedback
  <1>11. ASSUME NEW s \in Slots, NEW part \in Resources, ServeRead(s, part)
         PROVE  TypeOK'
    <2> DEFINE got == req[s].got \cup {part}
               c == [req[s] EXCEPT !.got = got,
                                   !.ans = IF got = Parts(req[s].op) THEN "200" ELSE @,
                                   !.version = IF part = "policy" THEN latest ELSE @,
                                   !.list = IF part = "list" THEN latest ELSE @]
    <2>1. req[s] \in Calls /\ got \subseteq Resources /\ latest \in Versions
      BY DEF TypeOK, Calls
    <2>2. c \in Calls
      BY <2>1 DEF Calls
    <2>3. req' = [req EXCEPT ![s] = c]
      BY <1>11 DEF ServeRead
    <2> HIDE DEF c
    <2>4. req' \in [Slots -> Calls]
      BY <2>2, <2>3 DEF TypeOK
    <2>5. QED
      BY <1>11, <2>4 DEF ServeRead, TypeOK, page, form, feedback
  <1>12. CASE OtherSaves
    BY <1>12, BoundsAssumption DEF OtherSaves, TypeOK, Versions, page, form, feedback
  \* The answers applied.
  <1>13. ASSUME NEW s \in Slots, Loaded(s)
         PROVE  TypeOK'
    <2>1. req[s].version \in Versions /\ req[s].list \in Versions
      BY DEF TypeOK, Calls
    <2>2. req' \in [Slots -> Calls]
      BY <1>0, <1>13, Sending DEF Loaded, Ops
    <2>3. QED
      BY <1>13, <2>1, <2>2 DEF Loaded, Show, TypeOK, form, feedback
  <1>14. ASSUME NEW s \in Slots, LoadDone(s)
         PROVE  TypeOK'
    BY <1>14, Ending DEF LoadDone, TypeOK, page, form, feedback
  <1>15. ASSUME NEW s \in Slots, Validated(s)
         PROVE  TypeOK'
    BY <1>15, Ending DEF Validated, TypeOK, page, form
  <1>16. ASSUME NEW s \in Slots, Saved(s)
         PROVE  TypeOK'
    <2>1. req[s].version \in Versions
      BY DEF TypeOK, Calls
    <2>2. req' \in [Slots -> Calls]
      BY <1>0, <1>16, Sending DEF Saved, Ops, Reads
    <2>3. QED
      BY <1>0, <1>16, <2>1, <2>2 DEF Saved, Show, closeEditor, TypeOK, feedback
  <1>17. ASSUME NEW s \in Slots, HistoryRefreshed(s)
         PROVE  TypeOK'
    <2>1. req[s].list \in Versions
      BY DEF TypeOK, Calls
    <2>2. QED
      BY <1>17, <2>1, Ending DEF HistoryRefreshed, TypeOK, form, feedback
  <1>18. ASSUME NEW s \in Slots, writeFailure(s)
         PROVE  TypeOK'
    BY <1>18, Ending DEF writeFailure, TypeOK, page, form
  <1>19. ASSUME NEW s \in Slots, Reloaded(s)
         PROVE  TypeOK'
    <2>1. req[s].version \in Versions
      BY DEF TypeOK, Calls
    <2>2. req' \in [Slots -> Calls]
      BY <1>0, <1>19, Sending DEF Reloaded, Ops, Reads
    <2>3. QED
      BY <1>19, <2>1, <2>2 DEF Reloaded, Show, TypeOK, Text
  <1>20. ASSUME NEW s \in Slots, ReloadDone(s)
         PROVE  TypeOK'
    <2>1. req[s].list \in Versions
      BY DEF TypeOK, Calls
    <2>2. QED
      BY <1>20, <2>1, Ending DEF ReloadDone, TypeOK, form, feedback
  <1>21. CASE UNCHANGED vars
    BY <1>21 DEF vars, page, form, feedback, TypeOK
  <1>22. QED
    BY <1>1, <1>2, <1>3, <1>4, <1>5, <1>6, <1>7, <1>8, <1>9, <1>10, <1>11, <1>12, <1>13,
       <1>14, <1>15, <1>16, <1>17, <1>18, <1>19, <1>20, <1>21
       DEF Next, Admin, Serve, Deliver, RefuseWrite, Fail

-----------------------------------------------------------------------------
\* What a step does to the requests and to saving, all that the other two parts read.
LEMMA BasesPreserved == IInv /\ [Next]_vars => BasesShown'
  <1> SUFFICES ASSUME IInv, [Next]_vars
               PROVE  BasesShown'
    OBVIOUS
  <1>0. TypeOK /\ BasesShown /\ 0 \in Versions /\ NoText \in Text /\ Copy(policy) \in Text
    BY FewVersions, CopyType DEF IInv, TypeOK, NoText
  \* A write is sent: its base is on display.
  <1>1. ASSUME NEW s \in Slots, save(s) \/ restore(s)
        PROVE  BasesShown'
    <2>1. \E op \in Writes, text \in Text : Send(s, op, policy, text)
      BY <1>0, <1>1 DEF save, restore, Writes, TypeOK
    <2>2. PICK op \in Writes, text \in Text : Send(s, op, policy, text)
      BY <2>1
    <2>3. req'[s].base = policy /\ \A x \in Slots \ {s} : req'[x] = req[x]
      BY <1>0, <2>2, Sending DEF TypeOK, Ops
    <2>4. UNCHANGED <<policy, shown>>
      BY <1>1 DEF save, restore, page
    <2>5. QED
      BY <1>0, <2>3, <2>4 DEF BasesShown
  \* Any other request is sent, with or without a version being shown.
  <1>2. ASSUME NEW s \in Slots, NEW op \in Ops \ Writes, NEW text \in Text,
               Send(s, op, 0, text), UNCHANGED <<policy, shown>> \/ Show(req[s].version)
        PROVE  BasesShown'
    <2>1. req'[s].op \notin Writes /\ \A x \in Slots \ {s} : req'[x] = req[x]
      BY <1>0, <1>2, Sending
    <2>2. policy' \in shown' /\ shown \subseteq shown'
      BY <1>0, <1>2 DEF BasesShown, Show
    <2>3. QED
      BY <1>0, <2>1, <2>2 DEF BasesShown
  \* A request ends.
  <1>3. ASSUME NEW s \in Slots, End(s), UNCHANGED <<policy, shown>>
        PROVE  BasesShown'
    <2>1. req'[s].op \notin Writes /\ \A x \in Slots \ {s} : req'[x] = req[x]
      BY <1>0, <1>3, Ending DEF Writes
    <2>2. QED
      BY <1>0, <1>3, <2>1 DEF BasesShown
  \* The server answers, or nothing happens to the requests.
  <1>4. ASSUME \A x \in Slots : req'[x].op = req[x].op /\ req'[x].base = req[x].base,
               UNCHANGED <<policy, shown>>
        PROVE  BasesShown'
    BY <1>0, <1>4 DEF BasesShown
  <1> USE <1>0
  <1>5. ASSUME NEW s \in Slots, load(s) \/ validate(s) \/ reloadKeepingDraft(s)
        PROVE  BasesShown'
    BY <1>2, <1>5 DEF load, validate, reloadKeepingDraft, Ops, Reads, Writes, page, TypeOK
  <1>6. ASSUME NEW s \in Slots, Loaded(s) \/ Saved(s) \/ Reloaded(s)
        PROVE  BasesShown'
    BY <1>2, <1>6 DEF Loaded, Saved, Reloaded, Ops, Reads, Writes
  <1>7. ASSUME NEW s \in Slots,
               LoadDone(s) \/ Validated(s) \/ HistoryRefreshed(s) \/ writeFailure(s) \/ ReloadDone(s)
        PROVE  BasesShown'
    BY <1>3, <1>7 DEF LoadDone, Validated, HistoryRefreshed, writeFailure, ReloadDone, page
  <1>8. ASSUME NEW s \in Slots, NEW ans \in {"409", "422", "403", "lost"}, Answer(s, ans)
        PROVE  BasesShown'
    BY <1>4, <1>8, Answering DEF Answer, page
  <1>9. ASSUME NEW s \in Slots, Served(s)
        PROVE  BasesShown'
    <2>1. UNCHANGED <<policy, shown>>
      BY <1>9 DEF Served, StoreVersion, ServeRead, page
    <2>2. QED
      BY <1>4, <1>9, <2>1, Serving
  <1>10. CASE startEdit \/ cancelEdit \/ onDraftChanged \/ OtherSaves \/ UNCHANGED vars
    BY <1>4, <1>10 DEF startEdit, cancelEdit, onDraftChanged, OtherSaves, vars, page
  <1>11. QED
    BY Zenon, <1>1, <1>5, <1>6, <1>7, <1>8, <1>9, <1>10
       DEF Next, Admin, Serve, Deliver, RefuseWrite, Fail, Served

\* While the button is locked a write, or the refresh after it, is under way.
LEMMA SavingPreserved == IInv /\ [Next]_vars => SavingWhileWriting'
  <1> DEFINE Busy(s) == req[s].op \in Writes \cup {"history"}
  <1> SUFFICES ASSUME IInv, [Next]_vars, saving'
               PROVE  \E s \in Slots : Busy(s)'
    BY DEF SavingWhileWriting
  <1>0. TypeOK /\ 0 \in Versions /\ NoText \in Text /\ Copy(policy) \in Text
        /\ (saving => \E s \in Slots : Busy(s))
    BY FewVersions, CopyType DEF IInv, TypeOK, NoText, SavingWhileWriting
  <1> USE <1>0
  <1>1. ASSUME NEW s \in Slots, save(s) \/ restore(s) \/ Saved(s)
        PROVE  \E x \in Slots : Busy(x)'
    <2>1. CASE save(s)
      BY <2>1, Sending DEF save, Ops, Writes, TypeOK
    <2>2. CASE restore(s)
      BY <2>2, Sending DEF restore, Ops, Writes, TypeOK
    <2>3. CASE Saved(s)
      BY <2>3, Sending DEF Saved, Ops, Reads
    <2>4. QED
      BY <1>1, <2>1, <2>2, <2>3
  \* These unlock the button.
  <1>2. ASSUME NEW s \in Slots, HistoryRefreshed(s) \/ writeFailure(s)
        PROVE  FALSE
    BY <1>2 DEF HistoryRefreshed, writeFailure
  \* The rest leaves the button, and every request that keeps it locked, as they are.
  <1>3. ASSUME UNCHANGED saving, \A x \in Slots : Busy(x) => req'[x].op = req[x].op
        PROVE  \E x \in Slots : Busy(x)'
    BY <1>3
  <1>4. ASSUME NEW s \in Slots, UNCHANGED saving, ~Busy(s),
               \A x \in Slots \ {s} : req'[x] = req[x]
        PROVE  \E x \in Slots : Busy(x)'
    BY <1>3, <1>4
  <1>5. ASSUME NEW s \in Slots, load(s) \/ validate(s) \/ reloadKeepingDraft(s)
        PROVE  \E x \in Slots : Busy(x)'
    BY <1>4, <1>5, Sending
       DEF load, validate, reloadKeepingDraft, Unused, Ops, Reads, Writes, TypeOK
  <1>6. ASSUME NEW s \in Slots, Loaded(s) \/ Reloaded(s)
        PROVE  \E x \in Slots : Busy(x)'
    BY <1>4, <1>6, Sending DEF Loaded, Reloaded, Answered, Ops, Reads, Writes
  <1>7. ASSUME NEW s \in Slots, LoadDone(s) \/ Validated(s) \/ ReloadDone(s)
        PROVE  \E x \in Slots : Busy(x)'
    BY <1>4, <1>7, Ending DEF LoadDone, Validated, ReloadDone, Answered, Writes
  <1>8. ASSUME NEW s \in Slots, NEW ans \in {"409", "422", "403", "lost"}, Answer(s, ans)
        PROVE  \E x \in Slots : Busy(x)'
    BY <1>3, <1>8, Answering DEF Answer
  <1>9. ASSUME NEW s \in Slots, Served(s)
        PROVE  \E x \in Slots : Busy(x)'
    <2>1. UNCHANGED saving
      BY <1>9 DEF Served, StoreVersion, ServeRead
    <2>2. QED
      BY <1>3, <1>9, <2>1, Serving
  <1>10. CASE startEdit \/ cancelEdit \/ onDraftChanged \/ OtherSaves \/ UNCHANGED vars
    BY <1>3, <1>10 DEF startEdit, cancelEdit, onDraftChanged, OtherSaves, vars
  <1>11. QED
    BY Zenon, <1>1, <1>2, <1>5, <1>6, <1>7, <1>8, <1>9, <1>10
       DEF Next, Admin, Serve, Deliver, RefuseWrite, Fail, Served

\* The three parts hold initially.
LEMMA InitInv == Init => IInv
  <1> SUFFICES ASSUME Init
               PROVE  IInv
    OBVIOUS
  <1>0. NoText \in Text /\ 0 \in Versions
    BY FewVersions, CopyType DEF NoText
  <1>1. PICK s \in Slots :
          req = [x \in Slots |-> IF x = s THEN Request("load", 0, draft) ELSE Free]
    BY DEF Init
  <1>2. Request("load", 0, draft) \in Calls /\ Request("load", 0, draft).op = "load"
    BY <1>0, RequestType DEF Init, Ops, Reads
  <1>3. req \in [Slots -> Calls] /\ \A x \in Slots : req[x].op \in {"load", "free"}
    BY <1>1, <1>2, FreeType
  <1>4. TypeOK
    BY <1>0, <1>3, FewVersions DEF Init, TypeOK
  <1>5. QED
    BY <1>3, <1>4 DEF Init, IInv, BasesShown, SavingWhileWriting, Writes

-----------------------------------------------------------------------------
\* The inductive invariant: types, bases that were on display, and a button locked
\* only while a write of this page is on its way.
THEOREM Inductive == Spec => []IInv
  <1>1. IInv /\ [Next]_vars => IInv'
    BY TypePreserved, BasesPreserved, SavingPreserved DEF IInv
  <1>2. QED
    BY <1>1, InitInv, PTL DEF Spec

\* The editor's state, its requests and the store keep their types.
THEOREM TypeCorrect == Spec => []TypeOK
  <1>1. IInv => TypeOK
    BY DEF IInv
  <1>2. QED
    BY <1>1, Inductive, PTL

\* The Save button is never locked for good: every path through save and restore that
\* ends a request unlocks it.
THEOREM ButtonUnlocked == Spec => []SavingWhileWriting
  <1>1. IInv => SavingWhileWriting
    BY DEF IInv
  <1>2. QED
    BY <1>1, Inductive, PTL

\* A save or restore is only ever stored on top of a version the page has shown, whatever
\* is in flight, lost or done by others.
THEOREM NothingUnseenOverwritten == Spec => OverwritesOnlyShown
  <1> DEFINE Seen == \A s \in Slots : Stores(s) => latest \in shown
  <1>1. IInv /\ [Next]_vars => [Seen]_vars
    <2> SUFFICES ASSUME IInv, Next, NEW s \in Slots, Stores(s)
                 PROVE  latest \in shown
      OBVIOUS
    <2>1. TypeOK /\ BasesShown /\ 0 \in Versions /\ NoText \in Text /\ Copy(policy) \in Text
      BY FewVersions, CopyType DEF IInv, TypeOK, NoText
    <2> USE <2>1
    <2>2. ASSUME NEW x \in Slots, ~Sent(x, Writes), \A y \in Slots \ {x} : req'[y] = req[y]
          PROVE  FALSE
      BY <2>2 DEF Stores, Sent
    \* Neither the admin, nor an answer that is applied, nor a GET touches a write in flight.
    <2>3. ASSUME NEW x \in Slots, Admin(x)
          PROVE  FALSE
      <3>1. Unused(x)
        BY <2>3 DEF Admin, load, validate, save, restore, reloadKeepingDraft
      <3>2. \E op \in Ops, base \in Versions, text \in Text : Send(x, op, base, text)
        BY <2>3 DEF Admin, load, validate, save, restore, reloadKeepingDraft, Ops, Reads, Writes,
                    TypeOK
      <3>3. QED
        BY <2>2, <3>1, <3>2, Sending DEF Unused, Sent, Writes
    <2>4. ASSUME NEW x \in Slots, Deliver(x)
          PROVE  FALSE
      <3>1. ~Sent(x, Writes)
        BY <2>4 DEF Deliver, Loaded, LoadDone, Validated, Saved, HistoryRefreshed, writeFailure,
                    Reloaded, ReloadDone, Answered, Sent, Writes
      <3>2. End(x) \/ \E op \in Ops : Send(x, op, 0, NoText)
        BY <2>4 DEF Deliver, Loaded, LoadDone, Validated, Saved, HistoryRefreshed, writeFailure,
                    Reloaded, ReloadDone, Ops, Reads
      <3>3. QED
        BY <2>2, <3>1, <3>2, Sending, Ending
    <2>5. ASSUME NEW x \in Slots, NEW part \in Resources, ServeRead(x, part)
          PROVE  FALSE
      <3>1. ~Sent(x, Writes)
        BY <2>5 DEF ServeRead, Sent, Reads, Writes
      <3>2. \A y \in Slots \ {x} : req'[y] = req[y]
        BY <2>5 DEF ServeRead, TypeOK
      <3>3. QED
        BY <2>2, <3>1, <3>2
    \* A refusal or a loss is not the answer 200.
    <2>6. ASSUME NEW x \in Slots, NEW ans \in {"409", "422", "403", "lost"}, Answer(x, ans)
          PROVE  FALSE
      BY <2>6, Answering DEF Answer, Stores, Sent
    <2>7. ~(startEdit \/ cancelEdit \/ onDraftChanged \/ OtherSaves)
      BY DEF startEdit, cancelEdit, onDraftChanged, OtherSaves, Stores, Sent
    \* So it is stored, in this slot, on its base.
    <2>8. PICK x \in Slots : StoreVersion(x)
      BY <2>3, <2>4, <2>5, <2>6, <2>7 DEF Next, Serve, RefuseWrite, Fail
    <2>9. x = s
      <3>1. \A y \in Slots \ {x} : req'[y] = req[y]
        BY <2>8 DEF StoreVersion, TypeOK
      <3>2. QED
        BY <3>1 DEF Stores, Sent
    <2>10. QED
      BY <2>8, <2>9 DEF StoreVersion, Sent, BasesShown
  <1>2. QED
    BY <1>1, Inductive, PTL DEF Spec, OverwritesOnlyShown

\* A draft leaves the screen by Cancel or because a version was stored, never by a
\* conflict, a refusal, a lost answer or the end of another request.
THEOREM DraftNotLost == Spec => DraftKept
  <1> DEFINE Kept == editing /\ ~editing' /\ req' # req =>
                       \E s \in Slots : Answered(s, Writes, "200") /\ req'[s].op = "history"
  <1>1. IInv /\ [Next]_vars => [Kept]_vars
    <2> SUFFICES ASSUME IInv, Next, editing, ~editing', req' # req
                 PROVE  \E s \in Slots : Answered(s, Writes, "200") /\ req'[s].op = "history"
      OBVIOUS
    <2>1. TypeOK /\ 0 \in Versions /\ NoText \in Text
      BY FewVersions, CopyType DEF IInv, NoText
    <2>2. ~(startEdit \/ cancelEdit \/ onDraftChanged \/ OtherSaves)
      BY DEF startEdit, cancelEdit, onDraftChanged, OtherSaves, form
    <2>3. \A s \in Slots : ~Admin(s) /\ ~Serve(s)
      <3>1. \A s \in Slots : ~Admin(s)
        BY DEF Admin, load, validate, save, restore, reloadKeepingDraft, form
      <3>2. \A s \in Slots : ~(StoreVersion(s) \/ RefuseWrite(s) \/ Fail(s))
        BY DEF StoreVersion, RefuseWrite, Fail, Answer, form
      <3>3. \A s \in Slots : \A part \in Resources : ~ServeRead(s, part)
        BY DEF ServeRead, form
      <3>4. QED
        BY Zenon, <3>1, <3>2, <3>3 DEF Serve
    <2>4. PICK s \in Slots : Saved(s)
      <3>1. \A s \in Slots : ~(Loaded(s) \/ LoadDone(s) \/ Validated(s) \/ HistoryRefreshed(s)
                                \/ writeFailure(s) \/ Reloaded(s) \/ ReloadDone(s))
        BY DEF Loaded, LoadDone, Validated, HistoryRefreshed, writeFailure, Reloaded,
               ReloadDone, form
      <3>2. QED
        BY <2>2, <2>3, <3>1 DEF Next, Deliver
    <2>5. QED
      BY <2>1, <2>4, Sending DEF Saved, Ops, Reads
  <1>2. QED
    BY <1>1, Inductive, PTL DEF Spec, DraftKept
=============================================================================
