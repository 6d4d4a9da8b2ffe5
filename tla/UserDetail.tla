----------------------------- MODULE UserDetail -----------------------------
(***************************************************************************)
(* The page of one user (UserDetailView.vue) with its attributes card      *)
(* (UserAttributesCard.vue).  The page keeps one copy of the user; the     *)
(* card's rows follow the copy whenever it is replaced, by a load, by the  *)
(* answer to a save of the attributes and by the reload after a block.     *)
(* A save replaces the whole set.  The buttons lock separately, so a save  *)
(* and a block overlap.                                                    *)
(***************************************************************************)
EXTENDS Naturals

VARIABLES
    account,  \* the user as the server has it
    user,     \* the page's copy
    rows,     \* the attributes in the card
    request,  \* the requests of the page, one of each kind
    touched,  \* history: the rows were edited since they last followed the copy
    foreign   \* history: another admin wrote the attributes, or an overlap or a failure
              \* may have set page and server apart

userVars == <<account, user, rows, request, touched, foreign>>

\* Attribute sets are numbers; `rest` stands for the fields the page only shows.
Sets == {0, 1, 2}
User == [attributes : Sets, rest : {0, 1}, blocked : BOOLEAN]
NoUser == [attributes |-> 0, rest |-> 0, blocked |-> FALSE, missing |-> TRUE]

RequestKinds == {"load", "save", "block"}
NoRequest == [at |-> "idle", set |-> 0, answer |-> NoUser]
Asked(at) == [NoRequest EXCEPT !.at = at]
Quiet(k) == request[k].at = "idle"
Present == user # NoUser

Init ==
    /\ account \in {u \in User : u.attributes = 0 /\ u.rest = 0}
    /\ user = NoUser /\ rows = 0
    /\ request = [k \in RequestKinds |-> IF k = "load" THEN Asked("reading") ELSE NoRequest]
    /\ touched = FALSE /\ foreign = FALSE

-----------------------------------------------------------------------------
(* The admin *)

\* The rows and the Reset button are disabled while the attributes are saved.
EditRows ==
    /\ Present /\ Quiet("save")
    /\ rows' \in Sets \ {rows}
    /\ touched' = TRUE
    /\ UNCHANGED <<account, user, request, foreign>>

reset ==
    /\ Present /\ Quiet("save")
    /\ rows' = user.attributes
    /\ touched' = FALSE
    /\ UNCHANGED <<account, user, request, foreign>>

Overlap(k) == foreign \/ \E other \in RequestKinds \ {k} : ~Quiet(other)

save ==
    /\ Present /\ Quiet("save")
    /\ request' = [request EXCEPT !["save"] = [Asked("writing") EXCEPT !.set = rows]]
    /\ foreign' = Overlap("save")
    /\ UNCHANGED <<account, user, rows, touched>>

blockAccount ==
    /\ Present /\ Quiet("block")
    /\ request' = [request EXCEPT !["block"] = Asked("writing")]
    /\ foreign' = Overlap("block")
    /\ UNCHANGED <<account, user, rows, touched>>

-----------------------------------------------------------------------------
(* The server *)

ServeRequest(k) ==
    /\ request[k].at \in {"writing", "reading"}
    /\ account' = IF request[k].at = "reading" THEN account
                  ELSE IF k = "save" THEN [account EXCEPT !.attributes = request[k].set]
                  ELSE [account EXCEPT !.blocked = TRUE]
    /\ request' = [request EXCEPT
          ![k].at = IF request[k].at = "reading" THEN "read" ELSE "written",
          ![k].answer = IF k = "block" /\ request[k].at = "writing" THEN NoUser ELSE account']
    /\ UNCHANGED <<user, rows, touched, foreign>>

\* Another admin saves attributes, or the user's other data changes.
Elsewhere ==
    /\ \/ /\ \E s \in Sets \ {account.attributes} :
                account' = [account EXCEPT !.attributes = s]
          /\ foreign' = TRUE
       \/ /\ account' = [account EXCEPT !.rest = 1 - @]
          /\ UNCHANGED foreign
    /\ UNCHANGED <<user, rows, request, touched>>

-----------------------------------------------------------------------------
(* What becomes of a request *)

\* The copy is replaced, and the card's watcher resets the rows.
Replace(u) ==
    /\ user' = u
    /\ rows' = u.attributes
    /\ touched' = FALSE

\* loadUserData: the copy and its memberships (loads of their own, see ListViews).
UserLoaded ==
    /\ request["load"].at = "read"
    /\ Replace(request["load"].answer)
    /\ request' = [request EXCEPT !["load"] = NoRequest]
    /\ UNCHANGED <<account, foreign>>

\* Mutant of AttributesSaved: the page is not told of the saved user.
AttributesSavedQuietly ==
    /\ request["save"].at = "written"
    /\ touched' = FALSE
    /\ request' = [request EXCEPT !["save"] = NoRequest]
    /\ UNCHANGED <<account, user, rows, foreign>>

\* The answer's fields replace those of the copy, which it repeats in full.
AttributesSaved ==
    /\ request["save"].at = "written"
    /\ Replace(request["save"].answer)
    /\ request' = [request EXCEPT !["save"] = NoRequest]
    /\ UNCHANGED <<account, foreign>>

\* The user is blocked; the page reads it again with the button still locked.
Blocked ==
    /\ request["block"].at = "written"
    /\ request' = [request EXCEPT !["block"] = Asked("reading")]
    /\ UNCHANGED <<account, user, rows, touched, foreign>>

BlockShown ==
    /\ request["block"].at = "read"
    /\ Replace(request["block"].answer)
    /\ request' = [request EXCEPT !["block"] = NoRequest]
    /\ UNCHANGED <<account, foreign>>

\* Refused or lost, before it was performed or after.  A failed reload reports the block
\* itself as failed; a user that does not load stays away.
RequestFailed(k) ==
    /\ ~Quiet(k)
    /\ request' = [request EXCEPT ![k] = NoRequest]
    /\ foreign' = (foreign \/ k = "save")
    /\ UNCHANGED <<account, user, rows, touched>>

Next ==
    \/ EditRows \/ reset \/ save \/ blockAccount
    \/ \E k \in RequestKinds : ServeRequest(k) \/ RequestFailed(k)
    \/ Elsewhere
    \/ UserLoaded \/ AttributesSaved \/ Blocked \/ BlockShown

Spec == Init /\ [][Next]_userVars

-----------------------------------------------------------------------------
(* Properties *)

UserTypeOK ==
    /\ account \in User /\ user \in User \cup {NoUser} /\ rows \in Sets
    /\ request \in [RequestKinds -> [at : {"idle", "writing", "written", "reading", "read"},
                                     set : Sets, answer : User \cup {NoUser}]]
    /\ touched \in BOOLEAN /\ foreign \in BOOLEAN

\* "Saving replaces the whole set" (UserAttributesCard.vue), so a set that the admin has
\* not touched must be the server's: saving it changes nothing, however often the page
\* saved, blocked and reset before, unless a save met a block, failed, or another admin
\* wrote the attributes.
UntouchedSaveHarmless ==
    Present /\ ~touched /\ ~foreign => rows = account.attributes
=============================================================================
