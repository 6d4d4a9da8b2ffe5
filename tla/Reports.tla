------------------------------- MODULE Reports -------------------------------
(***************************************************************************)
(* The reports page (ReportsView.vue): a report is generated, listed, and  *)
(* polled every three seconds until it is finished.  An interval does not  *)
(* wait for the answer to its last poll, so polls of one report overlap.   *)
(***************************************************************************)
EXTENDS Naturals

CONSTANTS ReportIds,  \* reports the server may make
          Polls       \* slots for polls in flight

VARIABLES
    remote,      \* the server's reports
    listed,      \* reports.value: each report as the page last saw it
    pollers,     \* reports with an interval
    polls,       \* the polls in flight
    generating,  \* the request for a report, and the report and state it is answered with
    mounted,     \* the page is on screen
    crossed,     \* history: reports of which two polls were in flight at once
    unpolled,    \* history: reports of which a poll failed
    late         \* history: reports whose generation was answered after the page was left

reportVars == <<remote, listed, pollers, polls, generating, mounted, crossed, unpolled, late>>

Finished == {"completed", "failed"}
Unfinished == {"pending", "processing"}
NoPoll == [of |-> "none", at |-> "idle", answer |-> "none"]
NoRequest == NoPoll
Polling(r) == \E p \in Polls : polls[p].of = r

Init ==
    /\ remote = [r \in ReportIds |-> "none"] /\ listed = remote
    /\ pollers = {} /\ polls = [p \in Polls |-> NoPoll]
    /\ generating = NoRequest /\ mounted = TRUE
    /\ crossed = {} /\ unpolled = {} /\ late = {}

\* The admin asks for a report; the button is locked until the answer.
generate ==
    /\ mounted /\ generating = NoRequest
    /\ generating' = [NoRequest EXCEPT !.at = "sent"]
    /\ UNCHANGED <<remote, listed, pollers, polls, mounted, crossed, unpolled, late>>

\* The server starts a report, which may be ready at once.
Generates(r) ==
    /\ generating.at = "sent" /\ remote[r] = "none"
    /\ \E s \in Finished \cup Unfinished : remote' = [remote EXCEPT ![r] = s]
    /\ generating' = [of |-> r, at |-> "served", answer |-> remote'[r]]
    /\ UNCHANGED <<listed, pollers, polls, mounted, crossed, unpolled, late>>

\* Mutant of Generated: a report that is already being made is not polled.
GeneratedPending(r) ==
    /\ generating.of = r
    /\ listed' = [listed EXCEPT ![r] = generating.answer]
    /\ pollers' = IF generating.answer = "pending" THEN pollers \cup {r} ELSE pollers
    /\ generating' = NoRequest
    /\ late' = IF mounted THEN late ELSE late \cup {r}
    /\ UNCHANGED <<remote, polls, mounted, crossed, unpolled>>

\* The answer shows the report as it was when it was asked for; an unfinished one gets an
\* interval, whether or not the page is still there.
Generated(r) ==
    /\ generating.of = r
    /\ listed' = [listed EXCEPT ![r] = generating.answer]
    /\ pollers' = IF generating.answer \in Unfinished THEN pollers \cup {r} ELSE pollers
    /\ generating' = NoRequest
    /\ late' = IF mounted THEN late ELSE late \cup {r}
    /\ UNCHANGED <<remote, polls, mounted, crossed, unpolled>>

\* A request that fails reports an error; the server may have started a report unseen.
GenerateFailed ==
    /\ generating # NoRequest
    /\ generating' = NoRequest
    /\ UNCHANGED <<remote, listed, pollers, polls, mounted, crossed, unpolled, late>>

\* The server goes on with a report.
Works(r) ==
    /\ \/ remote[r] = "pending" /\ remote' = [remote EXCEPT ![r] = "processing"]
       \/ /\ remote[r] = "processing"
          /\ \E s \in Finished : remote' = [remote EXCEPT ![r] = s]
    /\ UNCHANGED <<listed, pollers, polls, generating, mounted, crossed, unpolled, late>>

-----------------------------------------------------------------------------
(* Polling *)

\* The interval elapses.
Elapses(r) ==
    /\ r \in pollers
    /\ \E p \in Polls : /\ polls[p] = NoPoll
                        /\ polls' = [polls EXCEPT ![p] = [NoPoll EXCEPT !.of = r, !.at = "sent"]]
    /\ crossed' = IF Polling(r) THEN crossed \cup {r} ELSE crossed
    /\ UNCHANGED <<remote, listed, pollers, generating, mounted, unpolled, late>>

ServePoll(p) ==
    /\ polls[p].at = "sent"
    /\ polls' = [polls EXCEPT ![p].at = "served", ![p].answer = remote[polls[p].of]]
    /\ UNCHANGED <<remote, listed, pollers, generating, mounted, crossed, unpolled, late>>

\* The answer is shown, in whatever order answers arrive; a finished report is not polled
\* again.
PollAnswered(p) ==
    LET r == polls[p].of IN
    /\ polls[p].at = "served"
    /\ listed' = [listed EXCEPT ![r] = polls[p].answer]
    /\ pollers' = IF polls[p].answer \in Finished THEN pollers \ {r} ELSE pollers
    /\ polls' = [polls EXCEPT ![p] = NoPoll]
    /\ UNCHANGED <<remote, generating, mounted, crossed, unpolled, late>>

\* A poll that fails ends the polling, with an error.
PollFailed(p) ==
    LET r == polls[p].of IN
    /\ polls[p] # NoPoll
    /\ pollers' = pollers \ {r}
    /\ polls' = [polls EXCEPT ![p] = NoPoll]
    /\ unpolled' = unpolled \cup {r}
    /\ UNCHANGED <<remote, listed, generating, mounted, crossed, late>>

\* onBeforeUnmount: the admin leaves the page.
Unmount ==
    /\ mounted /\ mounted' = FALSE
    /\ pollers' = {}
    /\ UNCHANGED <<remote, listed, polls, generating, crossed, unpolled, late>>

\* The page is opened again, with no reports, once nothing of the last one is under way.
Reopen ==
    /\ ~mounted /\ mounted' = TRUE
    /\ generating = NoRequest /\ pollers = {} /\ \A p \in Polls : polls[p] = NoPoll
    /\ listed' = [r \in ReportIds |-> "none"]
    /\ crossed' = {} /\ unpolled' = {} /\ late' = {}
    /\ UNCHANGED <<remote, pollers, polls, generating>>

Next ==
    \/ generate \/ GenerateFailed \/ Unmount \/ Reopen
    \/ \E r \in ReportIds : Generates(r) \/ Generated(r) \/ Works(r) \/ Elapses(r)
    \/ \E p \in Polls : ServePoll(p) \/ PollAnswered(p) \/ PollFailed(p)

Spec == Init /\ [][Next]_reportVars

-----------------------------------------------------------------------------
(* Properties *)

ReportsTypeOK ==
    LET states == Finished \cup Unfinished \cup {"none"} IN
    /\ remote \in [ReportIds -> states] /\ listed \in [ReportIds -> states]
    /\ pollers \subseteq ReportIds
    /\ LET requests == [of : ReportIds \cup {"none"}, at : {"idle", "sent", "served"},
                        answer : states] IN
       polls \in [Polls -> requests] /\ generating \in requests
    /\ mounted \in BOOLEAN
    /\ crossed \subseteq ReportIds /\ unpolled \subseteq ReportIds /\ late \subseteq ReportIds

\* A report shown as unfinished is being polled, so that it is seen to finish, and one
\* shown as finished is, unless a poll failed or two polls of it overlapped (an older
\* answer applied last then shows a finished report as unfinished for good).  Off the
\* page nothing is polled, except a report whose generation was answered after it.
PolledUntilFinished ==
    /\ \A r \in ReportIds \ (crossed \cup unpolled) :
          /\ mounted /\ listed[r] \in Unfinished => r \in pollers
          /\ listed[r] \in Finished => listed[r] = remote[r] /\ r \notin pollers
    /\ ~mounted => pollers \subseteq late
=============================================================================
