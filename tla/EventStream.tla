----------------------------- MODULE EventStream -----------------------------
(***************************************************************************)
(* The live events of the security dashboard: toggleLive and stopLive of   *)
(* SecurityDashboardView.vue over connectSecurityEventStream of            *)
(* monitoringService.ts, which reads a response body until it ends, fails  *)
(* or is aborted.  A stream that was stopped finishes in its own time,     *)
(* while the admin may have started the next.                              *)
(***************************************************************************)
EXTENDS Naturals

CONSTANTS Streams, NoStream   \* slots for streams, and none of them

VARIABLES
    live,         \* the dashboard shows the events as live
    eventStream,  \* the handle it holds
    stream,       \* per slot: how far the loop that reads it has got
    aborted,      \* per slot: its controller was aborted
    shownOn       \* the dashboard is on screen

streamVars == <<live, eventStream, stream, aborted, shownOn>>

\* "failing": the fetch or a read is rejected, and its catch has not run yet;
\* "ended": the server ended the stream, and the loop with it.
StreamStates == {"none", "connecting", "open", "failing", "ended"}
Connected(s) == stream[s] \in {"connecting", "open"}

Init ==
    /\ live = FALSE /\ eventStream = NoStream /\ shownOn = TRUE
    /\ stream = [s \in Streams |-> "none"]
    /\ aborted = [s \in Streams |-> FALSE]

\* Mutant of stopLive: the handle is dropped without closing the stream.
stopLiveOpen ==
    /\ live' = FALSE /\ eventStream' = NoStream
    /\ UNCHANGED aborted

stopLive ==
    /\ live' = FALSE /\ eventStream' = NoStream
    /\ aborted' = [s \in Streams |-> aborted[s] \/ s = eventStream]

\* toggleLive: the slot's last loop has finished.
StartLive(s) ==
    /\ shownOn /\ ~live
    /\ stream[s] \in {"none", "ended"}
    /\ live' = TRUE /\ eventStream' = s
    /\ stream' = [stream EXCEPT ![s] = "connecting"]
    /\ aborted' = [aborted EXCEPT ![s] = FALSE]
    /\ UNCHANGED shownOn

StopLive == shownOn /\ live /\ stopLive /\ UNCHANGED <<stream, shownOn>>

Leave == shownOn /\ shownOn' = FALSE /\ stopLive /\ UNCHANGED stream

\* The dashboard is opened again; streams of the last one may not have finished.
Return ==
    /\ ~shownOn /\ shownOn' = TRUE
    /\ UNCHANGED <<live, eventStream, stream, aborted>>

\* The server answers with the stream.
Opens(s) ==
    /\ stream[s] = "connecting" /\ ~aborted[s]
    /\ stream' = [stream EXCEPT ![s] = "open"]
    /\ UNCHANGED <<live, eventStream, aborted, shownOn>>

\* Refused, broken, or aborted: the fetch or the read is rejected.
Breaks(s) ==
    /\ Connected(s)
    /\ stream' = [stream EXCEPT ![s] = "failing"]
    /\ UNCHANGED <<live, eventStream, aborted, shownOn>>

\* The server ends the stream: the loop ends and nobody is told.
Ends(s) ==
    /\ stream[s] = "open"
    /\ stream' = [stream EXCEPT ![s] = "ended"]
    /\ UNCHANGED <<live, eventStream, aborted, shownOn>>

\* The catch: the failure of a stream that was not stopped stops the dashboard's.
Caught(s) ==
    /\ stream[s] = "failing"
    /\ stream' = [stream EXCEPT ![s] = "none"]
    /\ IF aborted[s] THEN UNCHANGED <<live, eventStream, aborted>> ELSE stopLive
    /\ UNCHANGED shownOn

Next ==
    \/ StopLive \/ Leave \/ Return
    \/ \E s \in Streams : StartLive(s) \/ Opens(s) \/ Breaks(s) \/ Ends(s) \/ Caught(s)

Spec == Init /\ [][Next]_streamVars

-----------------------------------------------------------------------------
(* Properties *)

StreamTypeOK ==
    /\ live \in BOOLEAN /\ shownOn \in BOOLEAN
    /\ eventStream \in Streams \cup {NoStream}
    /\ stream \in [Streams -> StreamStates] /\ aborted \in [Streams -> BOOLEAN]

\* Events are shown as live only over the one stream the dashboard holds, and no other
\* stream stays connected: a stream that was stopped, or whose failure is noticed after
\* the next was started, neither feeds the dashboard nor ends the new one.  (A stream
\* that the server ends is still shown as live: nothing tells the dashboard.)
LiveOverItsStream ==
    /\ live <=> eventStream # NoStream
    /\ live => ~aborted[eventStream] /\ stream[eventStream] # "none" /\ shownOn
    /\ \A s \in Streams : stream[s] \in {"connecting", "open", "failing"} /\ ~aborted[s]
                            => eventStream = s
=============================================================================
