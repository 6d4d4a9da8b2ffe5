---------------------------- MODULE ConsoleProofs ----------------------------
(***************************************************************************)
(* The console's pages keep their promises, however many fields, rows,     *)
(* reports, polls and streams there are.  The pages share no variable, so  *)
(* each has an inductive invariant of its own, below in a section of its   *)
(* own, and the console's is their conjunction.                            *)
(*                                                                         *)
(* What makes them inductive is what each page knows of its requests:      *)
(* what one that is under way may write (ApplicationDetail), what an       *)
(* answer will show (UserDetail, Reports), which calls of an operation     *)
(* are left (MfaCard), and that rows and names are as many (SettingsRows,  *)
(* by counting).                                                           *)
(***************************************************************************)
EXTENDS Console, SequenceTheorems, FiniteSetTheorems, TLAPS

-----------------------------------------------------------------------------
(* Live events (EventStream) *)

StreamInv == Stream!StreamTypeOK /\ Stream!LiveOverItsStream

LEMMA StreamStarts == Stream!Init => StreamInv
  BY StreamAssumption
     DEF Stream!Init, StreamInv, Stream!StreamTypeOK, Stream!StreamStates,
         Stream!LiveOverItsStream

\* A stream is stopped: none stays connected, for only the one that is held was.
LEMMA Stopping ==
  ASSUME StreamInv, Stream!stopLive, UNCHANGED stream, shownOn' \in BOOLEAN
  PROVE  StreamInv'
  BY StreamAssumption
     DEF StreamInv, Stream!stopLive, Stream!StreamTypeOK, Stream!LiveOverItsStream

LEMMA StreamStep == StreamInv /\ [Stream!Next]_streamVars => StreamInv'
  <1> SUFFICES ASSUME StreamInv, [Stream!Next]_streamVars
               PROVE  StreamInv'
    OBVIOUS
  <1> USE StreamAssumption
  <1>1. CASE Stream!StopLive
    BY <1>1, Stopping DEF Stream!StopLive, StreamInv, Stream!StreamTypeOK
  <1>2. CASE Stream!Leave
    BY <1>2, Stopping DEF Stream!Leave
  <1>3. CASE Stream!Return
    BY <1>3 DEF Stream!Return, StreamInv, Stream!StreamTypeOK, Stream!LiveOverItsStream
  <1>4. ASSUME NEW s \in Streams, Stream!StartLive(s)
        PROVE  StreamInv'
    BY <1>4 DEF Stream!StartLive, StreamInv, Stream!StreamTypeOK, Stream!StreamStates,
                Stream!LiveOverItsStream
  <1>5. ASSUME NEW s \in Streams, Stream!Opens(s) \/ Stream!Breaks(s) \/ Stream!Ends(s)
        PROVE  StreamInv'
    BY <1>5 DEF Stream!Opens, Stream!Breaks, Stream!Ends, Stream!Connected, StreamInv,
                Stream!StreamTypeOK, Stream!StreamStates, Stream!LiveOverItsStream
  <1>6. ASSUME NEW s \in Streams, Stream!Caught(s)
        PROVE  StreamInv'
    BY <1>6 DEF Stream!Caught, Stream!stopLive, StreamInv, Stream!StreamTypeOK,
                Stream!StreamStates, Stream!LiveOverItsStream
  <1>7. CASE UNCHANGED streamVars
    BY <1>7 DEF streamVars, StreamInv, Stream!StreamTypeOK, Stream!LiveOverItsStream
  <1>8. QED
    BY <1>1, <1>2, <1>3, <1>4, <1>5, <1>6, <1>7 DEF Stream!Next

-----------------------------------------------------------------------------
(* The MFA card (MfaCard) *)

\* What is left of an operation.
Remainders == {<<>>, <<"status">>, <<"enroll">>, <<"codes", "status">>,
               <<"confirm", "codes", "status">>, <<"disable", "status">>}

\* The card and the issuer, while an operation is under way: the status was right unless
\* the calls that are left end in loading it, and one that was read is the issuer's.
CardInv ==
    /\ handed = codes
    /\ ~unsure =>
         /\ ~loadError /\ (Mfa!Under => Mfa!Current("enroll")) => (status = "on" <=> mfaOn)
         /\ Mfa!Current("status") /\ op.served => (op.on <=> mfaOn)

MfaInv == Mfa!MfaTypeOK /\ CardInv

\* The ends of a sequence of up to three calls.
LEMMA Suffix ==
  ASSUME NEW S, NEW s \in Seq(S), s # <<>>
  PROVE  /\ SubSeq(s, 1, Len(s)) = s /\ SubSeq(s, 2, Len(s)) = Tail(s)
         /\ \A i \in Nat : i > Len(s) => SubSeq(s, i, Len(s)) = <<>>
  <1>1. Len(s) \in Nat
    BY LenProperties
  <1>2. QED
    BY <1>1, SubSeqFull, TailIsSubSeq, SubSeqEmpty

LEMMA SuffixesOfOne ==
  ASSUME NEW c
  PROVE  SubSeq(<<c>>, 1, 1) = <<c>> /\ \A i \in 2..4 : SubSeq(<<c>>, i, 1) = <<>>
  <1> DEFINE s == <<c>>
  <1>1. s \in Seq({c})
    OBVIOUS
  <1>2. Len(s) = 1 /\ s # <<>>
    OBVIOUS
  <1> HIDE DEF s
  <1>3. SubSeq(s, 1, 1) = s /\ \A i \in 2..4 : SubSeq(s, i, 1) = <<>>
    BY <1>1, <1>2, Suffix
  <1>4. QED
    BY <1>3 DEF s

LEMMA SuffixesOfTwo ==
  ASSUME NEW b, NEW c
  PROVE  /\ SubSeq(<<b, c>>, 1, 2) = <<b, c>> /\ SubSeq(<<b, c>>, 2, 2) = <<c>>
         /\ SubSeq(<<b, c>>, 3, 2) = <<>> /\ SubSeq(<<b, c>>, 4, 2) = <<>>
  <1> DEFINE s == <<b, c>>
  <1>1. s \in Seq({b, c})
    OBVIOUS
  <1>2. Len(s) = 2 /\ s # <<>> /\ Tail(s) = <<c>>
    OBVIOUS
  <1> HIDE DEF s
  <1>3. /\ SubSeq(s, 1, 2) = s /\ SubSeq(s, 2, 2) = Tail(s)
        /\ SubSeq(s, 3, 2) = <<>> /\ SubSeq(s, 4, 2) = <<>>
    BY <1>1, <1>2, Suffix
  <1>4. QED
    BY <1>2, <1>3 DEF s

LEMMA SuffixesOfThree ==
  ASSUME NEW a, NEW b, NEW c
  PROVE  /\ SubSeq(<<a, b, c>>, 1, 3) = <<a, b, c>> /\ SubSeq(<<a, b, c>>, 2, 3) = <<b, c>>
         /\ SubSeq(<<a, b, c>>, 3, 3) = <<c>> /\ SubSeq(<<a, b, c>>, 4, 3) = <<>>
  <1> DEFINE s == <<a, b, c>>
             last == SubSeq(s, 3, 3)
  <1>1. s \in Seq({a, b, c})
    OBVIOUS
  <1>2. Len(s) = 3 /\ s # <<>> /\ Tail(s) = <<b, c>> /\ s[3] = c
    OBVIOUS
  <1> HIDE DEF s
  <1>3. SubSeq(s, 1, 3) = s /\ SubSeq(s, 2, 3) = Tail(s) /\ SubSeq(s, 4, 3) = <<>>
    BY <1>1, <1>2, Suffix
  <1>4. last = <<c>>
    <2>1. \A i \in 3..3 : s[i] \in {c}
      BY <1>2
    <2>2. /\ last \in Seq({c}) /\ Len(last) = IF 3 <= 3 THEN 3 - 3 + 1 ELSE 0
          /\ \A i \in 1..3-3+1 : last[i] = s[3+i-1]
      BY <2>1, SubSeqProperties
    <2>3. <<c>> \in Seq({c}) /\ Len(<<c>>) = 1 /\ <<c>>[1] = c
      OBVIOUS
    <2> HIDE DEF last
    <2>4. QED
      BY <2>2, <2>3, <1>2, SeqEqual
  <1>5. QED
    BY <1>2, <1>3, <1>4 DEF s

\* The calls of each operation, and how many they are.
LEMMA CallsOf ==
  /\ Mfa!Calls("mount") = <<"status">> /\ Len(Mfa!Calls("mount")) = 1
  /\ Mfa!Calls("start") = <<"enroll">> /\ Len(Mfa!Calls("start")) = 1
  /\ Mfa!Calls("newCodes") = <<"codes", "status">> /\ Len(Mfa!Calls("newCodes")) = 2
  /\ Mfa!Calls("disable") = <<"disable", "status">> /\ Len(Mfa!Calls("disable")) = 2
  /\ Mfa!Calls("confirm") = <<"confirm", "codes", "status">> /\ Len(Mfa!Calls("confirm")) = 3
  BY DEF Mfa!Calls

LEMMA Suffixes ==
  {SubSeq(Mfa!Calls(o), i, Len(Mfa!Calls(o))) : o \in Mfa!Operations, i \in 1..4} = Remainders
  <1> DEFINE left(o, i) == SubSeq(Mfa!Calls(o), i, Len(Mfa!Calls(o)))
  <1>1. /\ left("mount", 1) = <<"status">> /\ left("start", 1) = <<"enroll">>
        /\ \A i \in 2..4 : left("mount", i) = <<>> /\ left("start", i) = <<>>
    BY SuffixesOfOne, CallsOf
  <1>2. /\ left("newCodes", 1) = <<"codes", "status">> /\ left("newCodes", 2) = <<"status">>
        /\ left("newCodes", 3) = <<>> /\ left("newCodes", 4) = <<>>
    BY SuffixesOfTwo, CallsOf
  <1>3. /\ left("disable", 1) = <<"disable", "status">> /\ left("disable", 2) = <<"status">>
        /\ left("disable", 3) = <<>> /\ left("disable", 4) = <<>>
    BY SuffixesOfTwo, CallsOf
  <1>4. /\ left("confirm", 1) = <<"confirm", "codes", "status">>
        /\ left("confirm", 2) = <<"codes", "status">>
        /\ left("confirm", 3) = <<"status">> /\ left("confirm", 4) = <<>>
    <2> DEFINE s == <<"confirm", "codes", "status">>
    <2>1. /\ SubSeq(s, 1, 3) = s /\ SubSeq(s, 2, 3) = <<"codes", "status">>
          /\ SubSeq(s, 3, 3) = <<"status">> /\ SubSeq(s, 4, 3) = <<>>
      BY SuffixesOfThree
    <2>2. Mfa!Calls("confirm") = s /\ Len(s) = 3
      BY CallsOf
    <2> HIDE DEF s
    <2>3. QED
      BY <2>1, <2>2 DEF s
  <1> HIDE DEF left
  <1>5. \A o \in Mfa!Operations, i \in 1..4 : left(o, i) \in Remainders
    BY <1>1, <1>2, <1>3, <1>4 DEF Mfa!Operations, Remainders
  <1>6. \A t \in Remainders : \E o \in Mfa!Operations, i \in 1..4 : t = left(o, i)
    <2>1. /\ <<>> = left("mount", 2) /\ <<"status">> = left("mount", 1)
          /\ <<"enroll">> = left("start", 1) /\ <<"codes", "status">> = left("newCodes", 1)
          /\ <<"confirm", "codes", "status">> = left("confirm", 1)
          /\ <<"disable", "status">> = left("disable", 1)
      BY <1>1, <1>2, <1>3, <1>4
    <2>2. 1 \in 1..4 /\ 2 \in 1..4
      OBVIOUS
    <2>3. QED
      BY <2>1, <2>2 DEF Mfa!Operations, Remainders
  <1>7. {left(o, i) : o \in Mfa!Operations, i \in 1..4} = Remainders
    BY <1>5, <1>6
  <1>8. QED
    BY <1>7 DEF left

\* What is left of an operation has a first call unless it is over.
LEMMA Heads ==
  ASSUME NEW t \in Remainders
  PROVE  /\ t # <<>> => Head(t) \in {"status", "enroll", "codes", "confirm", "disable"}
                          /\ Tail(t) \in Remainders
         /\ t # <<>> => (Tail(t) = <<>> <=> Head(t) \in {"status", "enroll"})
         /\ t # <<>> /\ Tail(t) # <<>> => Head(Tail(t)) \in {"status", "codes"}
  <1>1. CASE t = <<>>
    BY <1>1
  <1>2. CASE t = <<"status">>
    BY <1>2 DEF Remainders
  <1>3. CASE t = <<"enroll">>
    BY <1>3 DEF Remainders
  <1>4. CASE t = <<"codes", "status">>
    BY <1>4 DEF Remainders
  <1>5. CASE t = <<"confirm", "codes", "status">>
    BY <1>5 DEF Remainders
  <1>6. CASE t = <<"disable", "status">>
    BY <1>6 DEF Remainders
  <1>7. QED
    BY <1>1, <1>2, <1>3, <1>4, <1>5, <1>6 DEF Remainders

LEMMA CallsLeft ==
  \A o \in Mfa!Operations :
     /\ Mfa!Calls(o) \in Remainders /\ Mfa!Calls(o) # <<>>
     /\ o = "mount" => Head(Mfa!Calls(o)) = "status"
     /\ o # "mount" => Head(Mfa!Calls(o)) # "status"
     /\ o \in {"confirm", "newCodes", "disable"} => Head(Mfa!Calls(o)) # "enroll"
  BY CallsOf DEF Mfa!Operations, Remainders

MfaTyped ==
    /\ mfaOn \in BOOLEAN /\ status \in {"none", "on", "off"}
    /\ enrollment \in BOOLEAN /\ codes \in BOOLEAN /\ disabling \in BOOLEAN
    /\ loadError \in BOOLEAN /\ handed \in BOOLEAN /\ unsure \in BOOLEAN
    /\ op \in [todo : Remainders, served : BOOLEAN, on : BOOLEAN]

LEMMA MfaTypes == (Mfa!MfaTypeOK <=> MfaTyped) /\ (Mfa!MfaTypeOK <=> MfaTyped)'
  BY Suffixes DEF Mfa!MfaTypeOK, MfaTyped

LEMMA MfaStarts == Mfa!Init => MfaInv
  <1> SUFFICES ASSUME Mfa!Init
               PROVE  MfaTyped /\ CardInv
    BY MfaTypes DEF MfaInv
  <1>1. op = [todo |-> <<"status">>, served |-> FALSE, on |-> FALSE]
    BY CallsOf DEF Mfa!Init, Mfa!Begun
  <1>2. MfaTyped
    <2>1. <<"status">> \in Remainders
      BY DEF Remainders
    <2>2. op \in [todo : Remainders, served : BOOLEAN, on : BOOLEAN]
      BY <2>1, <1>1
    <2>3. QED
      BY <2>2 DEF Mfa!Init, MfaTyped
  <1>3. Head(op.todo) = "status" /\ op.todo # <<>> /\ ~op.served
    BY <1>1
  <1>4. CardInv
    BY <1>3 DEF Mfa!Init, CardInv, Mfa!Under, Mfa!Current
  <1>5. QED
    BY <1>2, <1>4

\* A call is answered, and the next one of the operation is made.
LEMMA Advancing ==
  ASSUME MfaTyped, NEW c, Mfa!AnsweredMfa(c)
  PROVE  /\ op' \in [todo : Remainders, served : BOOLEAN, on : BOOLEAN]
         /\ op'.served = FALSE /\ op.served /\ op.todo # <<>> /\ Head(op.todo) = c
         /\ op'.todo = <<>> <=> c \in {"status", "enroll"}
         /\ op'.todo # <<>> => Head(op'.todo) \in {"codes", "status"}
         /\ UNCHANGED <<mfaOn, unsure>>
  <1>1. op' = [op EXCEPT !.todo = Tail(@), !.served = FALSE, !.on = FALSE]
    BY DEF Mfa!AnsweredMfa, Mfa!Advanced
  <1>2. op'.todo = Tail(op.todo) /\ op'.served = FALSE /\ op'.on = FALSE
    BY <1>1 DEF MfaTyped
  <1>3. op.todo \in Remainders /\ op.todo # <<>> /\ Head(op.todo) = c /\ op.served
    BY DEF MfaTyped, Mfa!AnsweredMfa, Mfa!Current, Mfa!Under
  <1>4. op' \in [todo : Remainders, served : BOOLEAN, on : BOOLEAN]
    BY <1>1, <1>3, Heads DEF MfaTyped
  <1>5. UNCHANGED <<mfaOn, unsure>>
    BY DEF Mfa!AnsweredMfa
  <1>6. QED
    BY <1>2, <1>3, <1>4, <1>5, Heads

LEMMA MfaStep == MfaInv /\ [Mfa!Next]_mfaVars => MfaInv'
  <1> SUFFICES ASSUME MfaTyped, CardInv, [Mfa!Next]_mfaVars
               PROVE  MfaTyped' /\ CardInv'
    BY MfaTypes DEF MfaInv
  <1>1. ASSUME NEW o \in {"start", "confirm", "newCodes", "disable"}, NEW screen,
               Mfa!Begin(o, screen)
        PROVE  MfaTyped' /\ CardInv'
    <2>1. /\ o \in Mfa!Operations /\ o # "mount"
          /\ Mfa!Calls(o) \in Remainders /\ Mfa!Calls(o) # <<>>
          /\ Head(Mfa!Calls(o)) # "status" /\ (Head(Mfa!Calls(o)) = "enroll" => o = "start")
      BY CallsLeft DEF Mfa!Operations
    <2>2. op' = [todo |-> Mfa!Calls(o), served |-> FALSE, on |-> FALSE] /\ ~Mfa!Under
          /\ UNCHANGED <<mfaOn, status, enrollment, codes, disabling, loadError, handed, unsure>>
      BY <1>1 DEF Mfa!Begin, Mfa!Begun
    <2>3. MfaTyped'
      BY <2>1, <2>2 DEF MfaTyped
    <2>4. op'.todo = Mfa!Calls(o) /\ op'.served = FALSE
      BY <2>2
    <2>5. CardInv'
      BY <2>1, <2>2, <2>4 DEF CardInv, Mfa!Under, Mfa!Current
    <2>6. QED
      BY <2>3, <2>5
  <1>2. CASE Mfa!cancelEnrollment \/ Mfa!OpenDisable \/ Mfa!CancelDisable \/ Mfa!Acknowledge
    <2>1. /\ enrollment' \in BOOLEAN /\ disabling' \in BOOLEAN /\ codes' \in BOOLEAN
          /\ handed' \in BOOLEAN /\ (handed' = codes')
          /\ UNCHANGED <<mfaOn, status, loadError, op, unsure>>
      BY <1>2 DEF Mfa!cancelEnrollment, Mfa!OpenDisable, Mfa!CancelDisable, Mfa!Acknowledge,
                  MfaTyped, CardInv
    <2>2. QED
      BY <2>1 DEF MfaTyped, CardInv, Mfa!Under, Mfa!Current
  <1>3. CASE Mfa!ServeMfa
    <2>1. /\ op' = [op EXCEPT !.served = TRUE, !.on = Mfa!Current("status") /\ mfaOn]
          /\ mfaOn' = IF Mfa!Current("confirm") THEN TRUE
                      ELSE IF Mfa!Current("disable") THEN FALSE ELSE mfaOn
          /\ unsure' = (unsure /\ ~Mfa!Current("status"))
          /\ Mfa!Under /\ UNCHANGED <<status, enrollment, codes, disabling, loadError, handed>>
      BY <1>3 DEF Mfa!ServeMfa
    <2>2. MfaTyped'
      BY <2>1 DEF MfaTyped
    <2>3. /\ op'.todo = op.todo /\ op'.on = (Mfa!Current("status") /\ mfaOn)
      BY <2>1 DEF MfaTyped
    <2>4. CardInv'
      BY <2>1, <2>3 DEF MfaTyped, CardInv, Mfa!Under, Mfa!Current
    <2>5. QED
      BY <2>2, <2>4
  <1>4. CASE Mfa!MfaElsewhere
    BY <1>4 DEF Mfa!MfaElsewhere, MfaTyped, CardInv
  <1>5. CASE Mfa!StatusLoaded
    <2>1. /\ op'.todo = <<>> /\ op'.served = FALSE /\ op.served /\ Mfa!Current("status")
          /\ op' \in [todo : Remainders, served : BOOLEAN, on : BOOLEAN]
          /\ UNCHANGED <<mfaOn, unsure>>
      BY <1>5, Advancing DEF Mfa!StatusLoaded, Mfa!Current, Mfa!Under
    <2>2. /\ status' \in {"on", "off"} /\ (status' = "on" <=> op.on) /\ loadError' = FALSE
          /\ UNCHANGED <<enrollment, codes, disabling, handed>>
      BY <1>5 DEF Mfa!StatusLoaded
    <2>3. QED
      BY <2>1, <2>2 DEF MfaTyped, CardInv, Mfa!Under, Mfa!Current
  <1>6. CASE Mfa!Enrolled
    <2>1. /\ op'.todo = <<>> /\ op'.served = FALSE /\ Mfa!Current("enroll")
          /\ op' \in [todo : Remainders, served : BOOLEAN, on : BOOLEAN]
          /\ UNCHANGED <<mfaOn, unsure>>
      BY <1>6, Advancing DEF Mfa!Enrolled, Mfa!Current, Mfa!Under
    <2>2. enrollment' = TRUE /\ UNCHANGED <<status, codes, disabling, loadError, handed>>
      BY <1>6 DEF Mfa!Enrolled
    <2>3. QED
      BY <2>1, <2>2 DEF MfaTyped, CardInv, Mfa!Under, Mfa!Current
  <1>7. CASE Mfa!Confirmed \/ Mfa!CodesGiven \/ Mfa!Disabled
    <2>1. /\ op'.todo # <<>> /\ Head(op'.todo) # "enroll" /\ op'.served = FALSE
          /\ op' \in [todo : Remainders, served : BOOLEAN, on : BOOLEAN]
          /\ UNCHANGED <<mfaOn, unsure>>
      BY <1>7, Advancing DEF Mfa!Confirmed, Mfa!CodesGiven, Mfa!Disabled
    <2>2. /\ enrollment' \in BOOLEAN /\ disabling' \in BOOLEAN /\ codes' \in BOOLEAN
          /\ handed' \in BOOLEAN /\ handed' = codes' /\ UNCHANGED <<status, loadError>>
      BY <1>7 DEF Mfa!Confirmed, Mfa!CodesGiven, Mfa!Disabled, MfaTyped, CardInv
    <2>3. QED
      BY <2>1, <2>2 DEF MfaTyped, CardInv, Mfa!Under, Mfa!Current
  <1>8. CASE Mfa!MfaFailed
    <2>1. /\ op' = [todo |-> <<>>, served |-> FALSE, on |-> FALSE]
          /\ loadError' = (loadError \/ Mfa!Current("status"))
          /\ unsure' = (unsure \/ ~Mfa!Current("status"))
          /\ UNCHANGED <<mfaOn, status, enrollment, codes, disabling, handed>>
      BY <1>8 DEF Mfa!MfaFailed, Mfa!Nothing
    <2>2. MfaTyped'
      BY <2>1 DEF MfaTyped, Remainders
    <2>3. op'.todo = <<>>
      BY <2>1
    <2>4. CardInv'
      BY <2>1, <2>3 DEF MfaTyped, CardInv, Mfa!Under, Mfa!Current
    <2>5. QED
      BY <2>2, <2>4
  <1>9. CASE UNCHANGED mfaVars
    BY <1>9 DEF mfaVars, MfaTyped, CardInv, Mfa!Under, Mfa!Current
  <1>10. QED
    BY <1>1, <1>2, <1>3, <1>4, <1>5, <1>6, <1>7, <1>8, <1>9
       DEF Mfa!Next, Mfa!start, Mfa!confirm, Mfa!newCodes, Mfa!disable

\* At rest the card says what the issuer has.
LEMMA MfaConcludes == MfaInv => Mfa!CardTruthful
  <1> SUFFICES ASSUME MfaTyped, CardInv, ~Mfa!Under, ~loadError
               PROVE  /\ handed => Mfa!Screen = "codes"
                      /\ ~unsure => (status = "on" <=> mfaOn)
    BY MfaTypes DEF MfaInv, Mfa!CardTruthful
  <1>1. ASSUME handed
        PROVE  Mfa!Screen = "codes"
    <2>1. codes = TRUE /\ loadError = FALSE /\ Mfa!Current("status") = FALSE
      BY <1>1 DEF MfaTyped, CardInv, Mfa!Current
    <2>2. QED
      BY <2>1 DEF Mfa!Screen
  <1>2. QED
    BY <1>1 DEF CardInv

-----------------------------------------------------------------------------
(* The reports page (Reports) *)

\* A request that is under way is about a report, but for one for a new report.
RequestsInv ==
    /\ \A p \in Polls : \/ polls[p] = Report!NoPoll
                        \/ polls[p].of \in ReportIds /\ polls[p].at \in {"sent", "served"}
    /\ \/ generating = Report!NoRequest
       \/ generating.at = "sent" /\ generating.of = "none"
       \/ generating.at = "served" /\ generating.of \in ReportIds

\* A report the page has not been told of is neither listed nor polled.
UnseenInv ==
    \A r \in ReportIds :
        /\ remote[r] = "none" => generating.of # r
        /\ remote[r] = "none" \/ generating.of = r =>
               listed[r] = "none" /\ r \notin pollers /\ ~Report!Polling(r)

\* A report that was finished when it was asked about still is.
AnswersInv ==
    /\ \A p \in Polls : polls[p].at = "served" /\ polls[p].answer \in Report!Finished =>
                            remote[polls[p].of] = polls[p].answer
    /\ generating.at = "served" /\ generating.answer \in Report!Finished =>
           remote[generating.of] = generating.answer

\* One poll of a report at a time; on the page, the report then has an interval, as an
\* unfinished one has, and a finished report is what the server has and left alone.
IntervalInv(r) ==
    /\ \A p, q \in Polls : polls[p].of = r /\ polls[q].of = r => p = q
    /\ mounted /\ (listed[r] \in Report!Unfinished \/ Report!Polling(r)) => r \in pollers
    /\ listed[r] \in Report!Finished =>
           listed[r] = remote[r] /\ r \notin pollers /\ ~Report!Polling(r)

ReportInv ==
    /\ Report!ReportsTypeOK
    /\ RequestsInv /\ UnseenInv /\ AnswersInv
    /\ \A r \in ReportIds \ (crossed \cup unpolled) : IntervalInv(r)
    /\ ~mounted => pollers \subseteq late

ReportStates == Report!Finished \cup Report!Unfinished \cup {"none"}
Requests == [of : ReportIds \cup {"none"}, at : {"idle", "sent", "served"}, answer : ReportStates]

LEMMA ReportTypes ==
  /\ Report!ReportsTypeOK =>
       /\ remote \in [ReportIds -> ReportStates] /\ listed \in [ReportIds -> ReportStates]
       /\ pollers \subseteq ReportIds
       /\ polls \in [Polls -> Requests] /\ generating \in Requests
       /\ mounted \in BOOLEAN
       /\ crossed \subseteq ReportIds /\ unpolled \subseteq ReportIds /\ late \subseteq ReportIds
  BY DEF Report!ReportsTypeOK, ReportStates, Requests

LEMMA ReportStarts == Report!Init => ReportInv
  BY ReportsAssumption
     DEF Report!Init, ReportInv, Report!ReportsTypeOK, RequestsInv, UnseenInv, AnswersInv,
         IntervalInv, Report!Polling, Report!NoPoll, Report!NoRequest, Report!Finished,
         Report!Unfinished

LEMMA ReportConcludes == ReportInv => Report!PolledUntilFinished
  BY DEF ReportInv, IntervalInv, Report!PolledUntilFinished

LEMMA ReportStep == ReportInv /\ [Report!Next]_reportVars => ReportInv'
  <1> SUFFICES ASSUME ReportInv, [Report!Next]_reportVars
               PROVE  ReportInv'
    OBVIOUS
  <1> USE ReportsAssumption
  <1>0. /\ remote \in [ReportIds -> ReportStates] /\ listed \in [ReportIds -> ReportStates]
        /\ pollers \subseteq ReportIds
        /\ polls \in [Polls -> Requests] /\ generating \in Requests
        /\ mounted \in BOOLEAN
        /\ crossed \subseteq ReportIds /\ unpolled \subseteq ReportIds /\ late \subseteq ReportIds
    BY ReportTypes DEF ReportInv
  <1>1. CASE Report!generate
    BY <1>1, <1>0 DEF Report!generate, ReportInv, RequestsInv, UnseenInv, AnswersInv, IntervalInv,
       Report!ReportsTypeOK, Requests, Report!Polling, Report!NoRequest, Report!NoPoll
  <1>2. CASE Report!GenerateFailed
    BY <1>2, <1>0 DEF Report!GenerateFailed, ReportInv, RequestsInv, UnseenInv, AnswersInv, IntervalInv,
       Report!ReportsTypeOK, Requests, Report!Polling, Report!NoRequest, Report!NoPoll
  <1>3. CASE Report!Unmount
    <2>1. /\ mounted' = FALSE /\ pollers' = {}
          /\ UNCHANGED <<remote, listed, polls, generating, crossed, unpolled, late>>
      BY <1>3 DEF Report!Unmount
    <2>2. Report!ReportsTypeOK' /\ RequestsInv' /\ UnseenInv' /\ AnswersInv'
      BY <2>1 DEF ReportInv, Report!ReportsTypeOK, RequestsInv, UnseenInv, AnswersInv, Report!Polling
    <2>3. \A r \in ReportIds \ (crossed' \cup unpolled') : IntervalInv(r)'
      BY <2>1 DEF ReportInv, IntervalInv, Report!Polling
    <2>4. QED
      BY <2>1, <2>2, <2>3 DEF ReportInv
  <1>4. CASE Report!Reopen
    BY <1>4, <1>0 DEF Report!Reopen, ReportInv, RequestsInv, UnseenInv, AnswersInv, IntervalInv,
       Report!ReportsTypeOK, Requests, Report!Polling, Report!NoRequest, Report!NoPoll,
       Report!Finished, Report!Unfinished
  <1>5. ASSUME NEW r \in ReportIds, Report!Generates(r)
        PROVE  ReportInv'
    BY <1>5, <1>0 DEF Report!Generates, ReportInv, RequestsInv, UnseenInv, AnswersInv, IntervalInv,
       Report!ReportsTypeOK, Requests, Report!Polling, Report!NoRequest, Report!NoPoll,
       Report!Finished, Report!Unfinished, ReportStates
  <1>6. ASSUME NEW r \in ReportIds, Report!Generated(r)
        PROVE  ReportInv'
    BY <1>6, <1>0 DEF Report!Generated, ReportInv, RequestsInv, UnseenInv, AnswersInv, IntervalInv,
       Report!ReportsTypeOK, Requests, Report!Polling, Report!NoRequest, Report!NoPoll,
       Report!Finished, Report!Unfinished, ReportStates
  <1>7. ASSUME NEW r \in ReportIds, Report!Works(r)
        PROVE  ReportInv'
    <2>1. /\ remote' \in [ReportIds -> ReportStates]
          /\ \A o \in ReportIds : remote[o] # "none" <=> remote'[o] # "none"
          /\ \A o \in ReportIds : remote[o] \in Report!Finished => remote'[o] = remote[o]
          /\ UNCHANGED <<listed, pollers, polls, generating, mounted, crossed, unpolled, late>>
      BY <1>7, <1>0 DEF Report!Works, Report!Finished, Report!Unfinished, ReportStates
    <2>2. Report!ReportsTypeOK'
      BY <2>1, <1>0 DEF Report!ReportsTypeOK, ReportStates, Requests
    <2>3. RequestsInv' /\ UnseenInv' /\ AnswersInv'
      BY <2>1 DEF ReportInv, RequestsInv, UnseenInv, AnswersInv, Report!Polling, Report!NoPoll,
                  Report!NoRequest
    <2>4. \A o \in ReportIds \ (crossed' \cup unpolled') : IntervalInv(o)'
      BY <2>1 DEF ReportInv, IntervalInv, Report!Polling
    <2>5. QED
      BY <2>1, <2>2, <2>3, <2>4 DEF ReportInv
  <1>8. ASSUME NEW r \in ReportIds, Report!Elapses(r)
        PROVE  ReportInv'
    <2>1. PICK p \in Polls :
             /\ polls[p] = Report!NoPoll
             /\ polls' = [polls EXCEPT ![p] = [of |-> r, at |-> "sent", answer |-> "none"]]
      BY <1>8 DEF Report!Elapses, Report!NoPoll
    <2>2. /\ r \in pollers /\ crossed' = IF Report!Polling(r) THEN crossed \cup {r} ELSE crossed
          /\ UNCHANGED <<remote, listed, pollers, generating, mounted, unpolled, late>>
      BY <1>8 DEF Report!Elapses
    <2>3. Report!ReportsTypeOK'
      BY <2>1, <2>2, <1>0 DEF Report!ReportsTypeOK, ReportStates, Requests
    <2>4. /\ polls'[p].of = r /\ polls'[p].at = "sent" /\ polls[p].of = "none"
          /\ \A q \in Polls \ {p} : polls'[q] = polls[q]
      BY <2>1, <1>0 DEF Report!NoPoll
    <2>5. RequestsInv'
      BY <2>2, <2>4 DEF ReportInv, RequestsInv
    <2>6. UnseenInv' /\ AnswersInv'
      BY <2>2, <2>4 DEF ReportInv, UnseenInv, AnswersInv, Report!Polling
    <2>7. \A o \in ReportIds \ (crossed' \cup unpolled') : IntervalInv(o)'
      BY <2>2, <2>4 DEF ReportInv, IntervalInv, Report!Polling
    <2>8. QED
      BY <2>2, <2>3, <2>5, <2>6, <2>7 DEF ReportInv
  <1>9. ASSUME NEW p \in Polls, Report!ServePoll(p)
        PROVE  ReportInv'
    <2>1. /\ polls[p].at = "sent" /\ polls[p].of \in ReportIds
          /\ polls' = [polls EXCEPT ![p].at = "served", ![p].answer = remote[polls[p].of]]
          /\ UNCHANGED <<remote, listed, pollers, generating, mounted, crossed, unpolled, late>>
      BY <1>9 DEF Report!ServePoll, ReportInv, RequestsInv, Report!NoPoll
    <2>2. /\ polls'[p].of = polls[p].of /\ polls'[p].at = "served"
          /\ polls'[p].answer = remote[polls[p].of]
          /\ \A q \in Polls \ {p} : polls'[q] = polls[q]
      BY <2>1, <1>0 DEF Requests
    <2>3. polls' \in [Polls -> Requests] /\ \A q \in Polls : polls'[q].of = polls[q].of
      BY <2>1, <2>2, <1>0 DEF Requests
    <2>4. Report!ReportsTypeOK'
      BY <2>1, <2>3, <1>0 DEF Report!ReportsTypeOK, ReportStates, Requests
    <2>5. RequestsInv'
      BY <2>1, <2>2 DEF ReportInv, RequestsInv
    <2>6. UnseenInv' /\ AnswersInv'
      BY <2>1, <2>2, <2>3 DEF ReportInv, UnseenInv, AnswersInv, Report!Polling
    <2>7. \A o \in ReportIds \ (crossed' \cup unpolled') : IntervalInv(o)'
      BY <2>1, <2>3 DEF ReportInv, IntervalInv, Report!Polling
    <2>8. QED
      BY <2>1, <2>4, <2>5, <2>6, <2>7 DEF ReportInv
  <1>10. ASSUME NEW p \in Polls, Report!PollAnswered(p)
        PROVE  ReportInv'
    BY <1>10, <1>0 DEF Report!PollAnswered, ReportInv, RequestsInv, UnseenInv, AnswersInv, IntervalInv,
       Report!ReportsTypeOK, Requests, Report!Polling, Report!NoPoll,
       Report!Finished, Report!Unfinished, ReportStates
  <1>11. ASSUME NEW p \in Polls, Report!PollFailed(p)
        PROVE  ReportInv'
    BY <1>11, <1>0 DEF Report!PollFailed, ReportInv, RequestsInv, UnseenInv, AnswersInv, IntervalInv,
       Report!ReportsTypeOK, Requests, Report!Polling, Report!NoPoll,
       Report!Finished, Report!Unfinished, ReportStates
  <1>12. CASE UNCHANGED reportVars
    BY <1>12 DEF reportVars, ReportInv, RequestsInv, UnseenInv, AnswersInv, IntervalInv,
       Report!ReportsTypeOK, Report!Polling
  <1>13. QED
    BY <1>1, <1>2, <1>3, <1>4, <1>5, <1>6, <1>7, <1>8, <1>9, <1>10, <1>11, <1>12 DEF Report!Next

-----------------------------------------------------------------------------
(* The page of a user (UserDetail) *)

\* The requests that only read, and the one that only writes.
StagesInv ==
    /\ request["load"].at \in {"idle", "reading", "read"}
    /\ request["save"].at \in {"idle", "writing", "written"}

\* One request at a time; what was read, and what a save was answered with, is what the
\* server has; what a save will write is in the rows.
AloneInv ==
    /\ \A k, other \in User!RequestKinds : k # other => User!Quiet(k) \/ User!Quiet(other)
    /\ \A k \in User!RequestKinds :
          request[k].at = "read" => request[k].answer.attributes = account.attributes
    /\ request["save"].at = "writing" => request["save"].set = rows
    /\ request["save"].at = "written" =>
          request["save"].answer.attributes = account.attributes

\* The copy is the server's but for a save whose answer is not there yet, and the rows are
\* unless they were edited.
CopyInv ==
    User!Present =>
        /\ request["save"].at # "written" => user.attributes = account.attributes
        /\ ~touched => rows = account.attributes

UserInv == User!UserTypeOK /\ StagesInv /\ (~foreign => AloneInv /\ CopyInv)

UserRequests == [at : {"idle", "writing", "written", "reading", "read"},
                 set : User!Sets, answer : User!User \cup {User!NoUser}]

LEMMA NewRequest ==
  \A at : User!Asked(at) = [at |-> at, set |-> 0, answer |-> User!NoUser]
  BY DEF User!Asked, User!NoRequest

LEMMA UserStarts == User!Init => UserInv
  <1> SUFFICES ASSUME User!Init
               PROVE  UserInv
    OBVIOUS
  <1>1. \A k \in User!RequestKinds :
           request[k] = [at |-> IF k = "load" THEN "reading" ELSE "idle", set |-> 0,
                         answer |-> User!NoUser]
    BY DEF User!Init, User!Asked, User!NoRequest, User!RequestKinds
  <1>2. request \in [User!RequestKinds -> UserRequests]
    BY DEF User!Init, User!Asked, User!NoRequest, User!RequestKinds, UserRequests, User!Sets
  <1>3. User!UserTypeOK
    BY <1>2 DEF User!Init, User!UserTypeOK, UserRequests, User!Sets
  <1>4. StagesInv
    BY <1>1 DEF StagesInv, User!RequestKinds
  <1>5. AloneInv /\ CopyInv
    BY <1>1 DEF User!Init, AloneInv, CopyInv, User!Quiet, User!RequestKinds, User!Present
  <1>6. QED
    BY <1>3, <1>4, <1>5 DEF UserInv

LEMMA UserStep == UserInv /\ [User!Next]_userVars => UserInv'
  <1> SUFFICES ASSUME UserInv, [User!Next]_userVars
               PROVE  UserInv'
    OBVIOUS
  <1>0. /\ account \in User!User /\ user \in User!User \cup {User!NoUser} /\ rows \in User!Sets
        /\ request \in [User!RequestKinds -> UserRequests]
        /\ touched \in BOOLEAN /\ foreign \in BOOLEAN
    BY DEF UserInv, User!UserTypeOK, UserRequests
  <1>kinds. /\ "load" \in User!RequestKinds /\ "save" \in User!RequestKinds
        /\ "block" \in User!RequestKinds
    BY DEF User!RequestKinds
  <1>sets. \A u \in User!User \cup {User!NoUser} : u.attributes \in User!Sets
    BY DEF User!User, User!NoUser, User!Sets
  <1>1. CASE User!EditRows \/ User!reset
    <2>1. /\ rows' \in User!Sets /\ touched' \in BOOLEAN /\ User!Quiet("save")
          /\ ~touched' => rows' = user.attributes
          /\ UNCHANGED <<account, user, request, foreign>>
      BY <1>1, <1>0, <1>sets DEF User!EditRows, User!reset
    <2>2. User!UserTypeOK' /\ StagesInv'
      BY <2>1 DEF UserInv, User!UserTypeOK, StagesInv
    <2>3. ~foreign' => AloneInv' /\ CopyInv'
      BY <2>1 DEF UserInv, AloneInv, CopyInv, User!Quiet, User!Present
    <2>4. QED
      BY <2>2, <2>3 DEF UserInv
  <1>2. CASE User!save
    <2>1. /\ request' = [request EXCEPT !["save"] =
                            [at |-> "writing", set |-> rows, answer |-> User!NoUser]]
          /\ foreign' = User!Overlap("save")
          /\ User!Quiet("save") /\ UNCHANGED <<account, user, rows, touched>>
      <3>1. [User!Asked("writing") EXCEPT !.set = rows] =
               [at |-> "writing", set |-> rows, answer |-> User!NoUser]
        BY NewRequest
      <3>2. QED
        BY <1>2, <3>1 DEF User!save
    <2>overlap. foreign' \in BOOLEAN
          /\ (~foreign' => ~foreign /\ \A other \in User!RequestKinds \ {"save"} : User!Quiet(other))
      BY <2>1 DEF User!Overlap
    <2>2. User!UserTypeOK'
      BY <2>1, <2>overlap, <1>0, <1>kinds DEF User!UserTypeOK, UserRequests
    <2>3. /\ request'["save"].at = "writing" /\ request'["save"].set = rows
          /\ \A k \in User!RequestKinds \ {"save"} : request'[k] = request[k]
      BY <2>1, <1>0, <1>kinds
    <2>4. StagesInv'
      BY <2>3, <1>kinds DEF UserInv, StagesInv
    <2>5. ~foreign' => AloneInv' /\ CopyInv'
      BY <2>1, <2>overlap, <2>3, <1>kinds DEF UserInv, AloneInv, CopyInv, User!Quiet, User!Present
    <2>6. QED
      BY <2>2, <2>4, <2>5 DEF UserInv
  <1>3. CASE User!blockAccount
    <2>1. /\ request' = [request EXCEPT !["block"] =
                            [at |-> "writing", set |-> 0, answer |-> User!NoUser]]
          /\ foreign' = User!Overlap("block")
          /\ User!Quiet("block") /\ UNCHANGED <<account, user, rows, touched>>
      BY <1>3, NewRequest DEF User!blockAccount
    <2>overlap. foreign' \in BOOLEAN
          /\ (~foreign' => ~foreign /\ \A other \in User!RequestKinds \ {"block"} : User!Quiet(other))
      BY <2>1 DEF User!Overlap
    <2>2. User!UserTypeOK'
      BY <2>1, <2>overlap, <1>0, <1>kinds DEF User!UserTypeOK, UserRequests, User!Sets
    <2>3. /\ request'["block"].at = "writing"
          /\ \A k \in User!RequestKinds \ {"block"} : request'[k] = request[k]
      BY <2>1, <1>0, <1>kinds
    <2>4. StagesInv'
      BY <2>3, <1>kinds DEF UserInv, StagesInv
    <2>5. ~foreign' => AloneInv' /\ CopyInv'
      BY <2>1, <2>overlap, <2>3, <1>kinds DEF UserInv, AloneInv, CopyInv, User!Quiet, User!Present
    <2>6. QED
      BY <2>2, <2>4, <2>5 DEF UserInv
  <1>4. ASSUME NEW k \in User!RequestKinds, User!ServeRequest(k)
        PROVE  UserInv'
    <2>1. /\ account' = IF request[k].at = "reading" THEN account
                        ELSE IF k = "save" THEN [account EXCEPT !.attributes = request[k].set]
                        ELSE [account EXCEPT !.blocked = TRUE]
          /\ request' = [request EXCEPT
                ![k].at = IF request[k].at = "reading" THEN "read" ELSE "written",
                ![k].answer = IF k = "block" /\ request[k].at = "writing" THEN User!NoUser ELSE account']
          /\ request[k].at \in {"writing", "reading"}
          /\ UNCHANGED <<user, rows, touched, foreign>>
      BY <1>4 DEF User!ServeRequest
    <2>2. /\ account' \in User!User
          /\ account'.attributes = IF k = "save" /\ request[k].at = "writing"
                                   THEN request[k].set ELSE account.attributes
      BY <2>1, <1>0 DEF User!User, UserRequests
    <2>3. /\ request'[k].at = IF request[k].at = "reading" THEN "read" ELSE "written"
          /\ request'[k].answer = IF k = "block" /\ request[k].at = "writing"
                                  THEN User!NoUser ELSE account'
          /\ request'[k].set = request[k].set
          /\ \A other \in User!RequestKinds \ {k} : request'[other] = request[other]
      BY <2>1, <1>0 DEF UserRequests
    <2>4. request' \in [User!RequestKinds -> UserRequests]
      <3>1. request'[k] = [at |-> IF request[k].at = "reading" THEN "read" ELSE "written",
                           set |-> request[k].set,
                           answer |-> IF k = "block" /\ request[k].at = "writing"
                                      THEN User!NoUser ELSE account']
        BY <2>1, <1>0 DEF UserRequests
      <3>2. request'[k] \in UserRequests
        BY <3>1, <2>2, <1>0 DEF UserRequests
      <3>3. request' = [request EXCEPT ![k] = request'[k]]
        BY <2>1, <1>0
      <3>4. QED
        BY <3>2, <3>3, <1>0
    <2>5. User!UserTypeOK'
      BY <2>1, <2>2, <2>4, <1>0 DEF User!UserTypeOK, UserRequests
    <2>6. StagesInv'
      BY <2>1, <2>3, <1>kinds DEF UserInv, StagesInv
    <2>7. ASSUME ~foreign'
          PROVE  AloneInv' /\ CopyInv'
      <3>1. AloneInv /\ CopyInv /\ StagesInv
        BY <2>7, <2>1 DEF UserInv
      <3>2. \A other \in User!RequestKinds \ {k} : request[other].at = "idle"
        BY <3>1, <2>1 DEF AloneInv, User!Quiet
      <3>3. \A other \in User!RequestKinds \ {k} : request'[other].at = "idle"
        BY <3>2, <2>3
      <3>4. /\ request'[k].at \in {"read", "written"}
            /\ request'[k].at = "read" => request'[k].answer = account'
            /\ k = "save" => request'[k].at = "written" /\ request'[k].answer = account'
            /\ k = "save" => account'.attributes = rows
            /\ k # "save" => account'.attributes = account.attributes
        BY <3>1, <2>1, <2>2, <2>3 DEF StagesInv, AloneInv
      <3>5. AloneInv'
        BY <3>3, <3>4, <1>kinds DEF AloneInv, User!Quiet
      <3>6. CopyInv'
        BY <3>1, <3>2, <3>3, <3>4, <2>1, <1>kinds DEF CopyInv, User!Present
      <3>7. QED
        BY <3>5, <3>6
    <2>8. QED
      BY <2>5, <2>6, <2>7 DEF UserInv
  <1>5. CASE User!Elsewhere
    <2>0. /\ \A set \in User!Sets : [account EXCEPT !.attributes = set] \in User!User
          /\ [account EXCEPT !.rest = 1 - @] \in User!User
          /\ [account EXCEPT !.rest = 1 - @].attributes = account.attributes
      BY <1>0 DEF User!User
    <2>1. /\ account' \in User!User
          /\ foreign' \in BOOLEAN /\ (~foreign' => ~foreign /\ account'.attributes = account.attributes)
          /\ UNCHANGED <<user, rows, request, touched>>
      BY <1>5, <2>0, <1>0 DEF User!Elsewhere
    <2>2. QED
      BY <2>1, <1>0 DEF UserInv, User!UserTypeOK, UserRequests, StagesInv, AloneInv, CopyInv,
                        User!Quiet, User!Present
  <1>6. ASSUME NEW k \in User!RequestKinds, User!Replace(request[k].answer),
               request' = [request EXCEPT ![k] = User!NoRequest], UNCHANGED <<account, foreign>>,
               \/ request[k].at = "read"
               \/ k = "save" /\ request[k].at = "written"
        PROVE  UserInv'
    <2>1. /\ user' = request[k].answer /\ rows' = request[k].answer.attributes /\ touched' = FALSE
          /\ request[k].answer \in User!User \cup {User!NoUser}
      BY <1>6, <1>0 DEF User!Replace, UserRequests
    <2>2. User!NoRequest \in UserRequests /\ User!NoRequest.at = "idle"
      BY DEF User!NoRequest, UserRequests, User!Sets
    <2>3. /\ request'[k].at = "idle"
          /\ \A other \in User!RequestKinds \ {k} : request'[other] = request[other]
          /\ request' \in [User!RequestKinds -> UserRequests]
      BY <1>6, <2>2, <1>0
    <2>4. User!UserTypeOK'
      BY <1>6, <2>1, <2>3, <1>0, <1>sets DEF User!UserTypeOK, UserRequests
    <2>5. StagesInv'
      BY <2>3, <1>kinds DEF UserInv, StagesInv
    <2>6. ~foreign' => AloneInv' /\ CopyInv'
      BY <1>6, <2>1, <2>3, <1>kinds DEF UserInv, AloneInv, CopyInv, User!Quiet, User!Present
    <2>7. QED
      BY <2>4, <2>5, <2>6 DEF UserInv
  <1>7. CASE User!UserLoaded \/ User!AttributesSaved \/ User!BlockShown
    <2>1. CASE User!UserLoaded
      BY <1>6, <2>1, <1>kinds DEF User!UserLoaded
    <2>2. CASE User!AttributesSaved
      BY <1>6, <2>2, <1>kinds DEF User!AttributesSaved
    <2>3. CASE User!BlockShown
      BY <1>6, <2>3, <1>kinds DEF User!BlockShown
    <2>4. QED
      BY <1>7, <2>1, <2>2, <2>3
  <1>8. CASE User!Blocked
    <2>1. /\ request' = [request EXCEPT !["block"] =
                            [at |-> "reading", set |-> 0, answer |-> User!NoUser]]
          /\ request["block"].at = "written"
          /\ UNCHANGED <<account, user, rows, touched, foreign>>
      BY <1>8, NewRequest DEF User!Blocked
    <2>2. User!UserTypeOK'
      BY <2>1, <1>0, <1>kinds DEF User!UserTypeOK, UserRequests, User!Sets
    <2>3. /\ request'["block"].at = "reading"
          /\ \A k \in User!RequestKinds \ {"block"} : request'[k] = request[k]
      BY <2>1, <1>0, <1>kinds
    <2>4. StagesInv' /\ (~foreign' => AloneInv' /\ CopyInv')
      BY <2>1, <2>3, <1>kinds DEF UserInv, StagesInv, AloneInv, CopyInv, User!Quiet, User!Present
    <2>5. QED
      BY <2>2, <2>4 DEF UserInv
  <1>9. ASSUME NEW k \in User!RequestKinds, User!RequestFailed(k)
        PROVE  UserInv'
    <2>1. /\ request' = [request EXCEPT ![k] = User!NoRequest]
          /\ foreign' = (foreign \/ k = "save") /\ UNCHANGED <<account, user, rows, touched>>
      BY <1>9 DEF User!RequestFailed
    <2>2. User!NoRequest \in UserRequests /\ User!NoRequest.at = "idle"
      BY DEF User!NoRequest, UserRequests, User!Sets
    <2>3. /\ request'[k].at = "idle"
          /\ \A other \in User!RequestKinds \ {k} : request'[other] = request[other]
          /\ request' \in [User!RequestKinds -> UserRequests]
      BY <2>1, <2>2, <1>0
    <2>4. User!UserTypeOK'
      BY <2>1, <2>3, <1>0 DEF User!UserTypeOK, UserRequests
    <2>5. StagesInv' /\ (~foreign' => AloneInv' /\ CopyInv')
      BY <2>1, <2>3, <1>kinds DEF UserInv, StagesInv, AloneInv, CopyInv, User!Quiet, User!Present
    <2>6. QED
      BY <2>4, <2>5 DEF UserInv
  <1>10. CASE UNCHANGED userVars
    BY <1>10 DEF userVars, UserInv, User!UserTypeOK, StagesInv, AloneInv, CopyInv, User!Quiet,
                 User!Present
  <1>11. QED
    BY <1>1, <1>2, <1>3, <1>4, <1>5, <1>7, <1>8, <1>9, <1>10 DEF User!Next

LEMMA UserConcludes == UserInv => User!UntouchedSaveHarmless
  BY DEF UserInv, CopyInv, User!UntouchedSaveHarmless

-----------------------------------------------------------------------------
(* The settings of an application (ApplicationDetail) *)

Calls == [at : {"idle", "sent", "served"}, write : Application!Parts, answer : Application!Parts]

\* The fields a kind of request may write.
Own(k) == IF k = "details" THEN Application!DetailFields
          ELSE IF k = "tokens" THEN TokenFields
          ELSE IF k = "toggle" THEN {"active"} ELSE {}

\* A request writes fields of its kind, its answer has what the page looks at, and only
\* the load is under way before the application is there.
CallsInv ==
    /\ \A k \in Application!Kinds :
          /\ Application!Idle(k) => call[k] = Application!NoCall
          /\ Application!Idle(k) \/ (Application!Loaded <=> k # "load")
          /\ DOMAIN call[k].write \subseteq Own(k)
          /\ call[k].at = "served" =>
                /\ DOMAIN call[k].answer \subseteq Application!Reads(k)
                /\ Application!Reads(k) \ DOMAIN call[k].answer \subseteq Omitted
    /\ ~Application!Idle("toggle") => "active" \in DOMAIN call["toggle"].write

\* Token settings that were not edited are in the form as in the page's copy.
EditedInv ==
    Application!Loaded => \A f \in TokenFields \ edited : form[f] = app[f]

\* While the tokens are saved, what other requests write is set apart.
OverlapInv ==
    ~Application!Idle("tokens") =>
        \A o \in Application!Kinds \ {"tokens"} : DOMAIN call[o].write \subseteq apart

\* A request that was performed wrote what it had to, and is answered with what the server
\* has, but for fields that are set apart.
AnsweredInv ==
    \A k \in Application!Kinds : call[k].at = "served" =>
        /\ \A f \in DOMAIN call[k].write \ apart : server[f] = call[k].write[f]
        /\ \A f \in Application!Reads(k) \ apart : Application!Read(call[k].answer, f) = server[f]

\* A token setting that is being cleared is set apart.
ClearedInv ==
    \A f \in Omitted \cap DOMAIN call["tokens"].write : call["tokens"].write[f] = 0 => f \in apart

\* What the page will make of an answer that it does not look at is what was written.
UnreadInv ==
    /\ ~Application!Idle("details") /\ "url" \notin apart =>
          "url" \in DOMAIN call["details"].write /\ call["details"].write["url"] = form["url"]
    /\ ~Application!Idle("toggle") /\ "active" \notin apart =>
          call["toggle"].write["active"] = 1 - app["active"]

ApplicationInv ==
    /\ Application!TypeOK /\ CallsInv /\ EditedInv
    /\ OverlapInv /\ AnsweredInv /\ ClearedInv /\ UnreadInv /\ Application!PageAgrees

\* The kinds of requests write fields of their own and read others than they write only
\* with the load and the token settings.
LEMMA FieldFacts ==
  /\ \A k \in Application!Kinds :
        /\ Own(k) \subseteq Application!Fields /\ Application!Reads(k) \subseteq Application!Fields
        /\ \A o \in Application!Kinds : k # o => Own(k) \cap Own(o) = {}
  /\ Application!Reads("load") = Application!Fields
  /\ Application!Reads("tokens") = Application!Fields
  /\ Application!Reads("details") = {"magic_link_url"} /\ Application!Reads("toggle") = {}
  /\ Application!DetailFields = {"url", "magic_link_url"}
  /\ {"url", "magic_link_url"} \subseteq Application!FormFields
  /\ TokenFields \subseteq Application!FormFields /\ Application!FormFields \subseteq Application!Fields
  /\ "active" \in Application!Fields \ Application!FormFields
  /\ "url" \notin TokenFields /\ "magic_link_url" \notin TokenFields /\ "active" \notin TokenFields
  <1> USE ApplicationAssumption DEF Application!DetailFields
  <1>1. /\ Application!Reads("load") = Application!Fields
        /\ Application!Reads("tokens") = Application!Fields
        /\ Application!Reads("details") = {"magic_link_url"} /\ Application!Reads("toggle") = {}
    BY DEF Application!Reads
  <1>2. \A k \in Application!Kinds :
           k = "load" \/ k = "tokens" \/ k = "details" \/ k = "toggle"
    BY DEF Application!Kinds
  <1>3. /\ {"url", "magic_link_url"} \subseteq Application!FormFields
        /\ TokenFields \subseteq Application!FormFields
        /\ Application!FormFields \subseteq Application!Fields
        /\ "active" \in Application!Fields \ Application!FormFields
    BY DEF Application!FormFields, Application!Fields
  <1>4. \A k \in Application!Kinds :
           /\ Own(k) \subseteq Application!Fields /\ Application!Reads(k) \subseteq Application!Fields
           /\ \A o \in Application!Kinds : k # o => Own(k) \cap Own(o) = {}
    BY <1>1, <1>2, <1>3 DEF Own
  <1>5. QED
    BY <1>1, <1>3, <1>4

LEMMA MakePart ==
  ASSUME NEW S \in SUBSET Application!Fields, NEW g \in [S -> Application!Values]
  PROVE  g \in Application!Parts
  BY DEF Application!Parts

LEMMA PartTyped ==
  ASSUME NEW g \in Application!Parts
  PROVE  DOMAIN g \subseteq Application!Fields /\ g \in [DOMAIN g -> Application!Values]
  <1>1. PICK S \in SUBSET Application!Fields : g \in [S -> Application!Values]
    BY DEF Application!Parts
  <1>2. QED
    BY <1>1

LEMMA NoPart == /\ Application!NoFields \in Application!Parts /\ DOMAIN Application!NoFields = {}
                /\ Application!NoCall \in Calls /\ Application!NoCall.at = "idle"
                /\ Application!NoCall.write = Application!NoFields
                /\ \A a \in Application!Application : a # Application!NotLoaded
  <1>1. Application!NoFields \in [{} -> Application!Values] /\ DOMAIN Application!NoFields = {}
    BY DEF Application!NoFields
  <1>2. Application!NoFields \in Application!Parts
    <2>1. {} \in SUBSET Application!Fields
      OBVIOUS
    <2>2. QED
      BY <1>1, <2>1, MakePart
  <1>3. \A a \in Application!Application : a # Application!NotLoaded
    BY <1>1, FieldFacts DEF Application!Application, Application!NotLoaded
  <1>4. QED
    BY <1>1, <1>2, <1>3 DEF Application!NoCall, Calls

LEMMA ApplicationTypes ==
  Application!TypeOK =>
    /\ server \in [Application!Fields -> Application!Values]
    /\ Application!Loaded => app \in [Application!Fields -> Application!Values]
    /\ form \in [Application!FormFields -> Application!Values]
    /\ call \in [Application!Kinds -> Calls]
    /\ edited \subseteq Application!FormFields /\ apart \subseteq Application!Fields
  BY DEF Application!TypeOK, Application!Application, Application!Loaded, Calls

LEMMA ApplicationStarts == Application!Init => ApplicationInv
  <1> SUFFICES ASSUME Application!Init
               PROVE  ApplicationInv
    OBVIOUS
  <1>1. \A k \in Application!Kinds :
           /\ call[k].write = Application!NoFields
           /\ call[k].at = IF k = "load" THEN "sent" ELSE "idle"
           /\ k # "load" => call[k] = Application!NoCall
    BY NoPart DEF Application!Init, Application!Sent, Application!NoCall, Application!Kinds
  <1>2. call \in [Application!Kinds -> Calls]
    BY NoPart DEF Application!Init, Application!Sent, Calls
  <1>3. Application!TypeOK
    BY <1>2, FieldFacts DEF Application!Init, Application!TypeOK, Calls, Application!Values
  <1>4. ~Application!Loaded
    BY DEF Application!Init, Application!Loaded
  <1>5. CallsInv
    BY <1>1, <1>4, NoPart DEF CallsInv, Application!Idle, Application!Kinds
  <1>6. OverlapInv /\ AnsweredInv /\ ClearedInv /\ UnreadInv
    BY <1>1, NoPart DEF OverlapInv, AnsweredInv, ClearedInv, UnreadInv, Application!Idle,
                        Application!Kinds
  <1>7. QED
    BY <1>3, <1>4, <1>5, <1>6 DEF ApplicationInv, EditedInv, Application!PageAgrees

\* A request is sent.
LEMMA Sending ==
  ASSUME ApplicationInv, Application!Loaded,
         NEW k \in Application!Kinds \ {"load"}, Application!Idle(k),
         NEW write \in Application!Parts, DOMAIN write \subseteq Own(k),
         call' = [call EXCEPT ![k] = Application!Sent(write)],
         UNCHANGED <<server, app, form, edited>>,
         NEW more \in SUBSET Application!Fields,
         apart' = Application!Overlapping(k, write) \cup more,
         k = "details" /\ "url" \notin more =>
             "url" \in DOMAIN write /\ write["url"] = form["url"],
         k = "toggle" => "active" \in DOMAIN write /\ write["active"] = 1 - app["active"],
         k = "tokens" => \A f \in Omitted \cap DOMAIN write : write[f] = 0 => f \in more
  PROVE  ApplicationInv'
  <1>1. /\ server \in [Application!Fields -> Application!Values]
        /\ app \in [Application!Fields -> Application!Values]
        /\ form \in [Application!FormFields -> Application!Values]
        /\ call \in [Application!Kinds -> Calls]
        /\ edited \subseteq Application!FormFields /\ apart \subseteq Application!Fields
        /\ CallsInv /\ EditedInv /\ OverlapInv /\ AnsweredInv /\ ClearedInv /\ UnreadInv
        /\ Application!PageAgrees /\ Application!TypeOK
    BY ApplicationTypes DEF ApplicationInv
  <1>2. /\ call'[k].at = "sent" /\ call'[k].write = write
        /\ \A o \in Application!Kinds \ {k} : call'[o] = call[o]
        /\ call' \in [Application!Kinds -> Calls]
    BY <1>1, NoPart DEF Application!Sent, Calls
  <1>3. /\ apart \subseteq apart' /\ more \subseteq apart' /\ apart' \subseteq Application!Fields
        /\ ~(Application!Idle("tokens") /\ k # "tokens") =>
              /\ \A o \in Application!Kinds \ {"tokens"} : DOMAIN call[o].write \subseteq apart'
              /\ DOMAIN write \ TokenFields \subseteq apart'
    <2>1. \A o \in Application!Kinds : DOMAIN call[o].write \subseteq Application!Fields
      BY <1>1, FieldFacts DEF CallsInv
    <2>2. DOMAIN write \subseteq Application!Fields
      BY PartTyped
    <2>3. CASE Application!Idle("tokens") /\ k # "tokens"
      BY <1>1, <2>3 DEF Application!Overlapping
    <2>4. CASE ~(Application!Idle("tokens") /\ k # "tokens")
      <3> DEFINE others == UNION {DOMAIN w : w \in {call[o].write : o \in Application!Kinds \ {"tokens"}}}
      <3>0. Application!Overlapping(k, write) =
               apart \cup (others \cup (DOMAIN write \ TokenFields))
        BY <2>4 DEF Application!Overlapping
      <3>1. apart' = apart \cup (others \cup (DOMAIN write \ TokenFields)) \cup more
        BY <3>0
      <3>2. \A o \in Application!Kinds \ {"tokens"} : DOMAIN call[o].write \subseteq others
        OBVIOUS
      <3>3. others \subseteq Application!Fields
        BY <2>1
      <3> HIDE DEF others
      <3>4. QED
        BY <1>1, <2>2, <2>4, <3>1, <3>2, <3>3
    <2>5. QED
      BY <2>3, <2>4
  <1>4. Application!TypeOK'
    BY <1>1, <1>2, <1>3 DEF Application!TypeOK, Calls
  <1>5. CallsInv' /\ EditedInv'
    BY <1>1, <1>2 DEF CallsInv, EditedInv, Application!Idle, Application!Loaded
  <1>6. OverlapInv'
    BY <1>1, <1>2, <1>3, FieldFacts DEF OverlapInv, Own, Application!Idle, Application!Kinds
  <1>7. AnsweredInv' /\ UnreadInv'
    BY <1>1, <1>2, <1>3 DEF AnsweredInv, UnreadInv, Application!Idle, Application!Kinds
  <1>c. ClearedInv'
    BY <1>1, <1>2, <1>3 DEF ClearedInv, Application!Kinds
  <1>8. Application!PageAgrees'
    <2>1. DOMAIN call[k].write = {}
      BY <1>1, NoPart DEF CallsInv
    <2>2. \A f : Application!Writing(f) => Application!Writing(f)'
      BY <1>2, <2>1 DEF Application!Writing
    <2>3. QED
      BY <1>1, <1>3, <2>2 DEF Application!PageAgrees, Application!Loaded
  <1>9. QED
    BY <1>4, <1>5, <1>6, <1>7, <1>8, <1>c DEF ApplicationInv

\* An answer has come, or will not come: its request is over.
LEMMA Over ==
  ASSUME ApplicationInv, NEW k \in Application!Kinds,
         call' = [call EXCEPT ![k] = Application!NoCall]
  PROVE  /\ call' \in [Application!Kinds -> Calls]
         /\ call'[k] = Application!NoCall /\ call'[k].at = "idle" /\ DOMAIN call'[k].write = {}
         /\ \A o \in Application!Kinds \ {k} : call'[o] = call[o]
         /\ \A f : Application!Writing(f) => Application!Writing(f)' \/ f \in DOMAIN call[k].write
  <1>1. call \in [Application!Kinds -> Calls]
    BY ApplicationTypes DEF ApplicationInv
  <1>2. /\ call' \in [Application!Kinds -> Calls] /\ call'[k] = Application!NoCall
        /\ \A o \in Application!Kinds \ {k} : call'[o] = call[o]
    BY <1>1, NoPart
  <1>3. QED
    BY <1>2, NoPart DEF Application!Writing

\* What the page reads in an answer is a value.
LEMMA AnswerRead ==
  ASSUME Application!TypeOK, NEW k \in Application!Kinds, NEW f
  PROVE  Application!Read(call[k].answer, f) \in Application!Values
  <1>1. call[k].answer \in Application!Parts
    BY ApplicationTypes DEF Calls
  <1>2. QED
    BY <1>1, PartTyped DEF Application!Read, Application!Values

LEMMA ApplicationStep == ApplicationInv /\ [Application!Next]_applicationVars => ApplicationInv'
  <1> SUFFICES ASSUME ApplicationInv, [Application!Next]_applicationVars
               PROVE  ApplicationInv'
    OBVIOUS
  <1>0. /\ server \in [Application!Fields -> Application!Values]
        /\ Application!Loaded => app \in [Application!Fields -> Application!Values]
        /\ app \in Application!Application \cup {Application!NotLoaded}
        /\ form \in [Application!FormFields -> Application!Values]
        /\ call \in [Application!Kinds -> Calls]
        /\ edited \subseteq Application!FormFields /\ apart \subseteq Application!Fields
        /\ CallsInv /\ EditedInv /\ OverlapInv /\ AnsweredInv /\ ClearedInv /\ UnreadInv
        /\ Application!PageAgrees /\ Application!TypeOK
    BY ApplicationTypes DEF ApplicationInv, Application!TypeOK
  <1>k. /\ {"load", "details", "tokens", "toggle"} = Application!Kinds
    BY DEF Application!Kinds
  <1>1. ASSUME NEW f \in Edits, Application!Edit(f)
        PROVE  ApplicationInv'
    <2>1. /\ Application!Loaded /\ f \in Application!FormFields
          /\ f \in TokenFields => Application!Idle("tokens")
          /\ form' = [form EXCEPT ![f] = 1 - @]
          /\ edited' = edited \cup ({f} \ {"url"})
          /\ apart' = IF Application!Idle("details") THEN apart ELSE apart \cup ({f} \cap {"url"})
          /\ UNCHANGED <<server, app, call>>
      BY <1>1, ApplicationAssumption DEF Application!Edit
    <2>2. form' \in [Application!FormFields -> Application!Values]
      BY <2>1, <1>0 DEF Application!Values
    <2>3. edited' \subseteq Application!FormFields /\ apart \subseteq apart' /\ apart' \subseteq Application!Fields
      BY <2>1, <1>0, FieldFacts
    <2>4. Application!TypeOK'
      BY <2>1, <2>2, <2>3, <1>0 DEF Application!TypeOK, Calls
    <2>5. CallsInv' /\ OverlapInv' /\ AnsweredInv' /\ ClearedInv'
      BY <2>1, <2>3, <1>0 DEF CallsInv, OverlapInv, AnsweredInv, ClearedInv, Application!Idle,
                              Application!Loaded
    <2>6. EditedInv'
      BY <2>1, <1>0, FieldFacts DEF EditedInv, Application!Loaded
    <2>7. UnreadInv'
      BY <2>1, <2>3, <1>0, FieldFacts DEF UnreadInv, Application!Idle
    <2>8. Application!PageAgrees'
      BY <2>1, <2>3, <1>0 DEF Application!PageAgrees, Application!Loaded, Application!Writing
    <2>9. QED
      BY <2>4, <2>5, <2>6, <2>7, <2>8 DEF ApplicationInv
  <1>2. CASE Application!saveTokenSettings
    <2> DEFINE write == Application!Part(form, Application!Changed(TokenFields))
               cleared == {f \in Omitted \cap DOMAIN write : write[f] = 0}
    <2>1. /\ DOMAIN write \subseteq TokenFields
          /\ write \in [DOMAIN write -> Application!Values]
      BY <1>0, FieldFacts DEF Application!Part, Application!Changed
    <2>2. write \in Application!Parts
      BY <2>1, FieldFacts, MakePart
    <2>3. /\ Application!Loaded /\ Application!Idle("tokens")
          /\ call' = [call EXCEPT !["tokens"] = Application!Sent(write)]
          /\ apart' = Application!Overlapping("tokens", write) \cup cleared
          /\ UNCHANGED <<server, app, form, edited>>
      BY <1>2 DEF Application!saveTokenSettings, Application!Send
    <2> HIDE DEF write
    <2>4. /\ cleared \in SUBSET Application!Fields /\ DOMAIN write \subseteq Own("tokens")
          /\ "tokens" \in Application!Kinds \ {"load"}
      BY <2>1, <1>k, FieldFacts DEF Own
    <2>5. \A f \in Omitted \cap DOMAIN write : write[f] = 0 => f \in cleared
      OBVIOUS
    <2> HIDE DEF cleared
    <2>6. QED
      BY <2>2, <2>3, <2>4, <2>5, Sending
  <1>3. CASE Application!saveSettings
    <2> DEFINE parts == {f \in {"url"} : form[f] # 0} \cup Application!Changed({"magic_link_url"})
               write == Application!Part(form, parts)
    <2>1. DOMAIN write = parts /\ parts \subseteq Application!DetailFields
      BY DEF Application!Part, Application!Changed, Application!DetailFields
    <2>2. \A f \in parts : write[f] = form[f] /\ write[f] \in Application!Values
      BY <2>1, <1>0, FieldFacts DEF Application!Part
    <2>3. write \in [parts -> Application!Values]
      BY <2>1, <2>2 DEF Application!Part
    <2>4. write \in Application!Parts
      BY <2>1, <2>3, FieldFacts, MakePart
    <2>5. /\ Application!Loaded /\ Application!Idle("details")
          /\ call' = [call EXCEPT !["details"] = Application!Sent(write)]
          /\ apart' = Application!Overlapping("details", write) \cup ({"url"} \ DOMAIN write)
          /\ UNCHANGED <<server, app, form, edited>>
      BY <1>3 DEF Application!saveSettings, Application!Send
    <2> HIDE DEF write, parts
    <2>6. ({"url"} \ DOMAIN write) \in SUBSET Application!Fields
      BY FieldFacts
    <2>7. "url" \notin ({"url"} \ DOMAIN write) => "url" \in DOMAIN write /\ write["url"] = form["url"]
      BY <2>1, <2>2
    <2>8. DOMAIN write \subseteq Own("details")
      BY <2>1 DEF Own
    <2>9. "details" \in Application!Kinds \ {"load"} /\ "details" # "tokens" /\ "details" # "toggle"
      BY <1>k
    <2> DEFINE more == {"url"} \ DOMAIN write
    <2> HIDE DEF more
    <2>10. /\ apart' = Application!Overlapping("details", write) \cup more
           /\ more \in SUBSET Application!Fields
           /\ "url" \notin more => "url" \in DOMAIN write /\ write["url"] = form["url"]
      BY <2>5, <2>6, <2>7 DEF more
    <2>11. QED
      BY <2>4, <2>5, <2>8, <2>9, <2>10, Sending
  <1>4. CASE Application!toggleActive
    <2> DEFINE write == [f \in {"active"} |-> 1 - app[f]]
    <2>1. /\ Application!Loaded /\ Application!Idle("toggle")
          /\ call' = [call EXCEPT !["toggle"] = Application!Sent(write)]
          /\ apart' = Application!Overlapping("toggle", write) \cup {}
          /\ UNCHANGED <<server, app, form, edited>>
      BY <1>4 DEF Application!toggleActive, Application!Send
    <2>2. 1 - app["active"] \in Application!Values
      BY <2>1, <1>0, FieldFacts DEF Application!Values
    <2>3. /\ write \in [{"active"} -> Application!Values] /\ DOMAIN write = {"active"}
          /\ write["active"] = 1 - app["active"]
      BY <2>2
    <2> HIDE DEF write
    <2>4. write \in Application!Parts
      BY <2>3, FieldFacts, MakePart
    <2>5. /\ {} \in SUBSET Application!Fields /\ DOMAIN write \subseteq Own("toggle")
          /\ "active" \in DOMAIN write /\ "toggle" \in Application!Kinds \ {"load"}
      BY <2>3, <1>k DEF Own
    <2>6. QED
      BY <2>1, <2>3, <2>4, <2>5, Sending
  <1>5. ASSUME NEW k \in Application!Kinds, Application!Serve(k)
        PROVE  ApplicationInv'
    <2> DEFINE write == call[k].write
    <2>1. /\ call[k].at = "sent" /\ server' = Application!Overlay(server, write)
          /\ call' = [call EXCEPT ![k].at = "served",
                                  ![k].answer = Application!Part(server', Application!Told(k, server'))]
          /\ UNCHANGED <<app, form, edited, apart>>
      BY <1>5 DEF Application!Serve
    <2>2. /\ write \in Application!Parts /\ DOMAIN write \subseteq Own(k)
          /\ write \in [DOMAIN write -> Application!Values]
      BY <1>0, PartTyped DEF CallsInv, Calls
    <2>3. /\ server' \in [Application!Fields -> Application!Values]
          /\ \A f \in DOMAIN write : server'[f] = write[f]
          /\ \A f \in Application!Fields \ DOMAIN write : server'[f] = server[f]
      BY <2>1, <2>2, <1>0, FieldFacts DEF Application!Overlay
    <2> DEFINE told == Application!Told(k, server')
               answer == Application!Part(server', told)
    <2>t. /\ told \in SUBSET Application!Fields /\ told \subseteq Application!Reads(k)
          /\ \A f \in Application!Reads(k) \ told : f \in Omitted /\ server'[f] = 0
      BY FieldFacts DEF Application!Told
    <2> HIDE DEF told
    <2>4. /\ DOMAIN answer = told /\ answer \in [told -> Application!Values]
          /\ \A f \in Application!Reads(k) : Application!Read(answer, f) = server'[f]
      BY <2>3, <2>t, FieldFacts DEF Application!Part, Application!Read
    <2>5. answer \in Application!Parts
      BY <2>4, <2>t, MakePart
    <2> HIDE DEF answer
    <2>6. call'[k] = [at |-> "served", write |-> write, answer |-> answer]
      BY <2>1, <1>0 DEF Calls, answer, told
    <2>7. /\ \A o \in Application!Kinds \ {k} : call'[o] = call[o]
          /\ call' = [o \in Application!Kinds |-> IF o = k THEN call'[k] ELSE call[o]]
      BY <2>1, <1>0
    <2>8. call' \in [Application!Kinds -> Calls]
      <3>1. call'[k] \in Calls
        BY <2>2, <2>5, <2>6 DEF Calls
      <3>2. QED
        BY <2>7, <3>1, <1>0
    <2> HIDE DEF write
    <2>9. /\ call'[k].at = "served" /\ call'[k].write = write /\ call'[k].answer = answer
          /\ call[k].write = write
          /\ \A o \in Application!Kinds : call'[o].write = call[o].write
      BY <2>6, <2>7 DEF write
    <2>10. Application!TypeOK'
      BY <2>1, <2>3, <2>8, <1>0 DEF Application!TypeOK, Application!Application, Calls
    <2>11. CallsInv' /\ EditedInv'
      <3>1. \A o \in Application!Kinds : Application!Idle(o)' <=> Application!Idle(o)
        BY <2>1, <2>7, <2>9 DEF Application!Idle
      <3>2. Application!Loaded' <=> Application!Loaded
        BY <2>1 DEF Application!Loaded
      <3>3. \A o \in Application!Kinds : call'[o].at = "served" =>
                /\ DOMAIN call'[o].answer \subseteq Application!Reads(o)
                /\ Application!Reads(o) \ DOMAIN call'[o].answer \subseteq Omitted
        BY <2>4, <2>7, <2>9, <2>t, <1>0 DEF CallsInv
      <3>4. \A o \in Application!Kinds : Application!Idle(o)' => call'[o] = Application!NoCall
        BY <2>1, <2>7, <2>9, <3>1, <1>0 DEF CallsInv, Application!Idle
      <3>5. CallsInv'
        BY <2>9, <3>1, <3>2, <3>3, <3>4, <1>0, <1>k DEF CallsInv
      <3>6. QED
        BY <2>1, <3>2, <3>5, <1>0 DEF EditedInv
    <2>12. OverlapInv' /\ ClearedInv' /\ UnreadInv'
      BY <2>1, <2>7, <2>9, <1>0, <1>k DEF OverlapInv, ClearedInv, UnreadInv, Application!Idle
    <2>13. AnsweredInv'
      <3>1. ASSUME NEW o \in Application!Kinds \ {k}, call[o].at = "served",
                   NEW f \in DOMAIN write \ apart
            PROVE  f \notin DOMAIN call[o].write /\ f \notin Application!Reads(o)
        <4>1. DOMAIN call[o].write \subseteq Own(o) /\ f \in Own(k) /\ Own(k) \cap Own(o) = {}
          BY <2>2, <3>1, <1>0, FieldFacts DEF CallsInv
        <4>2. ~Application!Idle(k) /\ ~Application!Idle(o)
          BY <2>1, <3>1 DEF Application!Idle
        <4>3. o # "load"
          BY <4>2, <1>0, <1>k DEF CallsInv
        <4>4. o # "tokens"
          BY <4>2, <3>1, <2>9, <1>0 DEF OverlapInv
        <4>5. f \notin Application!Reads(o)
          BY <4>1, <4>3, <4>4, <1>k, FieldFacts DEF Own
        <4>6. QED
          BY <4>1, <4>5
      <3>2. ASSUME NEW o \in Application!Kinds \ {k}, call'[o].at = "served"
            PROVE  /\ \A f \in DOMAIN call'[o].write \ apart' : server'[f] = call'[o].write[f]
                   /\ \A f \in Application!Reads(o) \ apart' :
                          Application!Read(call'[o].answer, f) = server'[f]
        <4>1. call'[o] = call[o] /\ apart' = apart
          BY <2>1, <2>7
        <4>2. /\ DOMAIN call[o].write \subseteq Application!Fields
              /\ Application!Reads(o) \subseteq Application!Fields
          BY <1>0, FieldFacts DEF CallsInv
        <4>3. /\ \A f \in DOMAIN call[o].write \ apart : server[f] = call[o].write[f]
              /\ \A f \in Application!Reads(o) \ apart :
                     Application!Read(call[o].answer, f) = server[f]
          BY <3>2, <4>1, <1>0 DEF AnsweredInv
        <4>4. QED
          BY <3>1, <3>2, <4>1, <4>2, <4>3, <2>3
      <3>3. QED
        BY <3>2, <2>3, <2>4, <2>9 DEF AnsweredInv
    <2>14. Application!PageAgrees'
      BY <2>1, <2>3, <2>9, <1>0 DEF Application!PageAgrees, Application!Loaded, Application!Writing
    <2>15. QED
      BY <2>10, <2>11, <2>12, <2>13, <2>14 DEF ApplicationInv
  <1>6. ASSUME NEW f \in Rivals, Application!OtherWrites(f)
        PROVE  ApplicationInv'
    <2>1. /\ f \in Application!Fields /\ server' = [server EXCEPT ![f] = 1 - @]
          /\ apart' = apart \cup {f} /\ UNCHANGED <<app, form, call, edited>>
      BY <1>6, ApplicationAssumption DEF Application!OtherWrites
    <2>2. /\ server' \in [Application!Fields -> Application!Values]
          /\ \A g \in Application!Fields \ apart' : server'[g] = server[g]
      BY <2>1, <1>0 DEF Application!Values
    <2>3. Application!TypeOK'
      BY <2>1, <2>2, <1>0 DEF Application!TypeOK, Application!Application, Calls
    <2>4. CallsInv' /\ EditedInv' /\ OverlapInv' /\ ClearedInv' /\ UnreadInv'
      BY <2>1, <1>0 DEF CallsInv, EditedInv, OverlapInv, ClearedInv, UnreadInv, Application!Idle,
                        Application!Loaded
    <2>5. AnsweredInv'
      BY <2>1, <2>2, <1>0, FieldFacts DEF AnsweredInv, CallsInv
    <2>6. Application!PageAgrees'
      BY <2>1, <2>2, <1>0 DEF Application!PageAgrees, Application!Loaded, Application!Writing
    <2>7. QED
      BY <2>3, <2>4, <2>5, <2>6 DEF ApplicationInv

  <1>7. CASE Application!LoadAnswered
    <2>1. /\ call["load"].at = "served" /\ call' = [call EXCEPT !["load"] = Application!NoCall]
          /\ app' = [f \in Application!Fields |-> Application!Read(call["load"].answer, f)]
          /\ form' = Application!Part(app', Application!FormFields)
          /\ UNCHANGED <<server, edited, apart>>
      BY <1>7 DEF Application!LoadAnswered, Application!Answered
    <2>2. /\ app' \in [Application!Fields -> Application!Values]
          /\ \A f \in Application!Fields \ apart : app'[f] = server[f]
          /\ ~Application!Loaded
          /\ \A k \in Application!Kinds \ {"load"} : call[k] = Application!NoCall
      <3>1. \A f \in Application!Fields : Application!Read(call["load"].answer, f) \in Application!Values
        BY <1>0, <1>k, AnswerRead
      <3>2. \A f \in Application!Fields \ apart : Application!Read(call["load"].answer, f) = server[f]
        BY <2>1, <1>0, <1>k, FieldFacts DEF AnsweredInv
      <3>3. /\ ~Application!Loaded
            /\ \A k \in Application!Kinds \ {"load"} : call[k] = Application!NoCall
        BY <2>1, <1>0, <1>k DEF CallsInv, Application!Idle
      <3>4. QED
        BY <2>1, <3>1, <3>2, <3>3
    <2>3. /\ form' \in [Application!FormFields -> Application!Values]
          /\ \A f \in Application!FormFields : form'[f] = app'[f]
      BY <2>1, <2>2, FieldFacts DEF Application!Part
    <2>4. /\ call' \in [Application!Kinds -> Calls]
          /\ \A k \in Application!Kinds : call'[k] = Application!NoCall
      BY <2>1, <2>2, <1>k, Over
    <2>5. Application!TypeOK'
      BY <2>1, <2>2, <2>3, <2>4, <1>0 DEF Application!TypeOK, Application!Application, Calls
    <2>6. Application!Loaded'
      BY <2>2, NoPart DEF Application!Loaded, Application!Application
    <2>7. CallsInv' /\ OverlapInv' /\ AnsweredInv' /\ ClearedInv' /\ UnreadInv'
      BY <2>4, <2>6, <1>k, NoPart DEF CallsInv, OverlapInv, AnsweredInv, ClearedInv, UnreadInv,
                                      Application!Idle
    <2>8. EditedInv' /\ Application!PageAgrees'
      BY <2>1, <2>2, <2>3, FieldFacts DEF EditedInv, Application!PageAgrees
    <2>9. QED
      BY <2>5, <2>7, <2>8 DEF ApplicationInv
  <1>8. CASE Application!TokensAnswered
    <2>1. /\ call["tokens"].at = "served" /\ call' = [call EXCEPT !["tokens"] = Application!NoCall]
          /\ app' = Application!Overlay(app, call["tokens"].answer)
          /\ form' = Application!Overlay(form, Application!Part(app', TokenFields))
          /\ edited' = edited \ TokenFields
          /\ UNCHANGED <<server, apart>>
      BY <1>8 DEF Application!TokensAnswered, Application!Answered
    <2>2. /\ app' \in [Application!Fields -> Application!Values]
          /\ \A f \in Application!Fields \ apart : app'[f] = server[f]
          /\ Application!Loaded /\ ~Application!Idle("tokens")
      <3> DEFINE answer == call["tokens"].answer
                 write == call["tokens"].write
      <3>1. /\ Application!Loaded /\ ~Application!Idle("tokens")
            /\ Application!Fields \ DOMAIN answer \subseteq Omitted
        BY <2>1, <1>0, <1>k, FieldFacts DEF CallsInv, Application!Idle
      <3>2. \A f \in Application!Fields \ apart : Application!Read(answer, f) = server[f]
        BY <2>1, <1>0, <1>k, FieldFacts DEF AnsweredInv
      <3>3. \A f \in Application!Fields : Application!Read(answer, f) \in Application!Values
        BY <1>0, <1>k, AnswerRead
      <3>4. ASSUME NEW f \in Application!Fields \ apart, f \notin DOMAIN answer
            PROVE  app[f] = server[f]
        <4>1. server[f] = 0 /\ f \in Omitted
          BY <3>1, <3>2, <3>4 DEF Application!Read
        <4>2. f \in DOMAIN write => write[f] = server[f]
          BY <2>1, <1>0, <1>k DEF AnsweredInv
        <4>3. f \notin DOMAIN write
          BY <4>1, <4>2, <1>0 DEF ClearedInv
        <4>4. ~Application!Writing(f)
          BY <3>1, <4>3, <1>0, <1>k DEF OverlapInv, Application!Writing
        <4>5. QED
          BY <3>1, <4>4, <1>0 DEF Application!PageAgrees
      <3>5. QED
        BY <2>1, <3>1, <3>2, <3>3, <3>4, <1>0 DEF Application!Overlay, Application!Read
    <2>3. /\ form' \in [Application!FormFields -> Application!Values]
          /\ \A f \in TokenFields : form'[f] = app'[f]
          /\ \A f \in Application!FormFields \ TokenFields : form'[f] = form[f]
      BY <2>1, <2>2, <1>0, FieldFacts DEF Application!Part, Application!Overlay
    <2>4. /\ call' \in [Application!Kinds -> Calls]
          /\ call'["tokens"] = Application!NoCall
          /\ \A k \in Application!Kinds \ {"tokens"} : call'[k] = call[k]
      BY <2>1, <1>k, Over
    <2>5. Application!TypeOK'
      BY <2>1, <2>2, <2>3, <2>4, <1>0 DEF Application!TypeOK, Application!Application, Calls
    <2>6. Application!Loaded'
      BY <2>2, NoPart DEF Application!Loaded, Application!Application
    <2>7. CallsInv' /\ OverlapInv' /\ AnsweredInv' /\ ClearedInv'
      BY <2>1, <2>2, <2>4, <2>6, <1>0, <1>k, NoPart
         DEF CallsInv, OverlapInv, AnsweredInv, ClearedInv, Application!Idle
    <2>8. UnreadInv'
      <3>1. ~Application!Idle("toggle") => "active" \in apart
        BY <2>2, <1>0, <1>k DEF OverlapInv, CallsInv
      <3>2. form'["url"] = form["url"]
        BY <2>3, FieldFacts
      <3>3. QED
        BY <2>1, <2>4, <3>1, <3>2, <1>0, <1>k DEF UnreadInv, Application!Idle
    <2>9. EditedInv' /\ Application!PageAgrees'
      BY <2>1, <2>2, <2>3 DEF EditedInv, Application!PageAgrees
    <2>10. QED
      BY <2>5, <2>7, <2>8, <2>9 DEF ApplicationInv
  <1>9. CASE Application!DetailsAnswered
    <2> DEFINE link == Application!Read(call["details"].answer, "magic_link_url")
    <2>1. /\ call["details"].at = "served" /\ call' = [call EXCEPT !["details"] = Application!NoCall]
          /\ app' = [app EXCEPT !["url"] = form["url"], !["magic_link_url"] = link]
          /\ form' = [form EXCEPT !["magic_link_url"] = link]
          /\ edited' = edited \ {"magic_link_url"}
          /\ UNCHANGED <<server, apart>>
      BY <1>9 DEF Application!DetailsAnswered, Application!Answered
    <2>2. /\ Application!Loaded /\ ~Application!Idle("details")
          /\ link \in Application!Values
          /\ "magic_link_url" \notin apart => link = server["magic_link_url"]
          /\ "url" \notin apart => form["url"] = server["url"]
      <3>1. link \in Application!Values
        BY <1>0, <1>k, FieldFacts, AnswerRead
      <3>2. "magic_link_url" \notin apart => link = server["magic_link_url"]
        BY <2>1, <1>0, <1>k, FieldFacts DEF AnsweredInv
      <3>3. /\ Application!Loaded /\ ~Application!Idle("details")
            /\ "url" \notin apart => form["url"] = server["url"]
        BY <2>1, <1>0, <1>k, FieldFacts DEF CallsInv, AnsweredInv, UnreadInv, Application!Idle
      <3>4. QED
        BY <3>1, <3>2, <3>3
    <2> HIDE DEF link
    <2>3. /\ app' \in [Application!Fields -> Application!Values]
          /\ form' \in [Application!FormFields -> Application!Values]
          /\ app'["url"] = form["url"] /\ app'["magic_link_url"] = link
          /\ form'["url"] = form["url"]
          /\ \A f \in Application!Fields \ Application!DetailFields : app'[f] = app[f]
          /\ \A f \in Application!FormFields \ Application!DetailFields : form'[f] = form[f]
      BY <2>1, <2>2, <1>0, FieldFacts
    <2>4. /\ call' \in [Application!Kinds -> Calls]
          /\ call'["details"] = Application!NoCall
          /\ \A k \in Application!Kinds \ {"details"} : call'[k] = call[k]
          /\ \A f : Application!Writing(f) => Application!Writing(f)' \/ f \in DOMAIN call["details"].write
      BY <2>1, <1>k, Over
    <2>5. Application!TypeOK'
      BY <2>1, <2>3, <2>4, <1>0 DEF Application!TypeOK, Application!Application, Calls
    <2>6. Application!Loaded'
      BY <2>3, NoPart DEF Application!Loaded, Application!Application
    <2>7. CallsInv' /\ OverlapInv' /\ AnsweredInv' /\ ClearedInv'
      BY <2>1, <2>2, <2>4, <2>6, <1>0, <1>k, NoPart
         DEF CallsInv, OverlapInv, AnsweredInv, ClearedInv, Application!Idle
    <2>8. UnreadInv'
      BY <2>1, <2>3, <2>4, <1>0, <1>k, NoPart, FieldFacts DEF UnreadInv, Application!Idle
    <2>9. EditedInv'
      BY <2>1, <2>2, <2>3, <1>0, FieldFacts DEF EditedInv
    <2>10. Application!PageAgrees'
      <3> SUFFICES ASSUME NEW f \in Application!Fields \ apart, ~Application!Writing(f)'
                   PROVE  app'[f] = server[f]
        BY <2>1 DEF Application!PageAgrees
      <3>1. CASE f \in Application!DetailFields
        BY <2>2, <2>3, <3>1, FieldFacts
      <3>2. CASE f \notin Application!DetailFields
        <4>1. ~Application!Writing(f)
          BY <2>4, <3>2, <1>0, <1>k DEF CallsInv, Own
        <4>2. QED
          BY <2>2, <2>3, <3>2, <4>1, <1>0 DEF Application!PageAgrees
      <3>3. QED
        BY <3>1, <3>2
    <2>11. QED
      BY <2>5, <2>7, <2>8, <2>9, <2>10 DEF ApplicationInv
  <1>10. CASE Application!ToggleAnswered
    <2>1. /\ call["toggle"].at = "served" /\ call' = [call EXCEPT !["toggle"] = Application!NoCall]
          /\ app' = [app EXCEPT !["active"] = 1 - @]
          /\ UNCHANGED <<server, form, edited, apart>>
      BY <1>10 DEF Application!ToggleAnswered, Application!Answered
    <2>2. /\ Application!Loaded /\ ~Application!Idle("toggle")
          /\ "active" \notin apart => 1 - app["active"] = server["active"]
      BY <2>1, <1>0, <1>k, FieldFacts DEF CallsInv, AnsweredInv, UnreadInv, Application!Idle
    <2>3. /\ app' \in [Application!Fields -> Application!Values]
          /\ app'["active"] = 1 - app["active"]
          /\ \A f \in Application!Fields \ {"active"} : app'[f] = app[f]
      BY <2>1, <2>2, <1>0, FieldFacts DEF Application!Values
    <2>4. /\ call' \in [Application!Kinds -> Calls]
          /\ call'["toggle"] = Application!NoCall
          /\ \A k \in Application!Kinds \ {"toggle"} : call'[k] = call[k]
          /\ \A f : Application!Writing(f) => Application!Writing(f)' \/ f \in DOMAIN call["toggle"].write
      BY <2>1, <1>k, Over
    <2>5. Application!TypeOK'
      BY <2>1, <2>3, <2>4, <1>0 DEF Application!TypeOK, Application!Application, Calls
    <2>6. Application!Loaded'
      BY <2>3, NoPart DEF Application!Loaded, Application!Application
    <2>7. CallsInv' /\ OverlapInv' /\ AnsweredInv' /\ ClearedInv' /\ UnreadInv'
      BY <2>1, <2>2, <2>4, <2>6, <1>0, <1>k, NoPart
         DEF CallsInv, OverlapInv, AnsweredInv, ClearedInv, UnreadInv, Application!Idle
    <2>8. EditedInv'
      BY <2>1, <2>2, <2>3, <1>0, FieldFacts DEF EditedInv
    <2>9. Application!PageAgrees'
      <3> SUFFICES ASSUME NEW f \in Application!Fields \ apart, ~Application!Writing(f)'
                   PROVE  app'[f] = server[f]
        BY <2>1 DEF Application!PageAgrees
      <3>1. CASE f = "active"
        BY <2>2, <2>3, <3>1
      <3>2. CASE f # "active"
        <4>1. ~Application!Writing(f)
          BY <2>4, <3>2, <1>0, <1>k DEF CallsInv, Own
        <4>2. QED
          BY <2>2, <2>3, <3>2, <4>1, <1>0 DEF Application!PageAgrees
      <3>3. QED
        BY <3>1, <3>2
    <2>10. QED
      BY <2>5, <2>7, <2>8, <2>9 DEF ApplicationInv
  <1>11. ASSUME NEW k \in Application!Kinds, Application!Fail(k)
        PROVE  ApplicationInv'
    <2>1. /\ call' = [call EXCEPT ![k] = Application!NoCall] /\ ~Application!Idle(k)
          /\ apart' = apart \cup DOMAIN call[k].write
          /\ UNCHANGED <<server, app, form, edited>>
      BY <1>11 DEF Application!Fail
    <2>2. /\ call' \in [Application!Kinds -> Calls]
          /\ call'[k] = Application!NoCall
          /\ \A o \in Application!Kinds \ {k} : call'[o] = call[o]
          /\ \A f : Application!Writing(f) => Application!Writing(f)' \/ f \in DOMAIN call[k].write
      BY <2>1, Over
    <2>3. apart \subseteq apart' /\ apart' \subseteq Application!Fields
      BY <2>1, <1>0, FieldFacts DEF CallsInv
    <2>4. Application!TypeOK'
      BY <2>1, <2>2, <2>3, <1>0 DEF Application!TypeOK, Application!Application, Calls
    <2>5. CallsInv' /\ EditedInv'
      BY <2>1, <2>2, <1>0, NoPart DEF CallsInv, EditedInv, Application!Idle, Application!Loaded
    <2>6. OverlapInv' /\ UnreadInv'
      BY <2>1, <2>2, <2>3, <1>0, NoPart, <1>k DEF OverlapInv, UnreadInv, Application!Idle
    <2>7. AnsweredInv' /\ ClearedInv'
      BY <2>1, <2>2, <2>3, <1>0, <1>k, NoPart DEF AnsweredInv, ClearedInv
    <2>8. Application!PageAgrees'
      BY <2>1, <2>2, <2>3, <1>0 DEF Application!PageAgrees, Application!Loaded
    <2>9. QED
      BY <2>4, <2>5, <2>6, <2>7, <2>8 DEF ApplicationInv
  <1>12. CASE UNCHANGED applicationVars
    <2>1. UNCHANGED <<server, app, form, call, edited, apart>>
      BY <1>12 DEF applicationVars
    <2>2. Application!TypeOK' /\ CallsInv' /\ EditedInv'
      BY <2>1, <1>0 DEF Application!TypeOK, CallsInv, EditedInv, Application!Idle, Application!Loaded
    <2>3. OverlapInv' /\ AnsweredInv' /\ ClearedInv' /\ UnreadInv'
      BY <2>1, <1>0 DEF OverlapInv, AnsweredInv, ClearedInv, UnreadInv, Application!Idle
    <2>4. Application!PageAgrees'
      BY <2>1, <1>0 DEF Application!PageAgrees, Application!Loaded, Application!Writing
    <2>5. QED
      BY <2>2, <2>3, <2>4 DEF ApplicationInv
  <1>13. QED
    BY <1>1, <1>2, <1>3, <1>4, <1>5, <1>6, <1>7, <1>8, <1>9, <1>10, <1>11, <1>12
       DEF Application!Next

\* A save of the token settings carries what was edited.
LEMMA TokensSent ==
  ApplicationInv /\ [Application!Next]_applicationVars /\ Application!Starts("tokens") =>
      DOMAIN call'["tokens"].write \subseteq edited
  <1> SUFFICES ASSUME ApplicationInv, [Application!Next]_applicationVars, Application!Starts("tokens")
               PROVE  DOMAIN call'["tokens"].write \subseteq edited
    OBVIOUS
  <1>0. /\ call \in [Application!Kinds -> Calls] /\ EditedInv
        /\ "tokens" \in Application!Kinds
        /\ call["tokens"].at = "idle" /\ call'["tokens"].at = "sent"
    BY ApplicationTypes DEF ApplicationInv, Application!Kinds, Application!Starts, Application!Idle
  <1>1. ASSUME NEW k \in Application!Kinds \ {"tokens"}, NEW r, call' = [call EXCEPT ![k] = r]
        PROVE  FALSE
    BY <1>0, <1>1
  <1>2. CASE Application!saveTokenSettings
    <2> DEFINE parts == Application!Changed(TokenFields)
    <2>1. /\ Application!Loaded
          /\ call' = [call EXCEPT !["tokens"] = Application!Sent(Application!Part(form, parts))]
      BY <1>2 DEF Application!saveTokenSettings, Application!Send
    <2>2. call'["tokens"].write = Application!Part(form, parts)
      BY <2>1, <1>0 DEF Application!Sent
    <2>3. DOMAIN Application!Part(form, parts) = parts
      BY DEF Application!Part
    <2>4. parts \subseteq edited
      BY <2>1, <1>0 DEF Application!Changed, EditedInv
    <2>5. QED
      BY <2>2, <2>3, <2>4
  <1>3. CASE Application!saveSettings \/ Application!toggleActive
    BY <1>3, <1>1 DEF Application!saveSettings, Application!toggleActive, Application!Send,
                      Application!Kinds
  <1>4. ASSUME NEW k \in Application!Kinds, Application!Serve(k)
        PROVE  FALSE
    <2>1. /\ k # "tokens"
          /\ call' = [call EXCEPT ![k].at = "served",
                                  ![k].answer = Application!Part(server', Application!Told(k, server'))]
      BY <1>0, <1>4 DEF Application!Serve
    <2>2. QED
      BY <2>1, <1>0
  <1>5. ASSUME NEW k \in Application!Kinds, call' = [call EXCEPT ![k] = Application!NoCall]
        PROVE  FALSE
    <2>1. call'["tokens"] = call["tokens"] \/ call'["tokens"] = Application!NoCall
      BY <1>5, <1>0
    <2>2. QED
      BY <2>1, <1>0, NoPart
  <1>6. CASE Application!LoadAnswered \/ Application!TokensAnswered
               \/ Application!DetailsAnswered \/ Application!ToggleAnswered
    BY <1>5, <1>6 DEF Application!LoadAnswered, Application!TokensAnswered, Application!Kinds,
       Application!DetailsAnswered, Application!ToggleAnswered, Application!Answered
  <1>7. ASSUME NEW k \in Application!Kinds, Application!Fail(k)
        PROVE  FALSE
    BY <1>5, <1>7 DEF Application!Fail
  <1>8. ~UNCHANGED call
    BY <1>0
  <1>9. QED
    BY <1>2, <1>3, <1>4, <1>6, <1>7, <1>8
       DEF Application!Next, Application!Edit, Application!OtherWrites, applicationVars

-----------------------------------------------------------------------------
(* The rows of a set (SettingsRows) *)

Sheets == {"claims", "attributes"}
Named == {"a", "b", "toString"}

\* The rows that are not blank.
Rowed(list) == {i \in 1..Len(list) : ~Settings!Blank(list[i])}

LEMMA ListTyped ==
  ASSUME NEW f \in Sheets, NEW list \in Settings!Lists(f)
  PROVE  /\ list \in Seq(Settings!Rows(f)) /\ Len(list) \in 0..MaxRows
         /\ list \in [1..Len(list) -> Settings!Rows(f)]
  <1>1. PICK n \in 0..MaxRows : list \in [1..n -> Settings!Rows(f)]
    BY DEF Settings!Lists
  <1>2. list \in Seq(Settings!Rows(f))
    BY <1>1, SeqDef, RowsAssumption
  <1>3. Len(list) = n
    BY <1>1, <1>2, LenProperties, RowsAssumption
  <1>4. QED
    BY <1>1, <1>2, <1>3

LEMMA MakeList ==
  ASSUME NEW f \in Sheets, NEW list \in Seq(Settings!Rows(f)), Len(list) <= MaxRows
  PROVE  list \in Settings!Lists(f)
  <1>1. Len(list) \in 0..MaxRows /\ list \in [1..Len(list) -> Settings!Rows(f)]
    BY LenProperties, RowsAssumption
  <1>2. QED
    BY <1>1 DEF Settings!Lists

\* Rows without an error have names of their own, and each is an entry of the set.
LEMMA SetOfRows ==
  ASSUME NEW f \in Sheets, NEW list \in Settings!Lists(f), Settings!errors(f, list) = {}
  PROVE  LET set == Settings!ToSet(f, list) IN
         /\ \A i \in Rowed(list) :
               /\ Settings!Acceptable(f, list[i]) /\ Settings!trim(list[i].name) \in {"a", "b"}
               /\ \A j \in Rowed(list) :
                     Settings!trim(list[j].name) = Settings!trim(list[i].name) => j = i
               /\ set[Settings!trim(list[i].name)] = Settings!Entry(list[i])
         /\ DOMAIN set = {Settings!trim(list[i].name) : i \in Rowed(list)}
  <1> DEFINE filled == Rowed(list)
             name(i) == Settings!trim(list[i].name)
             set == Settings!ToSet(f, list)
  <1>1. /\ Len(list) \in Nat /\ list \in [1..Len(list) -> Settings!Rows(f)]
        /\ filled \subseteq 1..Len(list)
    BY ListTyped, RowsAssumption DEF Rowed
  <1>2. \A i \in filled : Settings!Acceptable(f, list[i]) /\ ~Settings!TakenAbove(f, list, i)
    BY DEF Settings!errors, Rowed
  <1>3. \A i \in filled : name(i) \in {"a", "b"}
    <2> SUFFICES ASSUME NEW i \in filled
                 PROVE  name(i) \in {"a", "b"}
      OBVIOUS
    <2>1. list[i].name \in Settings!Typed
      BY <1>1 DEF Settings!Rows
    <2>2. name(i) \notin {"", "long", "toString"}
      BY <1>2 DEF Settings!Acceptable, Settings!TakenAbove, Settings!Inherited
    <2>3. QED
      BY <2>1, <2>2 DEF Settings!Typed, Settings!trim
  <1>4. \A i, j \in filled : j < i => name(j) # name(i)
    BY <1>1, <1>2 DEF Settings!TakenAbove
  <1>5. \A i, j \in filled : name(j) = name(i) => j = i
    BY <1>1, <1>4
  <1>6. filled = {i \in 1..Len(list) : ~Settings!Blank(list[i])} \ Settings!errors(f, list)
    BY DEF Rowed
  <1> DEFINE pick(n) == CHOOSE i \in filled : /\ name(i) = n
                                              /\ \A j \in filled : name(j) = n => j <= i
  <1>7. set = [n \in {name(i) : i \in filled} |-> Settings!Entry(list[pick(n)])]
    BY <1>6 DEF Settings!ToSet
  <1>8. \A i \in filled : pick(name(i)) = i
    <2> SUFFICES ASSUME NEW i \in filled
                 PROVE  pick(name(i)) = i
      OBVIOUS
    <2> HIDE DEF filled, name
    <2>1. name(i) = name(i) /\ \A j \in filled : name(j) = name(i) => j <= i
      BY <1>1, <1>5
    <2>2. pick(name(i)) \in filled /\ name(pick(name(i))) = name(i)
      BY <2>1
    <2>3. QED
      BY <2>2, <1>5
  <1>9. DOMAIN set = {name(i) : i \in filled}
    BY <1>7
  <1>10. \A i \in filled : set[name(i)] = Settings!Entry(list[i])
    <2> HIDE DEF filled, name, set, pick
    <2>1. QED
      BY <1>7, <1>8
  <1>11. QED
    BY <1>2, <1>3, <1>5, <1>9, <1>10

\* The module's own cardinality is the library's.
LEMMA SameCardinality == \A S : Settings!Cardinality(S) = Cardinality(S)
  BY DEF Settings!Cardinality, Cardinality

LEMMA CountTo ==
  ASSUME NEW n \in Nat
  PROVE  IsFiniteSet(1..n) /\ Cardinality(1..n) = n
  BY FS_Interval

LEMMA FewerThan ==
  ASSUME NEW n \in Nat, NEW S \in SUBSET (1..n)
  PROVE  IsFiniteSet(S) /\ Cardinality(S) \in Nat /\ Cardinality(S) <= n
  <1>1. IsFiniteSet(S) /\ Cardinality(S) <= Cardinality(1..n)
    BY CountTo, FS_Subset
  <1>2. QED
    BY <1>1, CountTo, FS_CardinalityType

\* The set is as large as there are rows, and of the type of what is stored.
LEMMA SetTyped ==
  ASSUME NEW f \in Sheets, NEW list \in Settings!Lists(f), Settings!errors(f, list) = {}
  PROVE  LET set == Settings!ToSet(f, list) IN
         /\ set \in [DOMAIN set -> Settings!Entries(f)] /\ DOMAIN set \subseteq {"a", "b"}
         /\ Cardinality(DOMAIN set) = Cardinality(Rowed(list))
         /\ Cardinality(DOMAIN set) \in 0..MaxRows
         /\ \A n \in DOMAIN set :
               Settings!Acceptable(f, [name |-> "a", value |-> set[n].value, as |-> set[n].as])
  <1> DEFINE filled == Rowed(list)
             name(i) == Settings!trim(list[i].name)
             set == Settings!ToSet(f, list)
             index == [i \in filled |-> name(i)]
  <1>1. /\ Len(list) \in 0..MaxRows /\ list \in [1..Len(list) -> Settings!Rows(f)]
        /\ filled \subseteq 1..Len(list)
    BY ListTyped DEF Rowed
  <1>2. /\ \A i \in filled : Settings!Acceptable(f, list[i]) /\ name(i) \in {"a", "b"}
        /\ \A i, j \in filled : name(j) = name(i) => j = i
        /\ \A i \in filled : set[name(i)] = Settings!Entry(list[i])
        /\ DOMAIN set = {name(i) : i \in filled}
    BY SetOfRows
  <1>3. \A i \in filled :
           /\ Settings!Entry(list[i]) \in Settings!Entries(f)
           /\ Settings!Acceptable(f, [name |-> "a", value |-> Settings!Entry(list[i]).value,
                                      as |-> Settings!Entry(list[i]).as])
    <2> SUFFICES ASSUME NEW i \in filled
                 PROVE  /\ Settings!Entry(list[i]) \in Settings!Entries(f)
                        /\ Settings!Acceptable(f, [name |-> "a", value |-> Settings!Entry(list[i]).value,
                                                   as |-> Settings!Entry(list[i]).as])
      OBVIOUS
    <2>1. list[i] \in Settings!Rows(f) /\ Settings!Acceptable(f, list[i])
      BY <1>1, <1>2
    <2> HIDE DEF filled
    <2>2. list[i].value \in Settings!Contents /\ list[i].as \in Settings!RowKinds(f)
      BY <2>1 DEF Settings!Rows
    <2>3. Settings!Entry(list[i]) \in Settings!Entries(f)
      BY <2>2 DEF Settings!Entry, Settings!Entries, Settings!RowKinds, Settings!StoredAs, Sheets
    <2>4. QED
      BY <2>1, <2>2, <2>3 DEF Settings!Entry, Settings!Acceptable, Settings!RowKinds, Settings!trim
  <1>5. IsFiniteSet(filled) /\ Cardinality(filled) \in Nat /\ Cardinality(filled) <= Len(list)
    <2> HIDE DEF filled
    <2>1. Len(list) \in Nat /\ filled \in SUBSET (1..Len(list))
      BY <1>1, RowsAssumption
    <2>2. QED
      BY <2>1, FewerThan
  <1>6. Cardinality(DOMAIN set) = Cardinality(filled)
    <2> HIDE DEF filled, name, set
    <2>1. index \in [filled -> DOMAIN set]
      BY <1>2
    <2>2. \A i, j \in filled : index[i] = index[j] => i = j
      BY <1>2
    <2>3. \A n \in DOMAIN set : \E i \in filled : index[i] = n
      BY <1>2
    <2> HIDE DEF index
    <2>4. index \in Bijection(filled, DOMAIN set)
      BY <2>1, <2>2, <2>3 DEF Bijection, Injection, Surjection, IsInjective
    <2>5. QED
      BY <2>4, <1>5, FS_Bijection DEF ExistsBijection
  <1>7. set \in [DOMAIN set -> Settings!Entries(f)]
    <2>1. set = [n \in DOMAIN set |-> set[n]]
      BY DEF Settings!ToSet
    <2> HIDE DEF filled, name, set
    <2>2. ASSUME NEW n \in DOMAIN set
          PROVE  set[n] \in Settings!Entries(f)
      <3>1. PICK i \in filled : n = name(i)
        BY <1>2
      <3>2. QED
        BY <3>1, <1>2, <1>3
    <2>3. QED
      BY <2>1, <2>2
  <1>8. QED
    <2> HIDE DEF filled, name, set
    <2>1. Cardinality(DOMAIN set) \in 0..MaxRows
      BY <1>1, <1>5, <1>6, RowsAssumption
    <2>2. DOMAIN set \subseteq {"a", "b"}
      BY <1>2
    <2>3. \A n \in DOMAIN set :
             Settings!Acceptable(f, [name |-> "a", value |-> set[n].value, as |-> set[n].as])
      BY <1>2, <1>3
    <2>4. QED
      BY <1>6, <1>7, <2>1, <2>2, <2>3 DEF filled, set

\* Entries are shown in rows they come back from as they are.
LEMMA EntryShown ==
  ASSUME NEW f \in Sheets, NEW row \in Settings!Rows(f), NEW n
  PROVE  Settings!AsRow(n, Settings!Entry(row)) = [row EXCEPT !.name = n]
  <1>1. /\ row = [name |-> row.name, value |-> row.value, as |-> row.as]
        /\ row.as \in Settings!RowKinds(f)
    BY DEF Settings!Rows
  <1>2. [row EXCEPT !.name = n] = [name |-> n, value |-> row.value, as |-> row.as]
    BY DEF Settings!Rows
  <1>3. Settings!Entry(row).value = row.value
        /\ (IF Settings!Entry(row).as \in {"string", "targetless"} THEN "access"
            ELSE Settings!Entry(row).as) = row.as
    BY <1>1 DEF Settings!Entry, Settings!RowKinds, Sheets
  <1>4. QED
    BY <1>2, <1>3 DEF Settings!AsRow

LEMMA RowsKept ==
  Settings!RowsTypeOK => Settings!NoRowLost
  <1> SUFFICES ASSUME Settings!RowsTypeOK, Settings!errors(sheet, fields) = {}
               PROVE  LET filled == {i \in 1..Len(fields) : ~Settings!Blank(fields[i])}
                          set == Settings!ToSet(sheet, fields) IN
                      /\ Cardinality(DOMAIN set) = Cardinality(filled)
                      /\ \A i \in filled :
                            Settings!AsRow(Settings!trim(fields[i].name), set[Settings!trim(fields[i].name)])
                               = [fields[i] EXCEPT !.name = Settings!trim(@)]
    BY SameCardinality DEF Settings!NoRowLost
  <1> DEFINE set == Settings!ToSet(sheet, fields)
  <1>1. sheet \in Sheets /\ fields \in Settings!Lists(sheet)
    BY DEF Settings!RowsTypeOK, Sheets
  <1>2. \A i \in Rowed(fields) : set[Settings!trim(fields[i].name)] = Settings!Entry(fields[i])
    BY <1>1, SetOfRows
  <1>3. \A i \in Rowed(fields) : fields[i] \in Settings!Rows(sheet)
    BY <1>1, ListTyped DEF Rowed
  <1>4. Cardinality(DOMAIN set) = Cardinality(Rowed(fields))
    BY <1>1, SetTyped
  <1>5. \A i \in Rowed(fields) :
           Settings!AsRow(Settings!trim(fields[i].name), set[Settings!trim(fields[i].name)])
              = [fields[i] EXCEPT !.name = Settings!trim(fields[i].name)]
    <2> HIDE DEF set
    <2>1. QED
      BY <1>1, <1>2, <1>3, EntryShown
  <1>6. QED
    BY <1>4, <1>5 DEF Rowed

LEMMA NamedFinite ==
  ASSUME NEW S \in SUBSET Named
  PROVE  IsFiniteSet(S) /\ Cardinality(S) \in Nat
  <1>1. IsFiniteSet({}) /\ IsFiniteSet({} \cup {"a"})
    BY FS_EmptySet, FS_AddElement
  <1>2. IsFiniteSet(({} \cup {"a"}) \cup {"b"})
    BY <1>1, FS_AddElement
  <1>3. IsFiniteSet((({} \cup {"a"}) \cup {"b"}) \cup {"toString"})
    BY <1>2, FS_AddElement
  <1>4. Named = (({} \cup {"a"}) \cup {"b"}) \cup {"toString"}
    BY DEF Named
  <1>5. IsFiniteSet(Named)
    BY <1>3, <1>4
  <1>6. IsFiniteSet(S)
    BY <1>5, FS_Subset
  <1>7. QED
    BY <1>6, FS_CardinalityType

LEMMA RowTyped ==
  ASSUME NEW f \in Sheets, NEW n \in Named, NEW entry \in Settings!Entries(f)
  PROVE  /\ Settings!AsRow(n, entry) \in Settings!Rows(f)
         /\ Settings!AsRow(n, entry).name = n
         /\ Settings!AsRow(n, entry).value = entry.value
         /\ Settings!AsRow(n, entry).as = "json" <=> entry.as = "json"
  <1>1. entry.value \in Settings!Contents /\ entry.as \in Settings!StoredAs(f)
    BY DEF Settings!Entries
  <1>2. (IF entry.as \in {"string", "targetless"} THEN "access" ELSE entry.as) \in Settings!RowKinds(f)
    BY <1>1 DEF Settings!StoredAs, Settings!RowKinds, Sheets
  <1>3. n \in Settings!Typed
    BY DEF Named, Settings!Typed
  <1>4. QED
    BY <1>1, <1>2, <1>3 DEF Settings!AsRow, Settings!Rows

\* Rows that were filled with a set stand one for each of its names.
LEMMA FilledRows ==
  ASSUME NEW f \in Sheets, NEW set, DOMAIN set \in SUBSET Named,
         set \in [DOMAIN set -> Settings!Entries(f)], NEW list \in Settings!Filled(set)
  PROVE  /\ list \in Seq(Settings!Rows(f)) /\ Len(list) = Cardinality(DOMAIN set)
         /\ \A i \in 1..Len(list) :
               /\ list[i].name \in DOMAIN set
               /\ list[i] = Settings!AsRow(list[i].name, set[list[i].name])
               /\ \A j \in 1..Len(list) : list[j].name = list[i].name => j = i
         /\ \A n \in DOMAIN set : \E i \in 1..Len(list) : list[i].name = n
  <1> DEFINE size == Cardinality(DOMAIN set)
             image == {Settings!AsRow(n, set[n]) : n \in DOMAIN set}
             index == [i \in 1..size |-> list[i].name]
  <1>1. size \in Nat /\ IsFiniteSet(DOMAIN set)
    BY NamedFinite
  <1>2. list \in [1..size -> image] /\ {list[i] : i \in 1..Len(list)} = image
    BY SameCardinality DEF Settings!Filled, Settings!ShownAs
  <1>3. \A n \in DOMAIN set : /\ Settings!AsRow(n, set[n]) \in Settings!Rows(f)
                              /\ Settings!AsRow(n, set[n]).name = n
    BY RowTyped
  <1>4. image \subseteq Settings!Rows(f)
    BY <1>3
  <1>5. list \in Seq(Settings!Rows(f)) /\ Len(list) = size
    <2> HIDE DEF size, image
    <2>1. list \in [1..size -> Settings!Rows(f)]
      BY <1>2, <1>4
    <2>2. list \in Seq(Settings!Rows(f))
      BY <2>1, <1>1, SeqDef
    <2>3. QED
      BY <2>1, <2>2, <1>1, LenProperties
  <1>6. \A i \in 1..size :
           /\ list[i].name \in DOMAIN set
           /\ list[i] = Settings!AsRow(list[i].name, set[list[i].name])
    <2> SUFFICES ASSUME NEW i \in 1..size
                 PROVE  /\ list[i].name \in DOMAIN set
                        /\ list[i] = Settings!AsRow(list[i].name, set[list[i].name])
      OBVIOUS
    <2>1. PICK n \in DOMAIN set : list[i] = Settings!AsRow(n, set[n])
      <3> HIDE DEF size
      <3>1. list[i] \in image
        BY <1>2
      <3>2. QED
        BY <3>1
    <2>2. QED
      BY <2>1, <1>3
  <1>7. \A n \in DOMAIN set : \E i \in 1..size : list[i].name = n
    <2> SUFFICES ASSUME NEW n \in DOMAIN set
                 PROVE  \E i \in 1..size : list[i].name = n
      OBVIOUS
    <2>1. Settings!AsRow(n, set[n]) \in {list[i] : i \in 1..Len(list)}
      BY <1>2
    <2> HIDE DEF size
    <2>2. PICK i \in 1..size : list[i] = Settings!AsRow(n, set[n])
      BY <2>1, <1>5
    <2>3. QED
      BY <2>2, <1>3
  <1>8. \A i, j \in 1..size : list[j].name = list[i].name => j = i
    <2>1. index \in [1..size -> DOMAIN set]
      BY <1>6
    <2>2. \A n \in DOMAIN set : \E i \in 1..size : index[i] = n
      BY <1>7
    <2>3. IsFiniteSet(1..size) /\ Cardinality(1..size) = Cardinality(DOMAIN set)
      <3> HIDE DEF size
      <3>1. Cardinality(1..size) = size /\ IsFiniteSet(1..size)
        BY <1>1, CountTo
      <3>2. QED
        BY <3>1 DEF size
    <2>4. \A i \in 1..size : index[i] = list[i].name
      OBVIOUS
    <2> HIDE DEF index, size
    <2>5. index \in Surjection(1..size, DOMAIN set)
      BY <2>1, <2>2 DEF Surjection
    <2>6. index \in Injection(1..size, DOMAIN set)
      BY <2>3, <2>5, FS_SurjSameCardinalityImpliesInj
    <2>7. \A i, j \in 1..size : index[i] = index[j] => i = j
      BY <2>6 DEF Injection, IsInjective
    <2>8. QED
      BY <2>4, <2>7
  <1>9. QED
    <2> HIDE DEF size, index, image
    <2>1. QED
      BY <1>5, <1>6, <1>7, <1>8 DEF size

FilledInv ==
    ~retyped =>
        /\ fields \in Settings!Filled(stored)
        /\ \A n \in DOMAIN stored :
              Settings!Acceptable(sheet, [name |-> "a", value |-> stored[n].value, as |-> stored[n].as])

SettingsInv == Settings!RowsTypeOK /\ FilledInv

LEMMA StoredTyped ==
  ASSUME Settings!RowsTypeOK
  PROVE  /\ sheet \in Sheets /\ DOMAIN stored \in SUBSET Named
         /\ stored \in [DOMAIN stored -> Settings!Entries(sheet)]
         /\ fields \in Settings!Lists(sheet)
  <1>1. PICK names \in SUBSET Named : stored \in [names -> Settings!Entries(sheet)]
    BY DEF Settings!RowsTypeOK, Named
  <1>2. QED
    BY <1>1 DEF Settings!RowsTypeOK, Sheets

LEMMA MakeStored ==
  ASSUME NEW f \in Sheets, NEW set, DOMAIN set \subseteq Named,
         set \in [DOMAIN set -> Settings!Entries(f)]
  PROVE  set \in UNION {[names -> Settings!Entries(f)] : names \in SUBSET {"a", "b", "toString"}}
  BY DEF Named

LEMMA RowsStand ==
  SettingsInv => Settings!UntouchedRowsStand
  <1> SUFFICES ASSUME SettingsInv, ~retyped, DOMAIN stored \cap Settings!Inherited = {}
               PROVE  /\ Settings!errors(sheet, fields) = {}
                      /\ Settings!sameMappings(Settings!ToSet(sheet, fields), stored)
    BY DEF Settings!UntouchedRowsStand
  <1>1. /\ sheet \in Sheets /\ DOMAIN stored \in SUBSET Named
        /\ stored \in [DOMAIN stored -> Settings!Entries(sheet)]
        /\ fields \in Settings!Lists(sheet)
    BY StoredTyped DEF SettingsInv
  <1>2. /\ fields \in Settings!Filled(stored)
        /\ \A n \in DOMAIN stored :
              Settings!Acceptable(sheet, [name |-> "a", value |-> stored[n].value, as |-> stored[n].as])
    BY DEF SettingsInv, FilledInv
  <1>3. /\ \A i \in 1..Len(fields) :
              /\ fields[i].name \in DOMAIN stored
              /\ fields[i] = Settings!AsRow(fields[i].name, stored[fields[i].name])
              /\ \A j \in 1..Len(fields) : fields[j].name = fields[i].name => j = i
        /\ \A n \in DOMAIN stored : \E i \in 1..Len(fields) : fields[i].name = n
    BY <1>1, <1>2, FilledRows
  <1>4. \A i \in 1..Len(fields) :
           /\ fields[i].name \in {"a", "b"} /\ Settings!trim(fields[i].name) = fields[i].name
           /\ ~Settings!Blank(fields[i])
    BY <1>1, <1>3 DEF Named, Settings!Inherited, Settings!trim, Settings!Blank
  <1>5. ASSUME NEW i \in 1..Len(fields)
        PROVE  Settings!Acceptable(sheet, fields[i])
    <2> DEFINE entry == stored[fields[i].name]
    <2>1. /\ entry \in Settings!Entries(sheet) /\ fields[i].name \in Named
          /\ Settings!Acceptable(sheet, [name |-> "a", value |-> entry.value, as |-> entry.as])
      BY <1>1, <1>2, <1>3 DEF Named
    <2>2. fields[i].value = entry.value /\ (fields[i].as = "json" <=> entry.as = "json")
      <3>1. fields[i] = Settings!AsRow(fields[i].name, entry)
        BY <1>3
      <3> HIDE DEF entry
      <3>2. QED
        BY <1>1, <2>1, <3>1, RowTyped
    <2>3. Settings!trim(fields[i].name) \notin {"", "long"}
      BY <1>4
    <2> HIDE DEF entry
    <2>4. /\ sheet = "claims" => entry.value = "good"
          /\ entry.as = "json" => entry.value = "good"
      BY <2>1 DEF Settings!Acceptable
    <2>5. QED
      BY <2>2, <2>3, <2>4 DEF Settings!Acceptable
  <1>6. ASSUME NEW i \in 1..Len(fields)
        PROVE  ~Settings!TakenAbove(sheet, fields, i)
    <2>1. Settings!trim(fields[i].name) \notin Settings!Inherited
      BY <1>4 DEF Settings!Inherited
    <2>2. \A j \in 1..(i - 1) : Settings!trim(fields[j].name) # Settings!trim(fields[i].name)
      <3>1. Len(fields) \in Nat
        BY <1>1, ListTyped, RowsAssumption
      <3>2. \A j \in 1..(i - 1) : j \in 1..Len(fields) /\ j # i
        BY <3>1
      <3>3. QED
        BY <1>3, <1>4, <3>2
    <2>3. QED
      BY <2>1, <2>2 DEF Settings!TakenAbove
  <1>7. Settings!errors(sheet, fields) = {}
    BY <1>5, <1>6 DEF Settings!errors
  <1> DEFINE set == Settings!ToSet(sheet, fields)
  <1>8. Rowed(fields) = 1..Len(fields)
    BY <1>4 DEF Rowed
  <1>9. /\ \A i \in 1..Len(fields) : set[fields[i].name] = Settings!Entry(fields[i])
        /\ DOMAIN set = {fields[i].name : i \in 1..Len(fields)}
    <2>1. /\ \A i \in Rowed(fields) : set[Settings!trim(fields[i].name)] = Settings!Entry(fields[i])
          /\ DOMAIN set = {Settings!trim(fields[i].name) : i \in Rowed(fields)}
      BY <1>1, <1>7, SetOfRows
    <2> HIDE DEF set
    <2>2. QED
      BY <1>4, <1>8, <2>1
  <1>10. DOMAIN set = DOMAIN stored
    <2> HIDE DEF set
    <2>1. \A i \in 1..Len(fields) : fields[i].name \in DOMAIN stored
      BY <1>3
    <2>2. \A n \in DOMAIN stored : \E i \in 1..Len(fields) : n = fields[i].name
      BY <1>3
    <2>3. {fields[i].name : i \in 1..Len(fields)} = DOMAIN stored
      BY <2>1, <2>2
    <2>4. QED
      BY <1>9, <2>3
  <1>11. ASSUME NEW n \in DOMAIN set
         PROVE  Settings!AsRow(n, set[n]) = Settings!AsRow(n, stored[n])
    <2> HIDE DEF set
    <2>1. PICK i \in 1..Len(fields) : fields[i].name = n
      BY <1>9
    <2>2. set[n] = Settings!Entry(fields[i]) /\ fields[i] = Settings!AsRow(n, stored[n])
      BY <1>3, <1>9, <2>1
    <2>3. fields[i] \in Settings!Rows(sheet)
      BY <1>1, ListTyped
    <2>4. Settings!AsRow(n, set[n]) = [fields[i] EXCEPT !.name = n]
      BY <1>1, <2>2, <2>3, EntryShown
    <2>5. [fields[i] EXCEPT !.name = n] = fields[i]
      BY <2>1, <2>3 DEF Settings!Rows
    <2>6. QED
      BY <2>2, <2>4, <2>5
  <1>12. QED
    BY <1>7, <1>10, <1>11 DEF Settings!sameMappings

LEMMA SettingsStarts == Settings!Init => SettingsInv
  <1> SUFFICES ASSUME Settings!Init
               PROVE  SettingsInv
    OBVIOUS
  <1>1. sheet \in Sheets /\ stored \in Settings!StoredSets(sheet) /\ retyped = FALSE
        /\ fields \in Settings!Filled(stored)
    BY DEF Settings!Init, Sheets
  <1>2. PICK names \in SUBSET Named :
            /\ Settings!Cardinality(names) <= MaxRows
            /\ stored \in [names -> {e \in Settings!Entries(sheet) :
                                        Settings!Acceptable(sheet, [name |-> "a", value |-> e.value, as |-> e.as])}]
    BY <1>1 DEF Settings!StoredSets, Named
  <1>3. /\ DOMAIN stored = names /\ stored \in [DOMAIN stored -> Settings!Entries(sheet)]
        /\ \A n \in DOMAIN stored :
              Settings!Acceptable(sheet, [name |-> "a", value |-> stored[n].value, as |-> stored[n].as])
    BY <1>2
  <1>4. Cardinality(DOMAIN stored) <= MaxRows
    BY <1>2, <1>3, SameCardinality
  <1>5. fields \in Seq(Settings!Rows(sheet)) /\ Len(fields) = Cardinality(DOMAIN stored)
    BY <1>1, <1>3, FilledRows
  <1>6. fields \in Settings!Lists(sheet)
    BY <1>1, <1>4, <1>5, MakeList
  <1>7. stored \in UNION {[s -> Settings!Entries(sheet)] : s \in SUBSET {"a", "b", "toString"}}
    BY <1>1, <1>3, MakeStored
  <1>8. QED
    BY <1>1, <1>3, <1>6, <1>7 DEF SettingsInv, FilledInv, Settings!RowsTypeOK, Sheets

\* Rows that are edited keep their type.
LEMMA Retyping ==
  ASSUME Settings!RowsTypeOK, fields' \in Seq(Settings!Rows(sheet)), Len(fields') <= MaxRows,
         retyped' = TRUE, UNCHANGED <<sheet, stored>>
  PROVE  SettingsInv'
  <1>1. fields' \in Settings!Lists(sheet)
    BY StoredTyped, MakeList
  <1>2. Settings!RowsTypeOK'
    <2>1. fields' \in Settings!Lists(sheet)'
      BY <1>1 DEF Settings!Lists, Settings!Rows, Settings!RowKinds
    <2>2. QED
      BY <2>1 DEF Settings!RowsTypeOK
  <1>3. QED
    BY <1>2 DEF SettingsInv, FilledInv

LEMMA RowEdited ==
  ASSUME Settings!RowsTypeOK, NEW i \in 1..Len(fields), NEW row \in Settings!Rows(sheet),
         fields' = [fields EXCEPT ![i] = row]
  PROVE  fields' \in Seq(Settings!Rows(sheet)) /\ Len(fields') <= MaxRows
  <1>1. fields \in Seq(Settings!Rows(sheet)) /\ Len(fields) \in 0..MaxRows
    BY StoredTyped, ListTyped
  <1>2. QED
    BY <1>1, ExceptSeq, RowsAssumption

LEMMA SettingsStep ==
  SettingsInv /\ Settings!Next => SettingsInv'
  <1> SUFFICES ASSUME SettingsInv, Settings!Next
               PROVE  SettingsInv'
    OBVIOUS
  <1>1. /\ Settings!RowsTypeOK /\ sheet \in Sheets /\ fields \in Settings!Lists(sheet)
        /\ fields \in Seq(Settings!Rows(sheet)) /\ Len(fields) \in 0..MaxRows
        /\ fields \in [1..Len(fields) -> Settings!Rows(sheet)]
    BY StoredTyped, ListTyped DEF SettingsInv
  <1>2. CASE Settings!AddRow
    <2> DEFINE row == [name |-> "", value |-> "", as |-> IF sheet = "claims" THEN "access" ELSE "text"]
    <2>1. row \in Settings!Rows(sheet)
      BY <1>1 DEF Settings!Rows, Settings!Typed, Settings!Contents, Settings!RowKinds
    <2>2. fields' = Append(fields, row) /\ Len(fields) < MaxRows
      BY <1>2 DEF Settings!AddRow
    <2> HIDE DEF row
    <2>3. fields' \in Seq(Settings!Rows(sheet)) /\ Len(fields') = Len(fields) + 1
      BY <1>1, <2>1, <2>2, AppendProperties
    <2>4. Len(fields') <= MaxRows
      BY <1>1, <2>2, <2>3, RowsAssumption
    <2>5. QED
      BY <1>1, <1>2, <2>3, <2>4, Retyping DEF Settings!AddRow
  <1>3. CASE Settings!SaveRows
    <2> DEFINE set == Settings!ToSet(sheet, fields)
    <2>1. /\ Settings!errors(sheet, fields) = {}
          /\ stored' = set /\ fields' \in Settings!Filled(set)
          /\ retyped' = FALSE /\ sheet' = sheet
      BY <1>3 DEF Settings!SaveRows
    <2>2. /\ set \in [DOMAIN set -> Settings!Entries(sheet)] /\ DOMAIN set \subseteq {"a", "b"}
          /\ Cardinality(DOMAIN set) \in 0..MaxRows
          /\ \A n \in DOMAIN set :
                Settings!Acceptable(sheet, [name |-> "a", value |-> set[n].value, as |-> set[n].as])
      BY <1>1, <2>1, SetTyped
    <2> HIDE DEF set
    <2>3. DOMAIN set \in SUBSET Named
      BY <2>2 DEF Named
    <2>4. fields' \in Seq(Settings!Rows(sheet)) /\ Len(fields') = Cardinality(DOMAIN set)
      BY <1>1, <2>1, <2>2, <2>3, FilledRows
    <2>5. fields' \in Settings!Lists(sheet)
      BY <1>1, <2>2, <2>4, MakeList
    <2>6. set \in UNION {[s -> Settings!Entries(sheet)] : s \in SUBSET {"a", "b", "toString"}}
      BY <1>1, <2>2, <2>3, MakeStored
    <2>7. Settings!RowsTypeOK'
      BY <1>1, <2>1, <2>5, <2>6 DEF Settings!RowsTypeOK, Sheets, Settings!Lists, Settings!Rows,
                                    Settings!RowKinds, Settings!Entries, Settings!StoredAs
    <2>8. FilledInv'
      BY <2>1, <2>2 DEF FilledInv
    <2>9. QED
      BY <2>7, <2>8 DEF SettingsInv
  <1>4. CASE \E i \in 1..Len(fields) : Settings!RemoveRow(i)
    <2>1. PICK i \in 1..Len(fields) : Settings!RemoveRow(i)
      BY <1>4
    <2> DEFINE above == SubSeq(fields, 1, i - 1)
               below == SubSeq(fields, i + 1, Len(fields))
    <2>2. /\ Len(fields) \in Nat /\ i \in Int /\ 1 <= i /\ i <= Len(fields) /\ Len(fields) <= MaxRows
          /\ i - 1 \in Int /\ i + 1 \in Int /\ Len(fields) \in Int
      BY <1>1, RowsAssumption
    <2>3. above \in Seq(Settings!Rows(sheet)) /\ Len(above) = i - 1
      <3>1. \A j \in 1..(i - 1) : fields[j] \in Settings!Rows(sheet)
        BY <1>1, <2>2
      <3>2. /\ above \in Seq(Settings!Rows(sheet))
            /\ Len(above) = IF 1 <= i - 1 THEN (i - 1) - 1 + 1 ELSE 0
        BY <2>2, <3>1, SubSeqProperties
      <3> HIDE DEF above
      <3>3. QED
        BY <2>2, <3>2
    <2>4. below \in Seq(Settings!Rows(sheet)) /\ Len(below) = Len(fields) - i
      <3>1. \A j \in (i + 1)..Len(fields) : fields[j] \in Settings!Rows(sheet)
        BY <1>1, <2>2
      <3>2. /\ below \in Seq(Settings!Rows(sheet))
            /\ Len(below) = IF i + 1 <= Len(fields) THEN Len(fields) - (i + 1) + 1 ELSE 0
        BY <2>2, <3>1, SubSeqProperties
      <3> HIDE DEF below
      <3>3. QED
        BY <2>2, <3>2
    <2>5. fields' = above \o below
      BY <2>1 DEF Settings!RemoveRow
    <2> HIDE DEF above, below
    <2>6. fields' \in Seq(Settings!Rows(sheet)) /\ Len(fields') = Len(above) + Len(below)
      BY <2>3, <2>4, <2>5, ConcatProperties
    <2>7. Len(fields') <= MaxRows
      BY <2>2, <2>3, <2>4, <2>6, RowsAssumption
    <2>8. QED
      BY <1>1, <2>1, <2>6, <2>7, Retyping DEF Settings!RemoveRow
  <1>5. CASE \E i \in 1..Len(fields) : Settings!EditRow(i)
    <2>1. PICK i \in 1..Len(fields) : Settings!EditRow(i)
      BY <1>5
    <2>2. fields[i] \in Settings!Rows(sheet)
      BY <1>1
    <2>3. \E row \in Settings!Rows(sheet) : fields' = [fields EXCEPT ![i] = row]
      <3>1. CASE \E name \in Settings!Typed : fields' = [fields EXCEPT ![i].name = name]
        <4>1. PICK name \in Settings!Typed : fields' = [fields EXCEPT ![i].name = name]
          BY <3>1
        <4>2. [fields[i] EXCEPT !.name = name] \in Settings!Rows(sheet)
          BY <2>2 DEF Settings!Rows
        <4>3. QED
          BY <4>1, <4>2
      <3>2. CASE \E value \in Settings!Contents : fields' = [fields EXCEPT ![i].value = value]
        <4>1. PICK value \in Settings!Contents : fields' = [fields EXCEPT ![i].value = value]
          BY <3>2
        <4>2. [fields[i] EXCEPT !.value = value] \in Settings!Rows(sheet)
          BY <2>2 DEF Settings!Rows
        <4>3. QED
          BY <4>1, <4>2
      <3>3. CASE \E as \in Settings!RowKinds(sheet) : fields' = [fields EXCEPT ![i].as = as]
        <4>1. PICK as \in Settings!RowKinds(sheet) : fields' = [fields EXCEPT ![i].as = as]
          BY <3>3
        <4>2. [fields[i] EXCEPT !.as = as] \in Settings!Rows(sheet)
          BY <2>2 DEF Settings!Rows
        <4>3. QED
          BY <4>1, <4>2
      <3>4. QED
        BY <2>1, <3>1, <3>2, <3>3 DEF Settings!EditRow
    <2>4. fields' \in Seq(Settings!Rows(sheet)) /\ Len(fields') <= MaxRows
      BY <1>1, <2>3, RowEdited
    <2>5. QED
      BY <1>1, <2>1, <2>4, Retyping DEF Settings!EditRow
  <1>6. QED
    BY <1>2, <1>3, <1>4, <1>5 DEF Settings!Next
-----------------------------------------------------------------------------
(* The console (Console) *)

\* Every page, on screen or not, keeps its invariant: one that is not on screen stays as
\* it would start.
IInv ==
    /\ open \in Pages
    /\ ApplicationInv /\ UserInv /\ SettingsInv /\ MfaInv /\ ReportInv /\ StreamInv

LEMMA SettingsStays == SettingsInv /\ UNCHANGED settingsVars => SettingsInv'
  BY DEF SettingsInv, FilledInv, Settings!RowsTypeOK, settingsVars

LEMMA Starts == Init => IInv
  BY ApplicationStarts, UserStarts, SettingsStarts, MfaStarts, ReportStarts, StreamStarts
     DEF Init, IInv

LEMMA Step == IInv /\ [Next]_<<open, pageVars>> => IInv'
  <1> SUFFICES ASSUME IInv, [Next]_<<open, pageVars>>
               PROVE  IInv'
    OBVIOUS
  <1>1. /\ open' = open
        /\ [Application!Next]_applicationVars /\ [User!Next]_userVars
        /\ Settings!Next \/ UNCHANGED settingsVars
        /\ [Mfa!Next]_mfaVars /\ [Report!Next]_reportVars /\ [Stream!Next]_streamVars
    BY DEF Next, pageVars
  <1>2. ApplicationInv'
    BY <1>1, ApplicationStep DEF IInv
  <1>3. UserInv'
    BY <1>1, UserStep DEF IInv
  <1>4. SettingsInv'
    BY <1>1, SettingsStep, SettingsStays DEF IInv
  <1>5. MfaInv' /\ ReportInv' /\ StreamInv'
    BY <1>1, MfaStep, ReportStep, StreamStep DEF IInv
  <1>6. QED
    BY <1>1, <1>2, <1>3, <1>4, <1>5 DEF IInv

\* What the pages promise follows from their invariants.
LEMMA Promises ==
  IInv =>
    /\ TypeOK /\ PageAgrees /\ UntouchedSaveHarmless /\ NoRowLost /\ UntouchedRowsStand
    /\ CardTruthful /\ PolledUntilFinished /\ LiveOverItsStream
  <1> SUFFICES ASSUME IInv
               PROVE  /\ TypeOK /\ PageAgrees /\ UntouchedSaveHarmless /\ NoRowLost
                      /\ UntouchedRowsStand /\ CardTruthful /\ PolledUntilFinished
                      /\ LiveOverItsStream
    OBVIOUS
  <1>1. /\ Application!TypeOK /\ User!UserTypeOK /\ Settings!RowsTypeOK /\ Mfa!MfaTypeOK
        /\ Report!ReportsTypeOK /\ Stream!StreamTypeOK
    BY DEF IInv, ApplicationInv, UserInv, SettingsInv, MfaInv, ReportInv, StreamInv
  <1>2. TypeOK
    BY <1>1 DEF IInv, TypeOK, Pages
  <1>3. PageAgrees
    BY DEF IInv, ApplicationInv, PageAgrees
  <1>4. UntouchedSaveHarmless
    BY UserConcludes DEF IInv, UntouchedSaveHarmless
  <1>5. NoRowLost /\ UntouchedRowsStand
    BY RowsKept, RowsStand DEF IInv, SettingsInv, NoRowLost, UntouchedRowsStand
  <1>6. CardTruthful
    BY MfaConcludes DEF IInv, CardTruthful
  <1>7. PolledUntilFinished
    BY ReportConcludes DEF IInv, PolledUntilFinished
  <1>8. LiveOverItsStream
    BY DEF IInv, StreamInv, LiveOverItsStream
  <1>9. QED
    BY <1>2, <1>3, <1>4, <1>5, <1>6, <1>7, <1>8

LEMMA Always == Spec => []IInv
  BY Starts, Step, PTL DEF Spec

\* Every variable of the page on screen keeps its type.
THEOREM TypeCorrect == Spec => []TypeOK
  BY Always, Promises, PTL

\* Whatever order the answers to overlapping saves come in, the application page shows what
\* the server has of every field that no overlap, failure or other admin set apart
\* (ApplicationDetailView.vue).
THEOREM PageAgreesWithServer == Spec => []PageAgrees
  BY Always, Promises, PTL

\* Attributes nobody touched are the server's, so that saving them changes nothing, unless a
\* save met a block, failed, or another admin wrote them (UserDetailView.vue).
THEOREM UntouchedSaveChangesNothing == Spec => []UntouchedSaveHarmless
  BY Always, Promises, PTL

\* However many rows there are and in whichever order they were typed, rows without an error
\* stand each for one entry of the saved set (tokenSettings.ts).
THEOREM RowsSavedWhole == Spec => []NoRowLost
  BY Always, Promises, PTL

\* Rows as they were filled, in any order, are accepted and stand for the stored set, if no
\* name in it is one that every object inherits (tokenSettings.ts).
THEOREM RowsComeBack == Spec => []UntouchedRowsStand
  BY Always, Promises, PTL

\* Once the MFA card is at rest, codes that reached it are on screen until they are
\* acknowledged, and it says whether MFA is on, unless a call failed or MFA changed in
\* another session (MfaCard.vue).
THEOREM CardTellsTheTruth == Spec => []CardTruthful
  BY Always, Promises, PTL

\* On the reports page a report is polled until it is seen to finish, but for one that a poll
\* failed for or whose polls overlapped (ReportsView.vue).
THEOREM ReportsPolled == Spec => []PolledUntilFinished
  BY Always, Promises, PTL

\* Events are shown as live only over the one stream that is connected
\* (SecurityDashboardView.vue).
THEOREM LiveMeansConnected == Spec => []LiveOverItsStream
  BY Always, Promises, PTL

\* A save of token settings carries only settings that the admin edited since the page last
\* took them from the server, whatever other saves and other admins do meanwhile
\* (ApplicationDetailView.vue).
THEOREM OnlyEditedTokensSent == Spec => TokensSentOnlyWhenEdited
  <1>1. IInv /\ [Next]_<<open, pageVars>> =>
           [ Application!Starts("tokens") => DOMAIN call'["tokens"].write \subseteq edited ]_applicationVars
    <2> SUFFICES ASSUME IInv, [Next]_<<open, pageVars>>, Application!Starts("tokens")
                 PROVE  DOMAIN call'["tokens"].write \subseteq edited
      OBVIOUS
    <2>1. [Application!Next]_applicationVars
      BY DEF Next, pageVars
    <2>2. QED
      BY <2>1, TokensSent DEF IInv
  <1>2. QED
    BY <1>1, Always, PTL DEF Spec, TokensSentOnlyWhenEdited, Application!TokensSentOnlyWhenEdited,
                             Application!vars, applicationVars
=============================================================================
