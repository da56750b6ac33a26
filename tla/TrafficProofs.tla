--------------------------- MODULE TrafficProofs ---------------------------
(***************************************************************************)
(* Proofs about what is told of the traffic: the alarm (Health), the       *)
(* answer a client is sent and what the journal files of it (Response),    *)
(* and the rows and meters of the requests in flight, and the numbers of   *)
(* those that ended (Traffic).                                             *)
(*                                                                         *)
(* The alarm's streak is a summary of the samples; its inductive invariant *)
(* says of which: the last streak samples are of its class, and the one    *)
(* before is not (IInv).  An answer's says what is held back and of what   *)
(* (RespInv).  A meter's relates the time blocked so far to the write that *)
(* is blocked now (MeterInv), a row's the tokens to those given out        *)
(* (RowsInv), and the samples held to those handed over: they are the ones *)
(* that began within the window as it was at some time (WindowInv).  All   *)
(* hold for every ladder, every set of pieces and clients, every body size *)
(* and number of writes, every window and every kind of record.            *)
(***************************************************************************)
EXTENDS Traffic, SequenceTheorems, FiniteSetTheorems, WellFoundedInduction, TLAPS

----------------------------------------------------------------------------
(* The alarm.                                                              *)

\* What is before the run is not of its class.
RunMaximal ==
    IF class = "none"
    THEN Len(seen) > 0 => Says(seen[Len(seen)], "none")
    ELSE Len(seen) > streak => ~Says(seen[Len(seen) - streak], class)

\* The run is announced exactly if it has reached a rung, and by the last note.
RunTold ==
    /\ alerted <=> \E n \in AlertSteps : n <= streak
    /\ alerted => told.state = "degraded" /\ told.class = class

\* An alarm is of the run.
NoteOfRun == note.state = "degraded" => note.class = class /\ note.streak = streak

IInv == TypeOK /\ EndsIn(streak, class) /\ RunMaximal /\ RunTold /\ NoteOfRun

----------------------------------------------------------------------------
\* A sample says one thing, which is its classification.
LEMMA SaysClass ==
    ASSUME NEW s \in Samples, NEW c \in Classes
    PROVE  /\ classify(s) \in Classes
           /\ Says(s, c) <=> classify(s) = c
           /\ Silent(s) <=> abandonedAfterAnswer(s)
<1>1. /\ s.failed \in BOOLEAN /\ s.canceled \in BOOLEAN /\ s.answered \in BOOLEAN
      /\ s.status \in {0, 429, 500}
      /\ ~s.failed => s.status = 0 /\ ~s.canceled
  BY DEF Samples, Statuses
<1>2. Silent(s) <=> abandonedAfterAnswer(s)
  BY <1>1 DEF Silent, abandonedAfterAnswer
<1> DEFINE says(x) == CASE x = "none"        -> ~s.failed
                        [] x = "unreachable" -> s.failed /\ s.status = 0
                        [] x = "quota"       -> s.failed /\ s.status = 429
                        [] x = "upstream"    -> s.failed /\ s.status \notin {0, 429}
<1>7. /\ says("none") <=> ~s.failed
      /\ says("unreachable") <=> s.failed /\ s.status = 0
      /\ says("quota") <=> s.failed /\ s.status = 429
      /\ says("upstream") <=> s.failed /\ s.status \notin {0, 429}
  OBVIOUS
<1>8. Says(s, c) <=> says(c)
  BY DEF Says
<1>9. c \in {"none", "unreachable", "quota", "upstream"}
  BY DEF Classes
<1> HIDE DEF says
<1>3. CASE ~s.failed
  <2>1. classify(s) = "none"
    BY <1>3 DEF classify
  <2> QED BY <1>2, <1>3, <1>7, <1>8, <1>9, <2>1 DEF Classes
<1>4. CASE s.failed /\ s.status = 0
  <2>1. classify(s) = "unreachable"
    BY <1>4 DEF classify
  <2> QED BY <1>2, <1>4, <1>7, <1>8, <1>9, <2>1 DEF Classes
<1>5. CASE s.failed /\ s.status = 429
  <2>1. classify(s) = "quota"
    BY <1>5 DEF classify
  <2> QED BY <1>2, <1>5, <1>7, <1>8, <1>9, <2>1 DEF Classes
<1>6. CASE s.failed /\ s.status = 500
  <2>1. classify(s) = "upstream"
    BY <1>6 DEF classify
  <2> QED BY <1>2, <1>6, <1>7, <1>8, <1>9, <2>1 DEF Classes
<1> QED BY <1>1, <1>3, <1>4, <1>5, <1>6

\* Streaks are numbers.
LEMMA StreakInt ==
    TypeOK => streak \in Nat /\ MaxStreak \in Nat \ {0} /\ streak <= MaxStreak
BY HealthAssumption DEF TypeOK

\* A remembered sample becomes the last, and those before it keep their
\* distance from the end.
LEMMA Remembered ==
    ASSUME TypeOK, NEW s \in Samples, ~Silent(s),
           seen' = IF Len(seen) < MaxStreak THEN Append(seen, s) ELSE Append(Tail(seen), s)
    PROVE  /\ seen' \in Seq(Samples)
           /\ Len(seen') \in Nat /\ Len(seen') >= 1 /\ Len(seen') <= MaxStreak
           /\ seen'[Len(seen')] = s
           /\ Len(seen') = Len(seen) + 1 \/ (Len(seen') = Len(seen) /\ Len(seen) = MaxStreak)
           /\ \A d \in 1 .. Len(seen') - 1 :
                seen'[Len(seen') - d] = seen[Len(seen) - d + 1]
<1> USE HealthAssumption DEF TypeOK
<1>1. CASE Len(seen) < MaxStreak
  <2>1. seen' = Append(seen, s) /\ Len(seen') = Len(seen) + 1 /\ seen' \in Seq(Samples)
    BY <1>1
  <2>2. seen'[Len(seen')] = s
    BY <2>1
  <2>3. \A d \in 1 .. Len(seen') - 1 : seen'[Len(seen') - d] = seen[Len(seen) - d + 1]
    BY <2>1
  <2> QED BY <1>1, <2>1, <2>2, <2>3
<1>2. CASE Len(seen) = MaxStreak
  <2>1. /\ seen' = Append(Tail(seen), s) /\ Len(seen') = Len(seen)
        /\ Tail(seen) \in Seq(Samples) /\ Len(Tail(seen)) = Len(seen) - 1
        /\ seen' \in Seq(Samples)
    BY <1>2
  <2>2. seen'[Len(seen')] = s
    BY <1>2, <2>1
  <2>3. \A d \in 1 .. Len(seen') - 1 : seen'[Len(seen') - d] = seen[Len(seen) - d + 1]
    <3>1. \A i \in 1 .. Len(seen) - 1 : Tail(seen)[i] = seen[i + 1]
      BY <1>2
    <3>2. ASSUME NEW i \in 1 .. Len(seen) - 1
          PROVE  seen'[i] = Tail(seen)[i]
      <4> DEFINE rest == Tail(seen)
      <4>1. rest \in Seq(Samples) /\ i \in 1 .. Len(rest) /\ seen' = Append(rest, s)
        BY <2>1
      <4> HIDE DEF rest
      <4>2. seen'[i] = rest[i]
        BY SMTT(30), <4>1
      <4> QED BY <4>2 DEF rest
    <3> QED BY <1>2, <2>1, <3>1, <3>2
  <2> QED BY <1>2, <2>1, <2>2, <2>3
<1> QED BY <1>1, <1>2

----------------------------------------------------------------------------
\* A failure that says something keeps the invariant.
LEMMA DegradeKeeps ==
    ASSUME IInv, NEW s \in Samples, ~Silent(s), classify(s) # "none",
           Degrade(classify(s)), streak' <= MaxStreak,
           told' = IF note' = NoEvent THEN told ELSE note',
           seen' = IF Len(seen) < MaxStreak THEN Append(seen, s) ELSE Append(Tail(seen), s)
    PROVE  IInv'
<1> DEFINE c == classify(s)
<1>0. TypeOK /\ streak \in Nat /\ c \in Classes \ {"none"} /\ AlertSteps \subseteq Nat \ {0}
  BY SaysClass, StreakInt, HealthAssumption DEF IInv, Classes
<1>1. /\ seen' \in Seq(Samples)
      /\ Len(seen') \in Nat /\ Len(seen') >= 1 /\ Len(seen') <= MaxStreak
      /\ seen'[Len(seen')] = s
      /\ Len(seen') = Len(seen) + 1 \/ (Len(seen') = Len(seen) /\ Len(seen) = MaxStreak)
      /\ \A d \in 1 .. Len(seen') - 1 : seen'[Len(seen') - d] = seen[Len(seen) - d + 1]
  BY Remembered, <1>0
<1>2. /\ class' = c /\ streak' \in Nat /\ streak' >= 1
      /\ c = class => streak' = streak + 1
      /\ c # class => streak' = 1
  BY <1>0 DEF Degrade, Length
<1>3. Says(s, c)
  BY <1>0, SaysClass
<1>4. EndsIn(streak, class) /\ RunMaximal /\ RunTold
  BY DEF IInv
<1>5. seen \in Seq(Samples) /\ Len(seen) \in Nat /\ MaxStreak \in Nat /\ Len(seen) <= MaxStreak
  BY <1>0, HealthAssumption DEF TypeOK
<1>6. TypeOK'
  <2>1. note' \in Events /\ told' \in Events
    BY <1>0, <1>2 DEF Degrade, Events, Event, NoEvent, Classes, TypeOK
  <2>2. alerted' \in BOOLEAN
    BY <1>0 DEF Degrade, TypeOK, isAlertStep
  <2>3. streak' \in 0 .. MaxStreak
    BY <1>2, <1>5
  <2> QED BY <1>0, <1>1, <1>2, <2>1, <2>2, <2>3 DEF TypeOK
<1>7. EndsIn(streak, class)'
  <2>1. CASE c # class
    BY <2>1, <1>1, <1>2, <1>3 DEF EndsIn
  <2>2. CASE c = class
    <3>1. streak' = streak + 1 /\ streak' <= Len(seen')
      BY <2>2, <1>0, <1>1, <1>2, <1>4, <1>5 DEF EndsIn
    <3>2. ASSUME NEW i \in (Len(seen') - streak' + 1) .. Len(seen')
          PROVE  Says(seen'[i], c)
      <4>1. CASE i = Len(seen')
        BY <4>1, <1>1, <1>3
      <4>2. CASE i # Len(seen')
        <5> DEFINE d == Len(seen') - i
        <5>1. d \in 1 .. Len(seen') - 1 /\ d \in 1 .. streak
          BY <4>2, <3>1, <1>0, <1>1
        <5>2. seen'[i] = seen[Len(seen) - d + 1]
          <6>1. Len(seen') - d = i
            BY <1>1
          <6> QED BY <6>1, <5>1, <1>1
        <5>3. Len(seen) - d + 1 \in (Len(seen) - streak + 1) .. Len(seen)
          <6> HIDE DEF d
          <6> QED BY <5>1, <1>5, <1>0
        <5> QED BY <5>2, <5>3, <1>4, <2>2 DEF EndsIn
      <4> QED BY <4>1, <4>2
    <3> QED BY <3>1, <3>2, <1>2 DEF EndsIn
  <2> QED BY <2>1, <2>2
<1>8. RunMaximal'
  <2> SUFFICES ASSUME Len(seen') > streak'
               PROVE  ~Says(seen'[Len(seen') - streak'], c)
    BY <1>0, <1>2 DEF RunMaximal
  <2>1. streak' \in 1 .. Len(seen') - 1
    BY <1>1, <1>2
  <2>2. seen'[Len(seen') - streak'] = seen[Len(seen) - streak' + 1]
    BY <2>1, <1>1
  <2>3. CASE c = class
    <3>1. Len(seen) > streak /\ Len(seen) - streak' + 1 = Len(seen) - streak
      BY <2>1, <2>3, <1>0, <1>1, <1>2, <1>5
    <3> QED BY <2>2, <2>3, <3>1, <1>0, <1>4 DEF RunMaximal
  <2>4. CASE c # class /\ class = "none"
    <3>1. Len(seen) > 0 /\ Len(seen) - streak' + 1 = Len(seen)
      BY <2>1, <2>4, <1>1, <1>2, <1>5
    <3>2. seen[Len(seen)] \in Samples /\ Says(seen[Len(seen)], "none")
      BY <3>1, <2>4, <1>4, <1>5 DEF RunMaximal
    <3> QED BY <2>2, <3>1, <3>2, <1>0, SaysClass DEF Classes
  <2>5. CASE c # class /\ class # "none"
    <3>1. Len(seen) - streak' + 1 = Len(seen) /\ streak >= 1 /\ Len(seen) >= streak
      BY <2>5, <1>0, <1>2, <1>4, <1>5 DEF TypeOK, EndsIn
    <3>2. seen[Len(seen)] \in Samples /\ Says(seen[Len(seen)], class)
      BY <3>1, <1>0, <1>4, <1>5 DEF EndsIn
    <3> QED BY <2>2, <2>5, <3>1, <3>2, <1>0, SaysClass DEF TypeOK
  <2> QED BY <2>3, <2>4, <2>5
<1>9. RunTold'
  <2>1. alerted' <=> (streak' \in AlertSteps \/ (c = class /\ alerted))
    BY DEF Degrade, isAlertStep
  <2>2. alerted' <=> \E n \in AlertSteps : n <= streak'
    <3>1. CASE c = class
      BY <3>1, <2>1, <1>0, <1>2, <1>4 DEF RunTold
    <3>2. CASE c # class
      BY <3>2, <2>1, <1>0, <1>2
    <3> QED BY <3>1, <3>2
  <2>3. CASE streak' \in AlertSteps
    <3>1. note' = Event("degraded", c, streak') /\ note' # NoEvent
      BY <2>3 DEF Degrade, isAlertStep, Event, NoEvent
    <3> QED BY <3>1, <2>2, <1>2 DEF RunTold, Event
  <2>4. CASE streak' \notin AlertSteps
    <3>1. note' = NoEvent /\ told' = told
      BY <2>4 DEF Degrade, isAlertStep
    <3> QED BY <3>1, <2>1, <2>2, <2>4, <1>2, <1>4 DEF RunTold
  <2> QED BY <2>3, <2>4
<1>10. NoteOfRun'
  BY <1>2 DEF Degrade, NoteOfRun, Event, NoEvent
<1> QED BY <1>6, <1>7, <1>8, <1>9, <1>10 DEF IInv

\* So does a success.
LEMMA RecoverKeeps ==
    ASSUME IInv, NEW s \in Samples, ~Silent(s), classify(s) = "none", Recover,
           told' = IF note' = NoEvent THEN told ELSE note',
           seen' = IF Len(seen) < MaxStreak THEN Append(seen, s) ELSE Append(Tail(seen), s)
    PROVE  IInv'
<1>0. TypeOK /\ streak \in Nat /\ MaxStreak \in Nat /\ AlertSteps \subseteq Nat \ {0}
  BY StreakInt, HealthAssumption DEF IInv
<1>1. /\ seen' \in Seq(Samples)
      /\ Len(seen') \in Nat /\ Len(seen') >= 1 /\ Len(seen') <= MaxStreak
      /\ seen'[Len(seen')] = s
  BY Remembered, <1>0
<1>2. streak' = 0 /\ class' = "none" /\ alerted' = FALSE
  BY DEF Recover
<1>3. note' \in Events /\ told' \in Events
  <2>1. Event("recovered", class, streak) \in Events /\ NoEvent \in Events
    BY <1>0 DEF Events, Event, NoEvent, Classes, TypeOK
  <2> QED BY <1>0, <2>1 DEF Recover, TypeOK
<1>4. TypeOK'
  <2>1. alerted' \in BOOLEAN
    BY <1>2, Zenon
  <2>2. streak' \in 0 .. MaxStreak /\ class' \in Classes
    BY <1>0, <1>2 DEF Classes
  <2> QED BY <1>1, <1>2, <1>3, <2>1, <2>2 DEF TypeOK
<1>5. EndsIn(streak, class)'
  BY <1>1, <1>2 DEF EndsIn
<1>6. RunMaximal'
  BY <1>1, <1>2, SaysClass DEF RunMaximal, Classes
<1>7. RunTold'
  BY <1>0, <1>2 DEF RunTold
<1>8. NoteOfRun'
  BY DEF Recover, NoteOfRun, Event, NoEvent
<1> QED BY <1>4, <1>5, <1>6, <1>7, <1>8 DEF IInv

\* And so does a sample that says nothing.
LEMMA SilenceKeeps ==
    ASSUME IInv, note' = NoEvent, told' = told, UNCHANGED <<streak, class, alerted, seen>>
    PROVE  IInv'
<1>1. NoEvent \in Events
  BY DEF NoEvent, Event, Events, Classes
<1>2. TypeOK'
  BY <1>1 DEF IInv, TypeOK
<1>3. EndsIn(streak, class)' /\ RunMaximal' /\ RunTold'
  BY DEF IInv, EndsIn, RunMaximal, RunTold
<1>4. NoteOfRun'
  BY DEF NoteOfRun, NoEvent, Event
<1> QED BY <1>2, <1>3, <1>4 DEF IInv

----------------------------------------------------------------------------
\* The invariant holds at first.
LEMMA InitIInv == Init => IInv
<1> SUFFICES ASSUME Init PROVE IInv
  OBVIOUS
<1>1. /\ streak = 0 /\ class = "none" /\ alerted = FALSE /\ Len(seen) = 0
      /\ seen \in Seq(Samples) /\ NoEvent \in Events /\ note = NoEvent /\ told = NoEvent
  BY DEF Init, NoEvent, Event, Events, Classes
<1>2. MaxStreak \in Nat /\ AlertSteps \subseteq Nat \ {0}
  BY HealthAssumption
<1>3. TypeOK
  <2>1. alerted \in BOOLEAN
    BY <1>1, Zenon
  <2>2. streak \in 0 .. MaxStreak /\ class \in Classes
    BY <1>1, <1>2 DEF Classes
  <2> QED BY <1>1, <1>2, <2>1, <2>2 DEF TypeOK
<1>4. EndsIn(streak, class) /\ RunMaximal /\ RunTold
  BY <1>1, <1>2 DEF EndsIn, RunMaximal, RunTold
<1>5. NoteOfRun
  BY <1>1 DEF NoteOfRun, NoEvent, Event
<1> QED BY <1>3, <1>4, <1>5 DEF IInv

\* Every step keeps it.
LEMMA NextIInv == IInv /\ [Next]_vars => IInv'
<1> SUFFICES ASSUME IInv, [Next]_vars PROVE IInv'
  OBVIOUS
<1>1. ASSUME NEW s \in Samples, HandleUsage(s)
      PROVE  IInv'
  <2>1. CASE Silent(s)
    <3>1. abandonedAfterAnswer(s)
      BY <2>1, SaysClass DEF Classes
    <3>2. note' = NoEvent /\ told' = told /\ UNCHANGED <<streak, class, alerted, seen>>
      BY <1>1, <2>1, <3>1 DEF HandleUsage, Observe
    <3> QED BY <3>2, SilenceKeeps
  <2>2. CASE ~Silent(s)
    <3>1. /\ ~abandonedAfterAnswer(s)
          /\ seen' = IF Len(seen) < MaxStreak THEN Append(seen, s) ELSE Append(Tail(seen), s)
          /\ told' = IF note' = NoEvent THEN told ELSE note'
          /\ streak' <= MaxStreak
      BY <1>1, <2>2, SaysClass DEF HandleUsage, Classes
    <3>2. CASE classify(s) = "none"
      BY <1>1, <2>2, <3>1, <3>2, RecoverKeeps DEF HandleUsage, Observe
    <3>3. CASE classify(s) # "none"
      BY <1>1, <2>2, <3>1, <3>3, DegradeKeeps DEF HandleUsage, Observe
    <3> QED BY <3>2, <3>3
  <2> QED BY <2>1, <2>2
<1>2. CASE UNCHANGED vars
  BY <1>2 DEF vars, IInv, TypeOK, EndsIn, RunMaximal, RunTold, NoteOfRun
<1> QED BY <1>1, <1>2 DEF Next

\* So it always holds.
LEMMA Invariance == Spec => []IInv
BY InitIInv, NextIInv, PTL DEF Spec

----------------------------------------------------------------------------
\* The tracker's state has its type (Health in metrics/health.go).
THEOREM TypeCorrect == Spec => []TypeOK
<1>1. IInv => TypeOK
  BY DEF IInv
<1> QED BY <1>1, Invariance, PTL

\* No alarm is given that the last samples do not bear out (Observe).
THEOREM AlarmsAreTrue == Spec => []AlarmsTrue
<1>1. IInv => AlarmsTrue
  BY DEF IInv, AlarmsTrue, NoteOfRun
<1> QED BY <1>1, Invariance, PTL

\* No run of failures that reaches a rung goes unannounced (Observe).
THEOREM OutagesAreTold == Spec => []OutageTold
<1>1. IInv => OutageTold
  <2> SUFFICES ASSUME IInv, NEW c \in Classes \ {"none"}, NEW n \in AlertSteps, EndsIn(n, c)
               PROVE  told.state = "degraded" /\ told.class = c
    BY DEF OutageTold
  <2>1. /\ n \in Nat \ {0} /\ streak \in Nat /\ Len(seen) \in Nat /\ Len(seen) >= n
        /\ seen \in Seq(Samples) /\ class \in Classes
    BY HealthAssumption, StreakInt DEF IInv, TypeOK, EndsIn
  <2>2. seen[Len(seen)] \in Samples /\ Says(seen[Len(seen)], c)
    BY <2>1 DEF EndsIn
  <2>3. class # "none"
    BY <2>1, <2>2, SaysClass DEF IInv, RunMaximal, Classes
  <2>4. streak >= 1 /\ Says(seen[Len(seen)], class)
    <3>1. streak >= 1
      BY <2>1, <2>3 DEF IInv, TypeOK
    <3> QED BY <3>1, <2>1 DEF IInv, EndsIn
  <2>5. class = c
    BY <2>1, <2>2, <2>4, SaysClass
  <2>6. n <= streak
    <3> SUFFICES ASSUME streak < n PROVE FALSE
      BY <2>1
    <3>1. Len(seen) > streak /\ Len(seen) - streak \in (Len(seen) - n + 1) .. Len(seen)
      BY <2>1
    <3> QED BY <3>1, <2>3, <2>5 DEF IInv, RunMaximal, EndsIn
  <2> QED BY <2>5, <2>6 DEF IInv, RunTold
<1> QED BY <1>1, Invariance, PTL

\* The alarm is true, and given when it is due (Observe).
THEOREM AlarmIsTrue == Spec => []AlarmTrue
<1>1. AlarmsTrue /\ OutageTold => AlarmTrue
  BY DEF AlarmTrue
<1> QED BY <1>1, AlarmsAreTrue, OutagesAreTold, PTL

----------------------------------------------------------------------------
(* The answer.                                                             *)

\* Where nothing has been judged yet, and where it has.
Unjudged == {"handler", "failing", "unwound", "filed", "panicking", "aborted"}
Answered == {"answered", "over"}
Lost     == {"recovered", "broken"}

Envelopes == [decided : BOOLEAN, status : 0 .. 599, buffering : BOOLEAN, buf : Seq(Pieces),
              overflowed : BOOLEAN]
Writers   == [status : 0 .. 599, sent : BOOLEAN]
Decisions == [code : 0 .. 599, stream : BOOLEAN]

RespTypes ==
    /\ place \in Unjudged \cup Answered \cup Lost
    /\ sse \in BOOLEAN /\ bare \in BOOLEAN
    /\ env \in Envelopes /\ gin \in Writers /\ spoke \in Decisions
    /\ filed \in 0 .. 599
    /\ written \in Seq(Pieces)

\* The envelope's decision is what the handler said first.
DecidedOK ==
    /\ ~env.decided => /\ ~env.buffering /\ ~env.overflowed /\ env.buf = << >> /\ spoke = Undecided /\ written = << >>
                       /\ gin.status = 200 /\ ~bare
    /\ env.decided => env.status = spoke.code /\ spoke.code >= 200 /\ (spoke.stream <=> sse)

\* What is held is all of a failure that fits, and nothing else is held.
HoldOK ==
    /\ env.buffering => Held /\ env.decided /\ ~env.overflowed /\ env.buf = written
    /\ place \in Unjudged => IF env.buffering THEN wire = << >> ELSE ~Held /\ wire = written

JudgedOf(body) == IF isUpstreamFailure(body) THEN body
                  ELSE <<replacementEnvelope(spoke.code, body)>>

\* What the client has of it in the end, and what after a panic.
EndedOK ==
    /\ place \in Answered \cup Lost => (~Held => wire = written)
    /\ place \in Answered => (Held => wire = JudgedOf(written)) /\ ~env.buffering
    /\ place \in Lost => (Held => wire = << >>)

\* The writer underneath has sent nothing of what is held, unless its status
\* line went around the envelope; and it has the status of what is not, but a
\* stream's first.
GinOK ==
    /\ place \in Unjudged /\ env.buffering =>
          IF bare THEN gin.sent /\ gin.status = 200 ELSE ~gin.sent
    /\ place \in Unjudged /\ ~env.decided /\ ~sse => ~gin.sent
    /\ place \in Unjudged \ {"failing"} /\ env.decided /\ sse => gin.sent
    /\ place \in Unjudged \cup Answered /\ env.decided =>
          /\ sse => gin.status \in {200, env.status}
          /\ ~sse /\ ~env.buffering => gin.status = IF Failed /\ bare THEN 200 ELSE env.status

FiledOK ==
    place \in {"filed"} \cup Answered =>
        filed = IF Status \in 200 .. 299 THEN 0 ELSE Status

RespInv == RespTypes /\ DecidedOK /\ HoldOK /\ EndedOK /\ GinOK /\ FiledOK

\* What the parts of the invariant need of appending and of one-piece bodies.
LEMMA AppendPiece ==
    ASSUME NEW S, NEW s \in Seq(S), NEW e \in S
    PROVE  /\ Append(s, e) \in Seq(S) /\ Len(s) \in Nat /\ Len(Append(s, e)) = Len(s) + 1
           /\ << >> \o s = s /\ s \o << >> = s
           /\ Append(<< >> \o s, e) = Append(s, e)
  OBVIOUS

\* What deciding on a status makes of the writer.
LEMMA DecideFacts ==
    ASSUME env \in Envelopes, NEW code \in 200 .. 599
    PROVE  /\ decide(code) \in Envelopes
           /\ decide(code).decided
           /\ env.decided => decide(code) = env
           /\ ~env.decided => /\ decide(code).status = code
                              /\ decide(code).buffering <=> (code >= 400 /\ ~sse)
           /\ decide(code).buf = env.buf /\ (decide(code).overflowed <=> env.overflowed)
<1> DEFINE held == code >= 400 /\ ~sse
<1>1. held \in BOOLEAN /\ TRUE \in BOOLEAN /\ code \in 0 .. 599
  OBVIOUS
<1>2. /\ env.decided => decide(code) = env
      /\ ~env.decided => decide(code) = [env EXCEPT !.decided = TRUE, !.status = code,
                                                    !.buffering = held]
  BY DEF decide
<1> HIDE DEF held
<1>3. ASSUME NEW b \in BOOLEAN
      PROVE  [env EXCEPT !.decided = TRUE, !.status = code, !.buffering = b] \in Envelopes
  BY <1>1 DEF Envelopes
<1>4. decide(code) \in Envelopes
  BY <1>1, <1>2, <1>3
<1>5. /\ decide(code).decided /\ decide(code).buf = env.buf
      /\ decide(code).overflowed <=> env.overflowed
      /\ ~env.decided => decide(code).status = code /\ (decide(code).buffering <=> held)
  BY <1>2 DEF Envelopes
<1> QED BY <1>2, <1>4, <1>5 DEF held

\* gin's writer.
LEMMA GinFacts ==
    ASSUME NEW g \in Writers, NEW code \in 0 .. 599
    PROVE  /\ GinWriteHeader(g, code) \in Writers /\ GinWriteHeaderNow(g) \in Writers
           /\ GinWriteHeader(g, code).sent <=> g.sent
           /\ GinWriteHeader(g, code).status = IF g.sent THEN g.status ELSE code
           /\ GinWriteHeaderNow(g).sent
           /\ GinWriteHeaderNow(g).status = g.status
  BY DEF GinWriteHeader, GinWriteHeaderNow, Writers

\* A decision, and what it is made of.
LEMMA DecisionStep ==
    ASSUME env \in Envelopes, spoke \in Decisions, sse \in BOOLEAN, NEW code \in 200 .. 599,
           env' = decide(code),
           spoke' = IF env.decided THEN spoke ELSE [code |-> code, stream |-> sse]
    PROVE  /\ env' \in Envelopes /\ spoke' \in Decisions
           /\ env'.decided /\ env'.buf = env.buf /\ (env'.overflowed <=> env.overflowed)
           /\ env.decided => env' = env /\ spoke' = spoke
           /\ ~env.decided => /\ env'.status = code /\ spoke'.code = code
                              /\ (spoke'.stream <=> sse)
                              /\ env'.buffering <=> (code >= 400 /\ ~sse)
<1>1. env' \in Envelopes /\ env'.decided /\ env'.buf = env.buf /\ (env'.overflowed <=> env.overflowed)
  BY DecideFacts
<1>2. env.decided => env' = env /\ spoke' = spoke
  BY DecideFacts
<1>3. ~env.decided => spoke'.code = code /\ (spoke'.stream <=> sse)
  OBVIOUS
<1>4. ~env.decided => env'.status = code
  BY DecideFacts
<1>5. ~env.decided => (env'.buffering <=> (code >= 400 /\ ~sse))
  BY DecideFacts
<1>6. spoke' \in Decisions
  BY DEF Decisions
<1> QED BY <1>1, <1>2, <1>3, <1>4, <1>5, <1>6

\* What giving gin a status, or the order to send it, makes of its writer.
LEMMA GinStep ==
    ASSUME gin \in Writers, NEW code \in 0 .. 599
    PROVE  /\ gin' = GinWriteHeader(gin, code) =>
                 /\ gin' \in Writers /\ (gin'.sent <=> gin.sent)
                 /\ gin'.status = IF gin.sent THEN gin.status ELSE code
           /\ gin' = GinWriteHeaderNow(gin) =>
                 gin' \in Writers /\ gin'.sent /\ gin'.status = gin.status
           /\ gin' = GinWriteHeaderNow(GinWriteHeader(gin, code)) =>
                 /\ gin' \in Writers /\ gin'.sent
                 /\ gin'.status = IF gin.sent THEN gin.status ELSE code
<1>1. /\ GinWriteHeader(gin, code) \in Writers
      /\ GinWriteHeader(gin, code).sent <=> gin.sent
      /\ GinWriteHeader(gin, code).status = IF gin.sent THEN gin.status ELSE code
  BY ZenonT(40), GinFacts
<1>2. /\ GinWriteHeaderNow(gin) \in Writers /\ GinWriteHeaderNow(gin).sent
      /\ GinWriteHeaderNow(gin).status = gin.status
  BY ZenonT(40), GinFacts
<1>3. /\ GinWriteHeaderNow(GinWriteHeader(gin, code)) \in Writers
      /\ GinWriteHeaderNow(GinWriteHeader(gin, code)).sent
      /\ GinWriteHeaderNow(GinWriteHeader(gin, code)).status = GinWriteHeader(gin, code).status
  BY ZenonT(40), <1>1, GinFacts
<1> QED BY <1>1, <1>2, <1>3

\* What releasing a body that is too large, and holding one more piece, make of
\* the envelope.
LEMMA EnvelopeStep ==
    ASSUME env \in Envelopes, env.decided, env.buffering
    PROVE  /\ LET e == [env EXCEPT !.buffering = FALSE, !.overflowed = TRUE, !.buf = << >>]
              IN e \in Envelopes /\ e.decided /\ ~e.buffering /\ e.status = env.status
           /\ LET e == [env EXCEPT !.buffering = FALSE]
              IN /\ e \in Envelopes /\ e.decided /\ ~e.buffering
                 /\ e.status = env.status /\ e.buf = env.buf
           /\ \A b \in Seq(Pieces) :
                 LET e == [env EXCEPT !.buf = b]
                 IN /\ e \in Envelopes /\ e.decided /\ e.buffering
                    /\ e.status = env.status /\ e.buf = b /\ (e.overflowed <=> env.overflowed)
<1> DEFINE e == [env EXCEPT !.buffering = FALSE, !.overflowed = TRUE, !.buf = << >>]
<1>1. << >> \in Seq(Pieces)
  OBVIOUS
<1>2. ASSUME NEW b1 \in BOOLEAN, NEW b2 \in BOOLEAN, NEW b3 \in Seq(Pieces)
      PROVE  [env EXCEPT !.buffering = b1, !.overflowed = b2, !.buf = b3] \in Envelopes
  BY DEF Envelopes
<1>3. e \in Envelopes
  BY <1>1, <1>2
<1>4. e.decided /\ ~e.buffering /\ e.status = env.status
  BY DEF Envelopes
<1>5. ASSUME NEW b \in Seq(Pieces)
      PROVE  LET f == [env EXCEPT !.buf = b]
             IN /\ f \in Envelopes /\ f.decided /\ f.buffering
                /\ f.status = env.status /\ f.buf = b /\ (f.overflowed <=> env.overflowed)
  BY DEF Envelopes
<1>6. ASSUME NEW b1 \in BOOLEAN PROVE [env EXCEPT !.buffering = b1] \in Envelopes
  BY DEF Envelopes
<1>7. LET f == [env EXCEPT !.buffering = FALSE]
      IN /\ f \in Envelopes /\ f.decided /\ ~f.buffering
         /\ f.status = env.status /\ f.buf = env.buf
  <2>1. [env EXCEPT !.buffering = FALSE] \in Envelopes
    BY <1>6
  <2> QED BY <2>1 DEF Envelopes
<1> QED BY <1>3, <1>4, <1>5, <1>7

\* The invariant holds at first.
LEMMA RespInitInv == RespInit => RespInv
<1> SUFFICES ASSUME RespInit PROVE RespInv
  OBVIOUS
<1>1. RespTypes
  <2>1. << >> \in Seq(Pieces) /\ FALSE \in BOOLEAN
    OBVIOUS
  <2>2. env \in Envelopes
    BY <2>1 DEF RespInit, Envelopes
  <2>3. gin \in Writers /\ spoke \in Decisions
    BY <2>1 DEF RespInit, Undecided, Writers, Decisions
  <2>4. place \in Unjudged /\ filed \in 0 .. 599 /\ written \in Seq(Pieces)
    BY <2>1 DEF RespInit, Unjudged
  <2>5. sse \in BOOLEAN /\ bare \in BOOLEAN
    BY DEF RespInit
  <2> QED BY <2>2, <2>3, <2>4, <2>5 DEF RespTypes
<1>2. DecidedOK
  BY DEF RespInit, DecidedOK
<1>3. HoldOK
  BY DEF RespInit, HoldOK, Held, Failed, Undecided
<1>4. EndedOK /\ GinOK /\ FiledOK
  BY DEF RespInit, EndedOK, GinOK, FiledOK, Answered, Lost, Unjudged
<1> QED BY <1>1, <1>2, <1>3, <1>4 DEF RespInv

\* A decision holds a failure back, and nothing else.
LEMMA HoldStep ==
    ASSUME HoldOK, DecidedOK, place \in Unjudged, UNCHANGED <<sse, wire, written>>,
           env'.decided, env'.buf = env.buf, env'.overflowed <=> env.overflowed,
           env.decided => env' = env /\ spoke' = spoke,
           ~env.decided => /\ spoke'.code \in 0 .. 599 /\ (spoke'.stream <=> sse)
                           /\ env'.buffering <=> (spoke'.code >= 400 /\ ~sse)
    PROVE  HoldOK' /\ (~Held => wire = written)' /\ (Held => wire = << >>)'
<1>1. CASE env.decided
  BY <1>1 DEF HoldOK, Held, Failed
<1>2. CASE ~env.decided
  <2>1. ~env.buffering /\ ~env.overflowed /\ env.buf = << >> /\ written = << >> /\ wire = written
    BY <1>2 DEF DecidedOK, HoldOK
  <2>2. Len(<< >>) = 0 /\ maxEnvelopeBody \in Nat
    BY ResponseAssumption
  <2>3. env'.buffering <=> Held'
    BY <1>2, <2>1, <2>2 DEF Held, Failed
  <2> QED BY <2>1, <2>3 DEF HoldOK
<1> QED BY <1>1, <1>2

\* A handler that gives a status, by whichever method.
LEMMA StatusStep ==
    ASSUME RespInv, NEW code \in 200 .. 599, place = "handler",
           place' = IF sse THEN "failing" ELSE "handler",
           ~env.decided \/ sse, WriteHeader(code), UNCHANGED <<sse, wire, filed, written, bare>>
    PROVE  RespInv'
<1>1. /\ env' = decide(code)
      /\ spoke' = IF env.decided THEN spoke ELSE [code |-> code, stream |-> sse]
      /\ gin' = IF env'.buffering THEN gin ELSE GinWriteHeader(gin, code)
  BY DEF WriteHeader
<1>2. /\ env \in Envelopes /\ spoke \in Decisions /\ gin \in Writers
      /\ sse \in BOOLEAN /\ code \in 0 .. 599
  BY DEF RespInv, RespTypes
<1>3. /\ env' \in Envelopes /\ spoke' \in Decisions
      /\ env'.decided /\ env'.buf = env.buf /\ (env'.overflowed <=> env.overflowed)
      /\ env.decided => env' = env /\ spoke' = spoke
      /\ ~env.decided => /\ env'.status = code /\ spoke'.code = code /\ (spoke'.stream <=> sse)
                         /\ env'.buffering <=> (code >= 400 /\ ~sse)
  BY <1>1, <1>2, DecisionStep
<1>4. /\ gin' \in Writers /\ (gin'.sent <=> gin.sent)
      /\ env'.buffering => gin' = gin
      /\ ~env'.buffering => gin'.status = IF gin.sent THEN gin.status ELSE code
  BY ZenonT(40), <1>1, <1>2, GinStep
<1> HIDE DEF WriteHeader
<1>5. RespTypes'
  BY <1>3, <1>4 DEF RespInv, RespTypes, Unjudged
<1>6. DecidedOK'
  BY <1>3 DEF DecidedOK, RespInv
<1>7. HoldOK'
  <2>1. place \in Unjudged
    BY DEF Unjudged
  <2> QED BY ZenonT(40), <1>2, <1>3, <2>1, HoldStep DEF RespInv
<1>8. EndedOK' /\ FiledOK'
  BY DEF EndedOK, FiledOK, Answered, Lost, Unjudged
<1>9. GinOK'
  <2>1. DecidedOK /\ GinOK /\ place \in Unjudged /\ place # "failing"
    BY DEF RespInv, Unjudged
  <2>2. CASE sse
    <3>1. gin.status \in {200, code} \/ gin.sent
      BY <2>1, <2>2 DEF GinOK, DecidedOK
    <3>2. ~env'.buffering
      BY <1>3, <2>1, <2>2 DEF RespInv, HoldOK, Held, Failed, DecidedOK
    <3>3. env.decided => gin.sent /\ gin.status \in {200, env.status} /\ env'.status = env.status
      BY <1>3, <2>1, <2>2 DEF GinOK
    <3>4. gin'.status \in {200, env'.status}
      BY <1>3, <1>4, <2>1, <3>2, <3>3 DEF DecidedOK
    <3> QED BY <1>3, <2>2, <3>2, <3>4 DEF GinOK
  <2>3. CASE ~sse
    <3>1. ~env.decided /\ ~gin.sent /\ gin.status = 200 /\ ~bare
      BY <2>1, <2>3 DEF GinOK, DecidedOK
    <3> QED BY <1>3, <1>4, <2>3, <3>1 DEF GinOK
  <2> QED BY <2>2, <2>3
<1> QED BY <1>5, <1>6, <1>7, <1>8, <1>9 DEF RespInv

\* A handler aborts with a status, or the recovery does in its place.
LEMMA AbortStep ==
    ASSUME RespInv, NEW code \in 200 .. 599,
           AbortWithStatus(code), UNCHANGED <<sse, wire, filed, written>>,
           \/ place = "handler" /\ place' = "handler" /\ ~env.decided
           \/ place = "panicking" /\ place' = "recovered"
    PROVE  RespInv'
<1>1. /\ env' = decide(code) /\ bare' = TRUE
      /\ spoke' = IF env.decided THEN spoke ELSE [code |-> code, stream |-> sse]
      /\ env'.buffering => gin' = GinWriteHeaderNow(gin)
      /\ ~env'.buffering => gin' = GinWriteHeaderNow(GinWriteHeader(gin, code))
  BY DEF AbortWithStatus
<1>2. /\ env \in Envelopes /\ spoke \in Decisions /\ gin \in Writers
      /\ sse \in BOOLEAN /\ code \in 0 .. 599 /\ place \in Unjudged
  BY DEF RespInv, RespTypes, Unjudged
<1>3. /\ env' \in Envelopes /\ spoke' \in Decisions
      /\ env'.decided /\ env'.buf = env.buf /\ (env'.overflowed <=> env.overflowed)
      /\ env.decided => env' = env /\ spoke' = spoke
      /\ ~env.decided => /\ env'.status = code /\ spoke'.code = code /\ (spoke'.stream <=> sse)
                         /\ env'.buffering <=> (code >= 400 /\ ~sse)
  BY <1>1, <1>2, DecisionStep
<1>4. /\ gin' \in Writers /\ gin'.sent
      /\ env'.buffering => gin'.status = gin.status
      /\ ~env'.buffering => gin'.status = IF gin.sent THEN gin.status ELSE code
  BY <1>1, <1>2, GinStep
<1>5. RespTypes'
  BY <1>1, <1>3, <1>4 DEF RespInv, RespTypes, Unjudged, Lost
<1>6. DecidedOK'
  <2>1. code >= 200 /\ env'.decided
    BY <1>3
  <2>2. CASE env.decided
    <3>1. env.status = spoke.code /\ spoke.code >= 200 /\ (spoke.stream <=> sse)
      BY <2>2 DEF RespInv, DecidedOK
    <3> QED BY <1>3, <2>1, <2>2, <3>1 DEF DecidedOK
  <2>3. CASE ~env.decided
    BY <1>3, <2>1, <2>3 DEF DecidedOK
  <2> QED BY <2>2, <2>3
<1>7. HoldOK' /\ (~Held => wire = written)' /\ (Held => wire = << >>)'
  BY ZenonT(40), <1>2, <1>3, HoldStep DEF RespInv
<1>8. EndedOK' /\ FiledOK'
  BY <1>1, <1>7 DEF EndedOK, FiledOK, Answered, Lost, Unjudged
<1>9. CASE place' = "recovered"
  <2>1. GinOK'
    BY <1>9 DEF GinOK, Unjudged, Answered
  <2> QED BY <1>5, <1>6, <1>7, <1>8, <2>1 DEF RespInv
<1>10. CASE place = "handler" /\ place' = "handler" /\ ~env.decided
  <2>1. gin.status = 200 /\ (~sse => ~gin.sent)
    BY <1>10 DEF RespInv, DecidedOK, GinOK, Unjudged
  <2>2. env'.status = code /\ spoke'.code = code /\ (spoke'.stream <=> sse)
        /\ (env'.buffering <=> (code >= 400 /\ ~sse))
    BY <1>3, <1>10
  <2>3. sse => gin'.status \in {200, code}
    BY <1>4, <2>1
  <2>4. ~sse /\ ~env'.buffering => gin'.status = code /\ ~Failed'
    BY <1>4, <2>1, <2>2 DEF Failed
  <2>5. GinOK'
    BY <1>1, <1>3, <1>4, <2>1, <2>2, <2>3, <2>4 DEF GinOK
  <2> QED BY <1>5, <1>6, <1>7, <1>8, <2>5 DEF RespInv
<1> QED BY <1>9, <1>10

\* A handler writes a piece of the body.
LEMMA WriteStep ==
    ASSUME RespInv, NEW p \in Pieces, place \in Unjudged, Write(p), place' = "handler",
           UNCHANGED <<sse, filed, bare>>
    PROVE  RespInv'
<1>1. /\ written' = Append(written, p)
      /\ spoke' = IF env.decided THEN spoke ELSE [code |-> 200, stream |-> sse]
  BY DEF Write
<1>2. /\ env \in Envelopes /\ spoke \in Decisions /\ gin \in Writers /\ written \in Seq(Pieces)
      /\ sse \in BOOLEAN /\ filed \in 0 .. 599 /\ bare \in BOOLEAN
  BY DEF RespInv, RespTypes
<1>3. /\ written' \in Seq(Pieces) /\ Len(written) \in Nat /\ Len(written') = Len(written) + 1
      /\ maxEnvelopeBody \in Nat
  BY <1>1, <1>2, AppendPiece, ResponseAssumption
<1>4. EndedOK' /\ FiledOK'
  BY DEF EndedOK, FiledOK, Answered, Lost
<1>5. env' \in Envelopes /\ spoke' \in Decisions /\ gin' \in Writers => RespTypes'
  BY <1>2, <1>3 DEF RespTypes, Unjudged
<1>6. CASE ~decide(200).buffering
  <2>1. env' = decide(200) /\ gin' = GinWriteHeaderNow(gin) /\ wire' = Append(wire, p)
    BY <1>6 DEF Write
  <2>2. /\ env' \in Envelopes /\ spoke' \in Decisions
        /\ env'.decided /\ env'.buf = env.buf /\ (env'.overflowed <=> env.overflowed)
        /\ env.decided => env' = env /\ spoke' = spoke
        /\ ~env.decided => /\ env'.status = 200 /\ spoke'.code = 200 /\ (spoke'.stream <=> sse)
    <3>1. 200 \in 200 .. 599
      OBVIOUS
    <3> QED BY ZenonT(40), <1>1, <1>2, <2>1, <3>1, DecisionStep
  <2>3. gin' \in Writers /\ gin'.sent /\ gin'.status = gin.status
    BY <1>2, <2>1, GinStep
  <2>4. DecidedOK'
    BY <2>2 DEF DecidedOK, RespInv
  <2>5. ~env.buffering /\ ~env'.buffering /\ wire = written /\ ~Held
    <3>1. ~env.buffering
      BY <1>6, <2>1, <2>2 DEF RespInv, DecidedOK
    <3> QED BY <3>1, <1>6, <2>1 DEF RespInv, HoldOK
  <2>6. HoldOK'
    BY <1>1, <1>3, <2>1, <2>2, <2>5 DEF HoldOK, Held, Failed
  <2>7. GinOK'
    <3>1. env'.decided /\ ~env'.buffering
      BY <2>2, <2>5
    <3>2. CASE env.decided
      <4>1. /\ sse => gin.status \in {200, env'.status}
            /\ ~sse => gin.status = IF Failed /\ bare THEN 200 ELSE env'.status
        BY <2>2, <2>5, <3>2 DEF RespInv, GinOK
      <4>2. Failed' = Failed
        BY <2>2, <3>2 DEF Failed
      <4> QED BY <2>3, <3>1, <4>1, <4>2 DEF GinOK
    <3>3. CASE ~env.decided
      <4>1. gin.status = 200 /\ env'.status = 200 /\ ~Failed'
        BY <2>2, <3>3 DEF RespInv, DecidedOK, Failed
      <4> QED BY <2>3, <3>1, <4>1 DEF GinOK
    <3> QED BY <3>2, <3>3
  <2> QED BY <1>4, <1>5, <2>2, <2>3, <2>4, <2>6, <2>7 DEF RespInv
<1>7. CASE decide(200).buffering
  <2>1. env.decided /\ decide(200) = env
    <3>1. 200 \in 200 .. 599 /\ ~(200 >= 400)
      OBVIOUS
    <3> QED BY <1>2, <1>7, <3>1, DecideFacts
  <2>2. env.buffering /\ ~env.overflowed /\ env.buf = written /\ wire = << >> /\ Held
    BY <1>7, <2>1 DEF RespInv, HoldOK
  <2>3. spoke' = spoke
    BY <1>1, <2>1
  <2>4. CASE Len(env.buf) + 1 > maxEnvelopeBody
    <3>1. /\ env' = [env EXCEPT !.buffering = FALSE, !.overflowed = TRUE, !.buf = << >>]
          /\ gin' = GinWriteHeaderNow(GinWriteHeader(gin, env.status))
          /\ wire' = Append(wire \o env.buf, p)
      BY <1>7, <2>4 DEF Write, Overflows
    <3>2. wire' = written'
      BY <1>1, <1>2, <2>2, <3>1, AppendPiece
    <3>3. env' \in Envelopes /\ env'.decided /\ ~env'.buffering /\ env'.status = env.status
      BY <1>2, <2>1, <2>2, <3>1, EnvelopeStep
    <3>4. /\ gin' \in Writers /\ gin'.sent
          /\ gin'.status = IF gin.sent THEN gin.status ELSE env.status
      <4>1. env.status \in 0 .. 599
        BY <1>2 DEF Envelopes
      <4> QED BY <1>2, <3>1, <4>1, GinStep
    <3>5. DecidedOK'
      BY <2>1, <2>3, <3>3 DEF DecidedOK, RespInv
    <3>6. HoldOK'
      BY <1>3, <2>2, <2>4, <3>2, <3>3 DEF HoldOK, Held
    <3>7. GinOK'
      <4>1. IF bare THEN gin.sent /\ gin.status = 200 ELSE ~gin.sent
        BY <2>2 DEF RespInv, GinOK
      <4>2. ~sse /\ Failed /\ Failed'
        BY <2>1, <2>2, <2>3 DEF RespInv, DecidedOK, Held, Failed
      <4>3. gin'.status = IF bare THEN 200 ELSE env'.status
        BY <3>3, <3>4, <4>1
      <4> QED BY <3>3, <3>4, <4>2, <4>3 DEF GinOK
    <3> QED BY <1>2, <1>4, <1>5, <2>3, <3>3, <3>4, <3>5, <3>6, <3>7 DEF RespInv
  <2>5. CASE ~(Len(env.buf) + 1 > maxEnvelopeBody)
    <3>1. env' = [env EXCEPT !.buf = Append(env.buf, p)] /\ gin' = gin /\ wire' = wire
      BY <1>7, <2>1, <2>5 DEF Write
    <3>2. /\ env' \in Envelopes /\ env'.decided /\ env'.buffering /\ env'.status = env.status
          /\ env'.buf = written' /\ ~env'.overflowed
      <4>1. env' = [env EXCEPT !.buf = written']
        BY <1>1, <2>2, <3>1
      <4> QED BY <1>2, <1>3, <2>1, <2>2, <4>1, EnvelopeStep
    <3>3. DecidedOK'
      BY <2>1, <2>3, <3>2 DEF DecidedOK, RespInv
    <3>4. HoldOK'
      BY <1>3, <2>2, <2>3, <2>5, <3>1, <3>2 DEF HoldOK, Held, Failed
    <3>5. GinOK'
      <4>1. ~sse /\ (IF bare THEN gin.sent /\ gin.status = 200 ELSE ~gin.sent)
        BY <2>1, <2>2 DEF RespInv, DecidedOK, Held, Failed, GinOK
      <4> QED BY <3>1, <3>2, <4>1 DEF GinOK
    <3> QED BY <1>2, <1>4, <1>5, <2>3, <3>1, <3>2, <3>3, <3>4, <3>5 DEF RespInv
  <2> QED BY <2>4, <2>5
<1> QED BY <1>6, <1>7

\* A step that changes nothing but the place, or what gin has sent.
LEMMA FlushStep ==
    ASSUME RespInv, HandlerFlush
    PROVE  RespInv'
<1>1. /\ place = "handler" /\ UNCHANGED <<place, sse, env, wire, filed, spoke, written, bare>>
      /\ gin' = IF env.buffering THEN gin ELSE GinWriteHeaderNow(gin)
      /\ gin \in Writers
  BY DEF RespInv, RespTypes, HandlerFlush, Flush
<1>2. /\ gin' \in Writers /\ gin'.status = gin.status /\ (env.buffering => gin' = gin)
      /\ gin.sent => gin'.sent
      /\ env.decided \/ sse
  BY SMTT(30), <1>1, GinFacts DEF HandlerFlush
<1>3. RespTypes'
  BY <1>1, <1>2 DEF RespInv, RespTypes
<1>4. DecidedOK'
  BY <1>1, <1>2 DEF RespInv, DecidedOK
<1>5. HoldOK'
  BY <1>1 DEF RespInv, HoldOK, Held, Failed
<1>6. EndedOK' /\ FiledOK'
  BY <1>1 DEF EndedOK, FiledOK, Answered, Lost
<1>7. GinOK'
  BY <1>1, <1>2 DEF RespInv, GinOK, Failed
<1> QED BY <1>3, <1>4, <1>5, <1>6, <1>7 DEF RespInv

\* The handler returns, or panics, on its way out of the chain.
LEMMA UnwindStep ==
    ASSUME RespInv, SetSSEHeaders \/ HandlerReturns \/ HandlerPanics
    PROVE  RespInv'
<1>1. CASE SetSSEHeaders
  <2>1. /\ place = "handler" /\ ~env.decided /\ sse' = TRUE
        /\ UNCHANGED <<place, env, gin, wire, filed, spoke, written, bare>>
    BY <1>1 DEF SetSSEHeaders, Speaking
  <2>2. RespTypes'
    BY <2>1 DEF RespInv, RespTypes
  <2>3. DecidedOK' /\ HoldOK'
    BY <2>1 DEF RespInv, DecidedOK, HoldOK, Held, Failed
  <2>4. EndedOK' /\ FiledOK'
    BY <2>1 DEF EndedOK, FiledOK, Answered, Lost
  <2>5. GinOK'
    BY <2>1 DEF RespInv, DecidedOK, GinOK
  <2> QED BY <2>2, <2>3, <2>4, <2>5 DEF RespInv
<1>2. CASE HandlerReturns \/ HandlerPanics
  <2>1. /\ place = "handler" /\ place' \in {"unwound", "panicking", "aborted"}
        /\ UNCHANGED <<sse, env, gin, wire, filed, spoke, written, bare>>
    BY <1>2 DEF HandlerReturns, HandlerPanics
  <2>2. RespTypes'
    BY <2>1 DEF RespInv, RespTypes, Unjudged
  <2>3. DecidedOK' /\ HoldOK'
    BY <2>1 DEF RespInv, DecidedOK, HoldOK, Held, Failed, Unjudged
  <2>4. EndedOK' /\ FiledOK'
    BY <2>1 DEF EndedOK, FiledOK, Answered, Lost
  <2>5. GinOK'
    BY <2>1 DEF RespInv, GinOK, Unjudged, Failed
  <2> QED BY <2>2, <2>3, <2>4, <2>5 DEF RespInv
<1> QED BY <1>1, <1>2

\* The journal files the request.
LEMMA JournalStep ==
    ASSUME RespInv, AccessJournal
    PROVE  RespInv'
<1>1. /\ place = "unwound" /\ place' = "filed"
      /\ filed' = IF Status \in 200 .. 299 THEN 0 ELSE Status
      /\ UNCHANGED <<sse, env, gin, wire, spoke, written, bare>>
  BY DEF AccessJournal
<1>2. RespTypes'
  <2>1. Status \in 0 .. 599
    BY DEF RespInv, RespTypes, Status, Envelopes, Writers
  <2>2. filed' \in 0 .. 599
    BY <1>1, <2>1
  <2> QED BY <1>1, <2>2 DEF RespInv, RespTypes, Unjudged
<1>3. DecidedOK' /\ HoldOK'
  BY <1>1 DEF RespInv, DecidedOK, HoldOK, Held, Failed, Unjudged
<1>4. EndedOK' /\ FiledOK'
  BY <1>1 DEF EndedOK, FiledOK, Answered, Lost, Status
<1>5. GinOK'
  BY <1>1 DEF RespInv, GinOK, Unjudged, Failed
<1> QED BY <1>2, <1>3, <1>4, <1>5 DEF RespInv

\* The writer of the envelope passes on what it held back.
LEMMA FinishStep ==
    ASSUME RespInv, Finish
    PROVE  RespInv'
<1>1. /\ place = "filed" /\ place' = "answered"
      /\ UNCHANGED <<sse, filed, spoke, written, bare>>
  BY DEF Finish
<1>2. /\ env \in Envelopes /\ gin \in Writers /\ written \in Seq(Pieces)
      /\ env.status \in 0 .. 599
  BY DEF RespInv, RespTypes, Envelopes
<1>3. env' \in Envelopes /\ gin' \in Writers => RespTypes'
  BY <1>1 DEF RespInv, RespTypes, Answered
<1>4. CASE env.buffering /\ ~env.overflowed
  <2>1. /\ env' = [env EXCEPT !.buffering = FALSE]
        /\ gin' = GinWriteHeaderNow(GinWriteHeader(gin, env.status))
        /\ wire' = wire \o Judged
    BY <1>4 DEF Finish
  <2>2. Held /\ env.decided /\ env.buf = written /\ wire = << >> /\ env.status = spoke.code
    BY <1>1, <1>4 DEF RespInv, HoldOK, DecidedOK, Unjudged
  <2>3. wire' = JudgedOf(written)
    <3>1. Judged = JudgedOf(written)
      BY <2>2 DEF Judged, JudgedOf
    <3>2. JudgedOf(written) = written
            \/ JudgedOf(written) = <<replacementEnvelope(spoke.code, written)>>
      BY DEF JudgedOf
    <3>3. << >> \o JudgedOf(written) = JudgedOf(written)
      BY <1>2, <3>2
    <3> QED BY <2>1, <2>2, <3>1, <3>3
  <2>4. /\ env' \in Envelopes /\ env'.decided /\ ~env'.buffering
        /\ env'.status = env.status /\ env'.buf = env.buf
    BY <1>2, <1>4, <2>1, <2>2, EnvelopeStep
  <2>5. gin' \in Writers /\ gin'.status = IF gin.sent THEN gin.status ELSE env.status
    BY <1>2, <2>1, GinStep
  <2>6. ~sse /\ gin'.status = IF Failed /\ bare THEN 200 ELSE env.status
    <3>1. IF bare THEN gin.sent /\ gin.status = 200 ELSE ~gin.sent
      BY <1>1, <1>4 DEF RespInv, GinOK, Unjudged
    <3>2. Failed /\ ~sse
      BY <2>2 DEF RespInv, DecidedOK, Held, Failed
    <3> QED BY <2>5, <3>1, <3>2
  <2>7. DecidedOK' /\ HoldOK'
    BY <1>1, <2>2, <2>4 DEF RespInv, DecidedOK, HoldOK, Unjudged
  <2>8. Held' /\ JudgedOf(written)' = JudgedOf(written)
    BY <1>1, <2>2 DEF Held, Failed, JudgedOf
  <2>9. EndedOK'
    BY <1>1, <2>3, <2>4, <2>8 DEF EndedOK, Answered, Lost
  <2>10. GinOK' /\ FiledOK'
    BY <1>1, <2>2, <2>4, <2>6 DEF RespInv, GinOK, FiledOK, Unjudged, Answered, Status, Failed
  <2> QED BY <1>3, <2>4, <2>5, <2>7, <2>9, <2>10 DEF RespInv
<1>5. CASE ~(env.buffering /\ ~env.overflowed)
  <2>1. UNCHANGED <<env, gin, wire>>
    BY <1>5 DEF Finish
  <2>2. ~env.buffering
    BY <1>5 DEF RespInv, HoldOK
  <2>3. DecidedOK' /\ HoldOK'
    BY <1>1, <2>1, <2>2 DEF RespInv, DecidedOK, HoldOK, Unjudged
  <2>4. EndedOK'
    BY <1>1, <2>1, <2>2 DEF RespInv, EndedOK, HoldOK, Held, Failed, Unjudged, Answered, Lost
  <2>5. GinOK' /\ FiledOK'
    BY <1>1, <2>1 DEF RespInv, GinOK, FiledOK, Unjudged, Answered, Status, Failed
  <2> QED BY <1>2, <1>3, <2>1, <2>3, <2>4, <2>5 DEF RespInv
<1> QED BY <1>4, <1>5

\* gin sends what is left to send.
LEMMA ChainStep ==
    ASSUME RespInv, EndOfChain
    PROVE  RespInv'
<1>1. /\ \/ place = "answered" /\ place' = "over"
         \/ place = "recovered" /\ place' = "broken"
      /\ gin' = GinWriteHeaderNow(gin)
      /\ UNCHANGED <<sse, env, wire, filed, spoke, written, bare>>
  BY DEF EndOfChain
<1>2. gin' \in Writers /\ gin'.status = gin.status
  BY <1>1, GinFacts DEF RespInv, RespTypes
<1>3. RespTypes'
  BY <1>1, <1>2 DEF RespInv, RespTypes, Answered, Lost
<1>4. DecidedOK' /\ HoldOK'
  BY <1>1, <1>2 DEF RespInv, DecidedOK, HoldOK, Unjudged, Held, Failed
<1>5. EndedOK'
  BY <1>1, <1>2 DEF RespInv, EndedOK, Answered, Lost, Held, Failed, JudgedOf
<1>6. GinOK' /\ FiledOK'
  BY <1>1, <1>2 DEF RespInv, GinOK, FiledOK, Unjudged, Answered, Status, Failed
<1> QED BY <1>3, <1>4, <1>5, <1>6 DEF RespInv

\* Every step keeps the invariant.
LEMMA RespStep == RespInv /\ [RespNext]_respVars => RespInv'
<1> SUFFICES ASSUME RespInv, [RespNext]_respVars PROVE RespInv'
  OBVIOUS
<1>0. Codes \subseteq 200 .. 599 /\ 500 \in 200 .. 599
  BY ResponseAssumption
<1>1. ASSUME NEW code \in Codes, HandlerStatus(code) PROVE RespInv'
  BY <1>0, <1>1, StatusStep DEF HandlerStatus, Speaking, Unjudged
<1>2. ASSUME NEW code \in Codes, StreamFails(code) PROVE RespInv'
  BY <1>0, <1>2, StatusStep DEF StreamFails, Speaking, Unjudged
<1>3. ASSUME NEW code \in Codes, HandlerAbort(code) PROVE RespInv'
  BY <1>0, <1>3, AbortStep DEF HandlerAbort, Speaking, Unjudged
<1>4. ASSUME NEW p \in Pieces, HandlerWrite(p) PROVE RespInv'
  BY <1>4, WriteStep DEF HandlerWrite, Speaking, Unjudged
<1>5. CASE Recovery
  BY <1>0, <1>5, AbortStep DEF Recovery, Unjudged
<1>6. CASE UNCHANGED respVars
  BY <1>6 DEF respVars, RespInv, RespTypes, DecidedOK, HoldOK, EndedOK, GinOK, FiledOK,
              Held, Failed, Status, JudgedOf
<1> QED BY <1>1, <1>2, <1>3, <1>4, <1>5, <1>6, FlushStep, UnwindStep, JournalStep, FinishStep,
           ChainStep DEF RespNext

\* So it always holds.
LEMMA RespInvariance == RespSpec => []RespInv
  BY RespInitInv, RespStep, PTL DEF RespSpec

\* A recognised failure is the upstream's, and one that is not is replaced.
LEMMA JudgedFacts ==
    ASSUME NEW body \in Seq(Pieces)
    PROVE  isUpstreamFailure(body) <=>
               /\ Len(body) = 1 /\ body[1].form = "error" /\ body[1].type # "none"
               /\ ~Unsafe(body[1])
<1>1. CASE Len(body) = 1
  <2>1. body[1] \in Pieces
    BY <1>1
  <2>2. body[1].type \in upstreamErrorTypes \cup {"none"}
    BY <2>1, ResponseAssumption
  <2>3. "none" \notin upstreamErrorTypes
    BY DEF upstreamErrorTypes
  <2> QED BY <1>1, <2>2, <2>3 DEF isUpstreamFailure, safeMessage, Unsafe
<1> QED BY <1>1 DEF isUpstreamFailure

\* An answer is sent once and whole.
THEOREM AnswersAreWhole == RespSpec => []SentWhole
<1>1. RespInv => SentWhole
  <2> SUFFICES ASSUME RespInv PROVE SentWhole
    OBVIOUS
  <2>1. ~Held => wire = written
    BY DEF RespInv, RespTypes, HoldOK, EndedOK
  <2>2. Held /\ place \notin {"answered", "over"} => wire = << >>
    BY DEF RespInv, RespTypes, HoldOK, EndedOK, Answered
  <2>3. ASSUME Held, place \in {"answered", "over"}
        PROVE  /\ Len(wire) = 1
               /\ Recognised => wire = written
               /\ ~Recognised => wire[1].form = "replaced"
    <3>1. wire = JudgedOf(written)
      BY <2>3 DEF RespInv, EndedOK, Answered
    <3>2. isUpstreamFailure(written) <=> Recognised
      BY JudgedFacts DEF RespInv, RespTypes, Recognised
    <3>3. CASE Recognised
      BY <3>1, <3>2, <3>3 DEF JudgedOf, Recognised
    <3>4. CASE ~Recognised
      BY <3>1, <3>2, <3>4 DEF JudgedOf, replacementEnvelope
    <3> QED BY <3>1, <3>3, <3>4
  <2> QED BY <2>1, <2>2, <2>3 DEF SentWhole
<1> QED BY <1>1, RespInvariance, PTL

\* The journal has what the handler gave, and when the client has another status.
THEOREM JournalAgrees == RespSpec => []FiledAsSent
<1>1. ASSUME RespInv, place = "over"
      PROVE  /\ filed = IF Given \in 200 .. 299 THEN 0 ELSE Given
             /\ spoke.stream => gin.status \in {200, Given}
             /\ ~spoke.stream => gin.status = IF Failed /\ bare THEN 200 ELSE Given
  <2>1. /\ DecidedOK /\ GinOK /\ FiledOK /\ ~env.buffering
        /\ place \in Answered
    BY <1>1 DEF RespInv, EndedOK, Answered
  <2>2. CASE env.decided
    <3>1. Given = env.status /\ Status = env.status /\ (spoke.stream <=> sse)
      BY <2>1, <2>2 DEF DecidedOK, Given, Undecided, Status
    <3> QED BY <2>1, <2>2, <3>1 DEF GinOK, FiledOK
  <2>3. CASE ~env.decided
    <3>1. Given = 200 /\ Status = 200 /\ gin.status = 200
      BY <2>1, <2>3 DEF DecidedOK, Given, Status
    <3> QED BY <2>1, <3>1 DEF FiledOK
  <2> QED BY <2>2, <2>3
<1>2. RespInv => FiledAsSent
  BY <1>1 DEF FiledAsSent
<1> QED BY <1>2, RespInvariance, PTL

\* What the line in place of a failure says is of its text.
LEMMA LineFacts ==
    ASSUME NEW status, NEW marks
    PROVE  LET line == classifyFailure(status, marks)
           IN /\ line \in Lines
              /\ line \in CauseMarks => line \in marks
              /\ line = "timeout" => "tls" \notin marks
<1> DEFINE cause == CauseFromText(marks)
<1>1. /\ cause \in CauseMarks \cup {"other"}
      /\ cause # "other" => cause \in marks
      /\ cause = "timeout" => "tls" \notin marks
  BY DEF CauseFromText, CauseMarks
<1>2. CASE cause # "other"
  BY <1>1, <1>2 DEF classifyFailure, Lines
<1>3. CASE cause = "other"
  <2>1. classifyFailure(status, marks) \in
            {"authentication failed", "permission denied", "not found", "rate limited",
             "upstream unavailable", "upstream request failed"}
    BY <1>3 DEF classifyFailure
  <2> QED BY <2>1 DEF Lines, CauseMarks
<1> QED BY <1>2, <1>3

\* Nothing local is told of a failure that is held.
THEOREM NothingLocalIsTold == RespSpec => []NothingLocal
<1>1. RespInv => NothingLocal
  <2> SUFFICES ASSUME RespInv, Held, NEW i \in DOMAIN wire
               PROVE  IF wire[i].form # "replaced" THEN ~Unsafe(wire[i])
                      ELSE LET line == wire[i].line
                               marks == UNION {written[j].marks : j \in DOMAIN written}
                           IN /\ line \in Lines
                              /\ line \in CauseMarks => line \in marks
                              /\ line = "timeout" => "tls" \notin marks
    BY DEF NothingLocal
  <2>1. wire = JudgedOf(written) \/ wire = << >>
    BY DEF RespInv, RespTypes, HoldOK, EndedOK
  <2>2. wire = JudgedOf(written)
    BY <2>1
  <2>3. CASE isUpstreamFailure(written)
    <3>1. wire = written /\ Len(written) = 1
      BY <2>2, <2>3 DEF JudgedOf, isUpstreamFailure
    <3>3. written \in Seq(Pieces)
      BY DEF RespInv, RespTypes
    <3>4. i = 1
      BY <3>1, <3>3
    <3>2. written[1].form = "error" /\ ~Unsafe(written[1])
      BY <2>3, JudgedFacts DEF RespInv, RespTypes
    <3> QED BY <3>1, <3>2, <3>4
  <2>4. CASE ~isUpstreamFailure(written)
    <3>1. i = 1 /\ wire[1] = replacementEnvelope(spoke.code, written)
      BY <2>2, <2>4 DEF JudgedOf
    <3>2. wire[i].form = "replaced" /\ wire[i].line = classifyFailure(spoke.code, MarksOf(written))
      BY <3>1 DEF replacementEnvelope
    <3> QED BY <3>2, LineFacts DEF MarksOf
  <2> QED BY <2>3, <2>4
<1> QED BY <1>1, RespInvariance, PTL

----------------------------------------------------------------------------
(* The meters.                                                             *)

Meters == [started : Nat, done : Nat, block : Nat, bytes : Nat]

\* A sample as it is handed over: the record of an attempt of c, and the meter.
Metered(r, c, at, u, b, n) == [SampleFrom(r, c, at) EXCEPT !.upload = u, !.block = b, !.bytes = n]
Published    == {SampleFrom(r, c, at) : r \in Kinds, c \in Clients, at \in Nat}
MeteredOnes  == {Metered(r, c, at, u, b, n) : r \in Kinds, c \in Clients, at \in Nat,
                                              u \in Nat, b \in Nat, n \in Nat}

MeterTypes ==
    /\ now \in Nat
    /\ stage \in [Clients -> {"away", "running", "gone"}]
    /\ meter \in [Clients -> Meters]
    /\ out \in [Clients -> Nat \cup {-1}]
    /\ firstEnd \in [Clients -> Nat]
    /\ queue \in Seq(Published) /\ handed \in Seq(MeteredOnes)

\* The meter of a request, whose write may be blocked.
MeterOK(c) ==
    /\ meter[c].started <= now
    /\ out[c] = -1 => meter[c].block <= now - meter[c].started
    /\ out[c] # -1 => /\ stage[c] = "running" /\ out[c] <= now
                      /\ meter[c].block <= out[c] - meter[c].started
    /\ meter[c].done = firstEnd[c]
    /\ stage[c] = "away" => firstEnd[c] = 0

\* A sample that waits, and one that was handed over.
QueuedOK(s) == stage[s.client] # "away"
HandedOK(s) ==
    LET m == meter[s.client]
    IN /\ stage[s.client] # "away"
       /\ s.bytes <= m.bytes /\ s.block <= m.block
       /\ s.upload \in {0, firstEnd[s.client]}

MeterInv ==
    /\ MeterTypes
    /\ \A c \in Clients : MeterOK(c)
    /\ \A i \in DOMAIN queue : QueuedOK(queue[i])
    /\ \A i \in DOMAIN handed : HandedOK(handed[i])

\* What a sample is made of.
LEMMA SampleFacts ==
    ASSUME NEW r \in Kinds, NEW c \in Clients, NEW at \in Nat
    PROVE  /\ SampleFrom(r, c, at) \in Published /\ SampleFrom(r, c, at).client = c
           /\ \A u, b, n \in Nat : LET s == Metered(r, c, at, u, b, n)
                                   IN /\ s \in MeteredOnes /\ s.client = c
                                      /\ s.upload = u /\ s.block = b /\ s.bytes = n
<1>1. SampleFrom(r, c, at) \in Published
  BY DEF Published
<1>2. SampleFrom(r, c, at).client = c
  BY DEF SampleFrom
<1>3. ASSUME NEW u \in Nat, NEW b \in Nat, NEW n \in Nat
      PROVE  LET s == Metered(r, c, at, u, b, n)
             IN /\ s \in MeteredOnes /\ s.client = c /\ s.upload = u /\ s.block = b /\ s.bytes = n
  <2>1. Metered(r, c, at, u, b, n) \in MeteredOnes
    BY DEF MeteredOnes
  <2>2. LET s == Metered(r, c, at, u, b, n)
        IN s.client = c /\ s.upload = u /\ s.block = b /\ s.bytes = n
    BY DEF Metered, SampleFrom
  <2> QED BY <2>1, <2>2
<1> QED BY <1>1, <1>2, <1>3

\* Every sample is of a client.
LEMMA ClientFacts ==
    /\ \A s \in Published : s.client \in Clients
    /\ \A s \in MeteredOnes : s.client \in Clients /\ s.upload \in Nat /\ s.block \in Nat /\ s.bytes \in Nat
<1>1. ASSUME NEW s \in Published PROVE s.client \in Clients
  <2>1. PICK r \in Kinds, c \in Clients, at \in Nat : s = SampleFrom(r, c, at)
    BY DEF Published
  <2> QED BY <2>1, SampleFacts
<1>2. ASSUME NEW s \in MeteredOnes
      PROVE  s.client \in Clients /\ s.upload \in Nat /\ s.block \in Nat /\ s.bytes \in Nat
  <2>1. PICK r \in Kinds, c \in Clients, at \in Nat, u \in Nat, b \in Nat, n \in Nat :
            s = Metered(r, c, at, u, b, n)
    BY DEF MeteredOnes
  <2>2. LET m == Metered(r, c, at, u, b, n)
        IN m.client = c /\ m.upload = u /\ m.block = b /\ m.bytes = n
    BY SampleFacts
  <2>3. s.client = c /\ s.upload = u /\ s.block = b /\ s.bytes = n
    BY <2>1, <2>2
  <2> QED BY <2>3
<1> QED BY <1>1, <1>2

\* Of a request that has arrived, nothing it was measured is lost.
Grows(c) ==
    /\ stage[c] # "away" => /\ stage'[c] # "away"
                            /\ meter[c].bytes <= meter'[c].bytes /\ meter[c].block <= meter'[c].block
                            /\ firstEnd[c] = 0 \/ firstEnd'[c] = firstEnd[c]

\* What is queued or handed on stays right while the meters only grow.
LEMMA QueueStep ==
    ASSUME MeterInv, MeterTypes', \A c \in Clients : Grows(c), UNCHANGED <<queue, handed>>
    PROVE  /\ \A i \in DOMAIN queue' : QueuedOK(queue[i])'
           /\ \A i \in DOMAIN handed' : HandedOK(handed[i])'
<1>1. ASSUME NEW i \in DOMAIN queue PROVE QueuedOK(queue[i])'
  <2>1. queue[i].client \in Clients
    BY ClientFacts DEF MeterInv, MeterTypes
  <2> QED BY <2>1 DEF MeterInv, QueuedOK, Grows
<1>2. ASSUME NEW i \in DOMAIN handed PROVE HandedOK(handed[i])'
  <2> DEFINE s == handed[i]
  <2>1. s \in MeteredOnes
    BY DEF MeterInv, MeterTypes
  <2>2. s.client \in Clients /\ s.upload \in Nat /\ s.block \in Nat /\ s.bytes \in Nat
    BY <2>1, ClientFacts
  <2>3. /\ stage[s.client] # "away" /\ s.bytes <= meter[s.client].bytes
        /\ s.block <= meter[s.client].block /\ s.upload \in {0, firstEnd[s.client]}
    BY DEF MeterInv, HandedOK
  <2>4. /\ stage'[s.client] # "away" /\ meter[s.client].bytes <= meter'[s.client].bytes
        /\ meter[s.client].block <= meter'[s.client].block
        /\ firstEnd[s.client] = 0 \/ firstEnd'[s.client] = firstEnd[s.client]
    BY <2>2, <2>3 DEF Grows
  <2>5. meter[s.client] \in Meters /\ meter'[s.client] \in Meters
    BY <2>2 DEF MeterInv, MeterTypes
  <2>6. s.bytes <= meter'[s.client].bytes /\ s.block <= meter'[s.client].block
    BY <2>2, <2>3, <2>4, <2>5 DEF Meters
  <2>7. handed'[i] = s
    OBVIOUS
  <2> HIDE DEF s
  <2> QED BY <2>3, <2>4, <2>6, <2>7 DEF HandedOK
<1> QED BY <1>1, <1>2

\* What a request's meter and clock are made of.
LEMMA MeterFacts ==
    ASSUME MeterInv, NEW c \in Clients
    PROVE  /\ now \in Nat /\ meter[c] \in Meters /\ out[c] \in Nat \cup {-1} /\ firstEnd[c] \in Nat
           /\ stage[c] \in {"away", "running", "gone"} /\ MeterOK(c)
           /\ meter[c].started \in Nat /\ meter[c].done \in Nat /\ meter[c].block \in Nat
           /\ meter[c].bytes \in Nat
<1>1. meter[c] \in Meters
  BY DEF MeterInv, MeterTypes
<1> QED BY <1>1 DEF MeterInv, MeterTypes, Meters

\* A step that leaves the meters, and lets time pass or a request end.
LEMMA PassStep ==
    ASSUME MeterInv, now' \in Nat, now <= now',
           stage' \in [Clients -> {"away", "running", "gone"}],
           \A c \in Clients : stage[c] # "away" => stage'[c] # "away",
           \A c \in Clients : out[c] # -1 => stage'[c] = stage[c],
           UNCHANGED <<meter, out, firstEnd>>
    PROVE  (\A c \in Clients : MeterOK(c)' /\ Grows(c))
           /\ (queue' \in Seq(Published) /\ handed' \in Seq(MeteredOnes) => MeterTypes')
<1>1. ASSUME NEW c \in Clients PROVE MeterOK(c)' /\ Grows(c)
  BY MeterFacts DEF MeterOK, Grows, Meters
<1>2. queue' \in Seq(Published) /\ handed' \in Seq(MeteredOnes) => MeterTypes'
  BY DEF MeterInv, MeterTypes
<1> QED BY <1>1, <1>2

\* A request comes.
LEMMA ArriveMeter ==
    ASSUME MeterInv, NEW c \in Clients, NEW w \in BOOLEAN, Arrive(c, w)
    PROVE  MeterTypes' /\ \A d \in Clients : MeterOK(d)' /\ Grows(d)
<1> DEFINE m == [started |-> now, done |-> 0, block |-> 0, bytes |-> 0]
<1>1. /\ stage[c] = "away" /\ stage' = [stage EXCEPT ![c] = "running"]
      /\ meter' = [meter EXCEPT ![c] = m]
      /\ UNCHANGED <<now, out, queue, handed, firstEnd>>
  BY DEF Arrive, statVars
<1>2. m \in Meters /\ m.started = now /\ m.done = 0 /\ m.block = 0 /\ m.bytes = 0
  BY MeterFacts DEF Meters
<1> HIDE DEF m
<1>3. MeterTypes'
  BY <1>1, <1>2 DEF MeterInv, MeterTypes
<1>4. meter'[c] = m /\ \A d \in Clients \ {c} : meter'[d] = meter[d] /\ stage'[d] = stage[d]
  BY <1>1 DEF MeterInv, MeterTypes
<1>5. MeterOK(c)' /\ Grows(c)
  <2>1. out[c] = -1 /\ firstEnd[c] = 0 /\ now \in Nat
    BY <1>1, MeterFacts DEF MeterOK
  <2> QED BY <1>1, <1>2, <1>4, <2>1 DEF MeterOK, Grows
<1>6. ASSUME NEW d \in Clients \ {c} PROVE MeterOK(d)' /\ Grows(d)
  BY <1>1, <1>4, MeterFacts DEF MeterOK, Grows
<1> QED BY <1>3, <1>5, <1>6

\* Its body is read.
LEMMA ReadMeter ==
    ASSUME MeterInv, NEW c \in Clients, NEW n \in 0 .. 1, NEW eof \in BOOLEAN, Read(c, n, eof)
    PROVE  MeterTypes' /\ \A d \in Clients : MeterOK(d)' /\ Grows(d)
<1> DEFINE counted == [meter[c] EXCEPT !.bytes = @ + n]
           m == IF eof THEN MarkBodyDone(counted, Elapsed(c)) ELSE counted
           e == IF eof /\ firstEnd[c] = 0 THEN Elapsed(c) ELSE firstEnd[c]
<1>1. /\ stage[c] = "running" /\ meter' = [meter EXCEPT ![c] = m]
      /\ firstEnd' = IF eof /\ firstEnd[c] = 0 THEN [firstEnd EXCEPT ![c] = Elapsed(c)] ELSE firstEnd
      /\ UNCHANGED <<now, stage, out, queue, handed>>
  BY DEF Read, statVars
<1>2. Elapsed(c) \in Nat
  BY MeterFacts DEF Elapsed, MeterOK
<1>3. /\ counted \in Meters /\ counted.started = meter[c].started /\ counted.done = meter[c].done
      /\ counted.block = meter[c].block /\ counted.bytes = meter[c].bytes + n
  BY MeterFacts DEF Meters
<1> HIDE DEF counted
<1>4. /\ m \in Meters /\ m.started = meter[c].started /\ m.block = meter[c].block
      /\ m.bytes = meter[c].bytes + n
      /\ m.done = IF eof /\ meter[c].done = 0 THEN Elapsed(c) ELSE meter[c].done
  BY <1>2, <1>3 DEF MarkBodyDone, Meters
<1> HIDE DEF m
<1>5. e \in Nat /\ firstEnd' = [firstEnd EXCEPT ![c] = e]
  BY <1>1, <1>2, MeterFacts DEF MeterInv, MeterTypes
<1>6. MeterTypes'
  BY <1>1, <1>4, <1>5 DEF MeterInv, MeterTypes
<1>7. /\ meter'[c] = m /\ firstEnd'[c] = e
      /\ \A d \in Clients \ {c} : meter'[d] = meter[d] /\ firstEnd'[d] = firstEnd[d]
  BY <1>1, <1>5 DEF MeterInv, MeterTypes
<1>8. MeterOK(c)' /\ Grows(c)
  <2>1. meter[c].bytes + n >= meter[c].bytes /\ meter[c].block <= meter[c].block
    BY MeterFacts
  <2>2. e = IF eof /\ meter[c].done = 0 THEN Elapsed(c) ELSE meter[c].done
    BY MeterFacts DEF MeterOK
  <2> HIDE DEF e
  <2>3. MeterOK(c)'
    BY <1>1, <1>4, <1>7, <2>2, MeterFacts DEF MeterOK
  <2>4. firstEnd[c] = 0 \/ e = firstEnd[c]
    BY DEF e
  <2>5. Grows(c)
    BY <1>1, <1>4, <1>7, <2>1, <2>4 DEF Grows
  <2> QED BY <2>3, <2>5
<1>9. ASSUME NEW d \in Clients \ {c} PROVE MeterOK(d)' /\ Grows(d)
  BY <1>1, <1>7, MeterFacts DEF MeterOK, Grows
<1> QED BY <1>6, <1>8, <1>9

\* Its answer is written.
LEMMA WriteMeter ==
    ASSUME MeterInv, NEW c \in Clients, WriteBegins(c) \/ WriteEnds(c)
    PROVE  MeterTypes' /\ \A d \in Clients : MeterOK(d)' /\ Grows(d)
<1>1. CASE WriteBegins(c)
  <2>1. /\ stage[c] = "running" /\ out[c] = -1 /\ out' = [out EXCEPT ![c] = now]
        /\ UNCHANGED <<now, stage, meter, queue, handed, firstEnd>>
    BY <1>1 DEF WriteBegins, statVars
  <2>2. MeterTypes'
    BY <2>1 DEF MeterInv, MeterTypes
  <2>3. out'[c] = now /\ \A d \in Clients \ {c} : out'[d] = out[d]
    BY <2>1 DEF MeterInv, MeterTypes
  <2>4. MeterOK(c)' /\ Grows(c)
    BY <2>1, <2>3, MeterFacts DEF MeterOK, Grows
  <2>5. ASSUME NEW d \in Clients \ {c} PROVE MeterOK(d)' /\ Grows(d)
    BY <2>1, <2>3, MeterFacts DEF MeterOK, Grows
  <2> QED BY <2>2, <2>4, <2>5
<1>2. CASE WriteEnds(c)
  <2> DEFINE m == [meter[c] EXCEPT !.block = @ + (now - out[c])]
  <2>1. /\ out[c] # -1 /\ out' = [out EXCEPT ![c] = -1] /\ meter' = [meter EXCEPT ![c] = m]
        /\ UNCHANGED <<now, stage, queue, handed, firstEnd>>
    BY <1>2 DEF WriteEnds, statVars, MeterInv, MeterTypes
  <2>2. out[c] \in Nat /\ out[c] <= now /\ meter[c].block <= out[c] - meter[c].started
    BY <2>1, MeterFacts DEF MeterOK
  <2>3. meter[c].block + (now - out[c]) \in Nat
    BY <2>2, MeterFacts
  <2>4. /\ m \in Meters /\ m.started = meter[c].started /\ m.bytes = meter[c].bytes
        /\ m.done = meter[c].done /\ m.block = meter[c].block + (now - out[c])
    BY <2>3, MeterFacts DEF Meters
  <2> HIDE DEF m
  <2>5. MeterTypes'
    BY <2>1, <2>4 DEF MeterInv, MeterTypes
  <2>6. /\ out'[c] = -1 /\ meter'[c] = m
        /\ \A d \in Clients \ {c} : out'[d] = out[d] /\ meter'[d] = meter[d]
    BY <2>1 DEF MeterInv, MeterTypes
  <2>7. MeterOK(c)' /\ Grows(c)
    BY <2>1, <2>2, <2>4, <2>6, MeterFacts DEF MeterOK, Grows
  <2>8. ASSUME NEW d \in Clients \ {c} PROVE MeterOK(d)' /\ Grows(d)
    BY <2>1, <2>6, MeterFacts DEF MeterOK, Grows
  <2> QED BY <2>5, <2>7, <2>8
<1> QED BY <1>1, <1>2

\* What the queue and the collector's history gain is of a request that came.
LEMMA PublishMeter ==
    ASSUME MeterInv, NEW c \in Clients, NEW r \in Kinds, Publish(c, r)
    PROVE  MeterInv'
<1>1. /\ stage[c] = "running" /\ UNCHANGED <<now, stage, meter, out, firstEnd, handed>>
  BY DEF Publish, statVars
<1>2. PICK at \in meter[c].started .. now : queue' = Append(queue, SampleFrom(r, c, at))
  BY DEF Publish
<1>3. at \in Nat
  BY MeterFacts
<1>4. SampleFrom(r, c, at) \in Published /\ SampleFrom(r, c, at).client = c
  BY <1>3, SampleFacts
<1>5. /\ queue \in Seq(Published) /\ queue' \in Seq(Published) /\ DOMAIN queue = 1 .. Len(queue)
      /\ DOMAIN queue' = 1 .. (Len(queue) + 1) /\ queue'[Len(queue) + 1] = SampleFrom(r, c, at)
      /\ \A i \in 1 .. Len(queue) : queue'[i] = queue[i]
  BY <1>2, <1>4, AppendProperties DEF MeterInv, MeterTypes
<1>6. MeterTypes' /\ \A d \in Clients : MeterOK(d)'
  BY <1>1, <1>5, PassStep, MeterFacts DEF MeterInv, MeterTypes
<1>7. ASSUME NEW i \in DOMAIN queue' PROVE QueuedOK(queue[i])'
  BY <1>1, <1>4, <1>5, <1>7 DEF MeterInv, QueuedOK
<1>8. ASSUME NEW i \in DOMAIN handed' PROVE HandedOK(handed[i])'
  BY <1>1, <1>8 DEF MeterInv, HandedOK
<1> QED BY <1>6, <1>7, <1>8 DEF MeterInv

\* The collector handles the sample at the head of the queue.
LEMMA HandleMeter ==
    ASSUME MeterInv, Handle
    PROVE  MeterInv'
<1> DEFINE h == Head(queue)
           m == meter[h.client]
           s == [h EXCEPT !.upload = m.done, !.block = m.block, !.bytes = m.bytes]
<1>1. /\ queue # << >> /\ queue' = Tail(queue) /\ handed' = Append(handed, s)
      /\ UNCHANGED <<now, stage, meter, out, firstEnd>>
  BY DEF Handle
<1>2. /\ queue \in Seq(Published) /\ h \in Published /\ h = queue[1] /\ 1 \in DOMAIN queue
      /\ queue' \in Seq(Published)
      /\ \A i \in DOMAIN queue' : i + 1 \in DOMAIN queue /\ queue'[i] = queue[i + 1]
  BY <1>1, HeadTailProperties DEF MeterInv, MeterTypes
<1>3. h.client \in Clients /\ stage[h.client] # "away"
  BY <1>2, ClientFacts DEF MeterInv, QueuedOK
<1>4. PICK r \in Kinds, c \in Clients, at \in Nat : h = SampleFrom(r, c, at)
  BY <1>2 DEF Published
<1>5. m.done \in Nat /\ m.block \in Nat /\ m.bytes \in Nat /\ m.done = firstEnd[h.client]
  BY <1>3, MeterFacts DEF MeterOK
<1>6. s = Metered(r, c, at, m.done, m.block, m.bytes)
  BY <1>4 DEF Metered
<1>7. /\ s \in MeteredOnes /\ s.client = c /\ s.upload = m.done /\ s.block = m.block
      /\ s.bytes = m.bytes
  <2> HIDE DEF m, s
  <2>1. \A u, b, n \in Nat : LET x == Metered(r, c, at, u, b, n)
                            IN /\ x \in MeteredOnes /\ x.client = c
                               /\ x.upload = u /\ x.block = b /\ x.bytes = n
    BY SampleFacts
  <2> QED BY SMTT(30), <1>5, <1>6, <2>1
<1>8. h.client = c
  BY <1>4, SampleFacts
<1> HIDE DEF s
<1>9. /\ handed \in Seq(MeteredOnes) /\ handed' \in Seq(MeteredOnes) /\ DOMAIN handed = 1 .. Len(handed)
      /\ DOMAIN handed' = 1 .. (Len(handed) + 1) /\ handed'[Len(handed) + 1] = s
      /\ \A i \in 1 .. Len(handed) : handed'[i] = handed[i]
  BY <1>1, <1>7, AppendProperties DEF MeterInv, MeterTypes
<1>10. MeterTypes' /\ \A d \in Clients : MeterOK(d)'
  BY <1>1, <1>2, <1>9, PassStep, MeterFacts DEF MeterInv, MeterTypes
<1>11. ASSUME NEW i \in DOMAIN queue' PROVE QueuedOK(queue[i])'
  BY <1>1, <1>2, <1>11 DEF MeterInv, QueuedOK
<1>12. ASSUME NEW i \in DOMAIN handed' PROVE HandedOK(handed[i])'
  <2>1. CASE i \in 1 .. Len(handed)
    BY <1>1, <1>9, <2>1 DEF MeterInv, HandedOK
  <2>2. CASE i = Len(handed) + 1
    <3>1. m.block <= m.block /\ m.bytes <= m.bytes
      BY <1>5
    <3>2. handed'[i] = s
      BY <1>9, <2>2
    <3> QED BY <1>1, <1>3, <1>5, <1>7, <1>8, <3>1, <3>2 DEF HandedOK
  <2> QED BY <1>9, <1>12, <2>1, <2>2
<1> QED BY <1>10, <1>11, <1>12 DEF MeterInv

\* Every step keeps the part on meters.
LEMMA MeterStep == MeterInv /\ [TrafficNext]_<<trafficVars, vars>> => MeterInv'
<1> SUFFICES ASSUME MeterInv, [TrafficNext]_<<trafficVars, vars>> PROVE MeterInv'
  OBVIOUS
<1>1. ASSUME MeterTypes', \A d \in Clients : MeterOK(d)' /\ Grows(d), UNCHANGED <<queue, handed>>
      PROVE  MeterInv'
  BY <1>1, QueueStep DEF MeterInv
<1>2. ASSUME NEW c \in Clients, NEW w \in BOOLEAN, Arrive(c, w) PROVE MeterInv'
  BY <1>1, <1>2, ArriveMeter DEF Arrive, statVars
<1>3. ASSUME NEW c \in Clients, NEW n \in 0 .. 1, NEW eof \in BOOLEAN, Read(c, n, eof) PROVE MeterInv'
  BY <1>1, <1>3, ReadMeter DEF Read, statVars
<1>4. ASSUME NEW c \in Clients, WriteBegins(c) \/ WriteEnds(c) PROVE MeterInv'
  BY <1>1, <1>4, WriteMeter DEF WriteBegins, WriteEnds, statVars
<1>5. ASSUME NEW c \in Clients, Leave(c) PROVE MeterInv'
  <2>1. /\ out[c] = -1 /\ stage' = [stage EXCEPT ![c] = "gone"]
        /\ UNCHANGED <<now, meter, out, queue, handed, firstEnd>>
    BY <1>5 DEF Leave, statVars
  <2>2. now' \in Nat /\ now <= now' /\ stage' \in [Clients -> {"away", "running", "gone"}]
        /\ queue' \in Seq(Published) /\ handed' \in Seq(MeteredOnes)
    BY <2>1 DEF MeterInv, MeterTypes
  <2>3. \A d \in Clients : (stage[d] # "away" => stage'[d] # "away")
                           /\ (out[d] # -1 => stage'[d] = stage[d])
    BY <2>1 DEF MeterInv, MeterTypes
  <2> QED BY <1>1, <2>1, <2>2, <2>3, PassStep
<1>6. CASE Tick
  <2>1. now' = now + 1 /\ UNCHANGED <<stage, meter, out, queue, handed, firstEnd>>
    BY <1>6 DEF Tick, requestVars, statVars
  <2>2. now' \in Nat /\ now <= now' /\ stage' \in [Clients -> {"away", "running", "gone"}]
        /\ queue' \in Seq(Published) /\ handed' \in Seq(MeteredOnes)
    BY <2>1 DEF MeterInv, MeterTypes
  <2> QED BY <1>1, <2>1, <2>2, PassStep
<1>7. CASE Look \/ UNCHANGED <<trafficVars, vars>>
  <2>1. UNCHANGED <<now, stage, meter, out, queue, handed, firstEnd>>
    BY <1>7 DEF Look, requestVars, trafficVars
  <2> QED BY <2>1 DEF MeterInv, MeterTypes, MeterOK, QueuedOK, HandedOK
<1> QED BY <1>2, <1>3, <1>4, <1>5, <1>6, <1>7, PublishMeter, HandleMeter DEF TrafficNext

\* The part on meters holds at first.
LEMMA MeterInit == TrafficInit => MeterInv
<1> SUFFICES ASSUME TrafficInit PROVE MeterInv
  OBVIOUS
<1>1. MeterTypes
  <2>1. [started |-> 0, done |-> 0, block |-> 0, bytes |-> 0] \in Meters
    BY DEF Meters
  <2>2. << >> \in Seq(Published) /\ << >> \in Seq(MeteredOnes)
    OBVIOUS
  <2> QED BY <2>1, <2>2 DEF TrafficInit, MeterTypes
<1>2. \A c \in Clients : MeterOK(c)
  BY DEF TrafficInit, MeterOK
<1>3. DOMAIN queue = {} /\ DOMAIN handed = {}
  BY DEF TrafficInit
<1> QED BY <1>1, <1>2, <1>3 DEF MeterInv

----------------------------------------------------------------------------
(* The rows.                                                               *)

Tables == UNION {[T -> Nat] : T \in SUBSET Nat}
Runs   == {c \in Clients : token[c] # 0}

\* The tokens given out are at most the last.
RowsInv ==
    /\ inflight \in [last : Nat, rows : Tables]
    /\ token \in [Clients -> Nat] /\ \A c \in Clients : token[c] <= inflight.last
    /\ RowsMatch

\* The rows of requests in flight are of those whose token they bear.
LEMMA RowsFacts ==
    ASSUME RowsInv
    PROVE  /\ inflight.last \in Nat /\ inflight.rows \in [DOMAIN inflight.rows -> Nat]
           /\ \A u \in DOMAIN inflight.rows : u \in Nat /\ u <= inflight.last /\ u # 0
           /\ \A u : u \in DOMAIN inflight.rows <=> \E c \in Runs : u = token[c]
<1>1. inflight.last \in Nat /\ inflight.rows \in Tables
  BY DEF RowsInv
<1>2. inflight.rows \in [DOMAIN inflight.rows -> Nat]
  BY <1>1 DEF Tables
<1>3. \A u : u \in DOMAIN inflight.rows <=> \E c \in Runs : u = token[c]
  BY DEF RowsInv, RowsMatch, Runs
<1>4. \A c \in Runs : token[c] \in Nat /\ token[c] <= inflight.last /\ token[c] # 0
  BY DEF RowsInv, Runs
<1> QED BY <1>1, <1>2, <1>3, <1>4

\* A request begins: it has a row of its own.
LEMMA BeginRows ==
    ASSUME MeterInv, RowsInv, NEW c \in Clients, stage[c] = "away", Begin(c),
           stage' = [stage EXCEPT ![c] = "running"],
           meter'[c].started = now, \A d \in Clients \ {c} : meter'[d] = meter[d]
    PROVE  RowsInv'
<1> DEFINE t == inflight.last + 1
           rows == [u \in DOMAIN inflight.rows \cup {t} |-> IF u = t THEN now ELSE inflight.rows[u]]
<1>1. inflight' = [last |-> t, rows |-> rows] /\ token' = [token EXCEPT ![c] = t]
  BY DEF Begin
<1>2. t \in Nat /\ t # 0 /\ now \in Nat /\ inflight.last \in Nat /\ inflight.last < t
  BY RowsFacts DEF MeterInv, MeterTypes
<1>3. DOMAIN rows = DOMAIN inflight.rows \cup {t} /\ rows[t] = now
      /\ \A u \in DOMAIN inflight.rows : rows[u] = inflight.rows[u] /\ u # t
  BY <1>2, RowsFacts
<1>4. rows \in Tables
  <2>1. DOMAIN inflight.rows \cup {t} \in SUBSET Nat
    BY <1>2, RowsFacts
  <2>2. rows \in [DOMAIN inflight.rows \cup {t} -> Nat]
    BY <1>2, RowsFacts
  <2> QED BY <2>1, <2>2 DEF Tables
<1> HIDE DEF rows, t
<1>5. inflight'.last = t /\ inflight'.rows = rows /\ inflight' \in [last : Nat, rows : Tables]
  BY <1>1, <1>2, <1>4
<1>6. /\ token' \in [Clients -> Nat] /\ token'[c] = t /\ token[c] = 0
      /\ \A d \in Clients \ {c} : token'[d] = token[d] /\ stage'[d] = stage[d]
      /\ stage'[c] = "running"
      /\ \A d \in Clients : token[d] \in Nat /\ token[d] <= inflight.last
  BY <1>1, <1>2 DEF RowsInv, RowsMatch, MeterInv, MeterTypes
<1>7. \A d \in Clients : token'[d] <= inflight'.last
  BY <1>2, <1>5, <1>6
<1>8. Runs' = Runs \cup {c}
  BY <1>2, <1>6 DEF Runs
<1>9. DOMAIN inflight'.rows = {token'[d] : d \in Runs'}
  BY <1>3, <1>5, <1>6, <1>8, RowsFacts DEF Runs
<1>10. \A d \in Runs' : stage'[d] = "running" /\ inflight'.rows[token'[d]] = meter'[d].started
  <2>1. stage'[c] = "running" /\ inflight'.rows[token'[c]] = meter'[c].started
    BY <1>3, <1>5, <1>6
  <2>2. ASSUME NEW d \in Runs \ {c}
        PROVE  stage'[d] = "running" /\ inflight'.rows[token'[d]] = meter'[d].started
    <3>1. token[d] \in DOMAIN inflight.rows /\ token'[d] = token[d] /\ meter'[d] = meter[d]
      BY <1>6, RowsFacts DEF Runs
    <3>2. stage[d] = "running" /\ inflight.rows[token[d]] = meter[d].started
      BY DEF RowsInv, RowsMatch, Runs
    <3> QED BY <1>3, <1>5, <1>6, <3>1, <3>2 DEF Runs
  <2> QED BY <1>8, <2>1, <2>2
<1>11. \A d, e \in Runs' : token'[d] = token'[e] => d = e
  <2>1. \A d \in Runs \ {c} : token'[d] = token[d] /\ token'[d] # t
    BY <1>2, <1>6 DEF Runs
  <2>2. \A d, e \in Runs : token[d] = token[e] => d = e
    BY DEF RowsInv, RowsMatch, Runs
  <2> QED BY <1>6, <1>8, <2>1, <2>2
<1> QED BY <1>5, <1>6, <1>7, <1>9, <1>10, <1>11 DEF RowsInv, RowsMatch, Runs

\* A request ends: its row goes, and no other.
LEMMA EndRows ==
    ASSUME MeterInv, RowsInv, NEW c \in Clients, token[c] # 0, End(c),
           stage' = [stage EXCEPT ![c] = "gone"], UNCHANGED meter
    PROVE  RowsInv'
<1> DEFINE rows == [u \in DOMAIN inflight.rows \ {token[c]} |-> inflight.rows[u]]
<1>1. inflight' = [inflight EXCEPT !.rows = rows] /\ token' = [token EXCEPT ![c] = 0]
  BY DEF End
<1>2. DOMAIN rows = DOMAIN inflight.rows \ {token[c]} /\ \A u \in DOMAIN rows : rows[u] = inflight.rows[u]
  OBVIOUS
<1>3. rows \in Tables
  <2>1. DOMAIN inflight.rows \ {token[c]} \in SUBSET Nat
    BY RowsFacts
  <2>2. rows \in [DOMAIN inflight.rows \ {token[c]} -> Nat]
    BY RowsFacts
  <2> QED BY <2>1, <2>2 DEF Tables
<1> HIDE DEF rows
<1>4. inflight'.last = inflight.last /\ inflight'.rows = rows /\ inflight' \in [last : Nat, rows : Tables]
  BY <1>1, <1>3 DEF RowsInv
<1>5. /\ token' \in [Clients -> Nat] /\ token'[c] = 0
      /\ \A d \in Clients \ {c} : token'[d] = token[d] /\ stage'[d] = stage[d]
      /\ \A d \in Clients : token[d] \in Nat /\ token[d] <= inflight.last
  BY <1>1 DEF RowsInv, MeterInv, MeterTypes
<1>6. Runs' = Runs \ {c} /\ c \in Runs
  BY <1>5 DEF Runs
<1>7. \A d, e \in Runs : token[d] = token[e] => d = e
  BY DEF RowsInv, RowsMatch, Runs
<1>8. DOMAIN inflight'.rows = {token'[d] : d \in Runs'}
  <2>1. \A u : u \in DOMAIN rows <=> \E d \in Runs \ {c} : u = token[d]
    BY <1>2, <1>6, <1>7, RowsFacts
  <2>2. \A d \in Runs \ {c} : token'[d] = token[d]
    BY <1>5 DEF Runs
  <2> QED BY <1>4, <1>6, <2>1, <2>2
<1>9. ASSUME NEW d \in Runs'
      PROVE  stage'[d] = "running" /\ inflight'.rows[token'[d]] = meter'[d].started
  <2>1. d \in Runs /\ d # c /\ token'[d] = token[d] /\ stage'[d] = stage[d]
    BY <1>5, <1>6 DEF Runs
  <2>2. token[d] \in DOMAIN rows
    BY <1>2, <1>6, <1>7, <2>1, RowsFacts
  <2>3. stage[d] = "running" /\ inflight.rows[token[d]] = meter[d].started
    BY <2>1 DEF RowsInv, RowsMatch, Runs
  <2> QED BY <1>2, <1>4, <2>1, <2>2, <2>3
<1>10. \A d, e \in Runs' : token'[d] = token'[e] => d = e
  BY <1>5, <1>6, <1>7 DEF Runs
<1>11. \A d \in Clients : token'[d] <= inflight'.last
  BY <1>4, <1>5, RowsFacts
<1> QED BY <1>4, <1>5, <1>8, <1>9, <1>10, <1>11 DEF RowsInv, RowsMatch, Runs

\* What the rows rest on, when they do not change.
LEMMA SameRows ==
    ASSUME RowsInv, UNCHANGED <<inflight, token>>,
           \A c \in Clients : token[c] # 0 => /\ stage'[c] = stage[c]
                                              /\ meter'[c].started = meter[c].started
    PROVE  RowsInv'
  BY DEF RowsInv, RowsMatch

\* Every step keeps the part on rows.
LEMMA RowsStep == MeterInv /\ RowsInv /\ [TrafficNext]_<<trafficVars, vars>> => RowsInv'
<1> SUFFICES ASSUME MeterInv, RowsInv, [TrafficNext]_<<trafficVars, vars>> PROVE RowsInv'
  OBVIOUS
<1>0. /\ meter \in [Clients -> Meters] /\ stage \in [Clients -> {"away", "running", "gone"}]
      /\ \A c \in Clients : token[c] # 0 => stage[c] = "running"
  BY DEF MeterInv, MeterTypes, RowsInv, RowsMatch
<1>1. ASSUME NEW c \in Clients, NEW w \in BOOLEAN, Arrive(c, w) PROVE RowsInv'
  <2>1. /\ stage[c] = "away" /\ stage' = [stage EXCEPT ![c] = "running"]
        /\ meter' = [meter EXCEPT ![c] = [started |-> now, done |-> 0, block |-> 0, bytes |-> 0]]
    BY <1>1 DEF Arrive
  <2>2. /\ meter'[c].started = now /\ token[c] = 0
        /\ \A d \in Clients \ {c} : meter'[d] = meter[d] /\ stage'[d] = stage[d]
    BY <1>0, <2>1
  <2>3. CASE Begin(c)
    BY <2>1, <2>2, <2>3, BeginRows
  <2>4. CASE UNCHANGED <<inflight, token>>
    BY <2>2, <2>4, SameRows
  <2> QED BY <1>1, <2>3, <2>4 DEF Arrive
<1>2. ASSUME NEW c \in Clients, Leave(c) PROVE RowsInv'
  <2>1. stage' = [stage EXCEPT ![c] = "gone"] /\ UNCHANGED meter
    BY <1>2 DEF Leave
  <2>2. CASE token[c] # 0
    BY <1>2, <2>1, <2>2, EndRows DEF Leave
  <2>3. CASE token[c] = 0
    BY <1>0, <1>2, <2>1, <2>3, SameRows DEF Leave
  <2> QED BY <2>2, <2>3
<1>3. ASSUME NEW c \in Clients, NEW n \in 0 .. 1, NEW eof \in BOOLEAN, Read(c, n, eof) PROVE RowsInv'
  <2> DEFINE counted == [meter[c] EXCEPT !.bytes = @ + n]
             m == IF eof THEN MarkBodyDone(counted, Elapsed(c)) ELSE counted
  <2>1. meter' = [meter EXCEPT ![c] = m] /\ UNCHANGED <<stage, inflight, token>>
    BY <1>3 DEF Read
  <2>2. m.started = meter[c].started
    BY <1>0 DEF MarkBodyDone, Meters
  <2>3. \A d \in Clients : meter'[d].started = meter[d].started
    BY <1>0, <2>1, <2>2
  <2> QED BY <2>1, <2>3, SameRows
<1>4. ASSUME NEW c \in Clients, WriteEnds(c) PROVE RowsInv'
  <2>1. meter' = [meter EXCEPT ![c].block = @ + (now - out[c])] /\ UNCHANGED <<stage, inflight, token>>
    BY <1>4 DEF WriteEnds
  <2>2. \A d \in Clients : meter'[d].started = meter[d].started
    BY <1>0, <2>1 DEF Meters
  <2> QED BY <2>1, <2>2, SameRows
<1>5. ASSUME NEW c \in Clients, WriteBegins(c) \/ \E r \in Kinds : Publish(c, r) PROVE RowsInv'
  BY <1>5, SameRows DEF WriteBegins, Publish
<1>6. CASE Handle \/ Look \/ Tick
  BY <1>6, SameRows DEF Handle, Look, Tick, requestVars
<1>7. CASE UNCHANGED <<trafficVars, vars>>
  BY <1>7, SameRows DEF trafficVars
<1> QED BY <1>1, <1>2, <1>3, <1>4, <1>5, <1>6, <1>7 DEF TrafficNext

\* The part on rows holds at first.
LEMMA RowsInit == TrafficInit => RowsInv
<1> SUFFICES ASSUME TrafficInit PROVE RowsInv
  OBVIOUS
<1>1. inflight = [last |-> 0, rows |-> << >>] /\ token = [c \in Clients |-> 0]
  BY DEF TrafficInit
<1>2. << >> \in [{} -> Nat]
  OBVIOUS
<1>3. << >> \in Tables
  BY <1>2 DEF Tables
<1>4. inflight \in [last : Nat, rows : Tables] /\ DOMAIN inflight.rows = {} /\ inflight.last = 0
  BY <1>1, <1>3
<1> QED BY <1>1, <1>4 DEF RowsInv, RowsMatch

\* A sample says of the network no more than there was: the bytes that came, the
\* time to the first end of the body, the time that writes were blocked (the
\* meterBody and meterWriter of proxy/netmeter.go, read by HandleUsage).
THEOREM MetersAreTrue == TrafficSpec => []MeterTrue
<1>1. MeterInv => MeterTrue
  <2> SUFFICES ASSUME MeterInv, NEW i \in DOMAIN handed
               PROVE  LET s == handed[i]  m == meter[s.client]
                      IN /\ s.bytes <= m.bytes /\ s.block <= m.block
                         /\ m.block <= now - m.started
                         /\ s.upload \in {0, firstEnd[s.client]}
    BY DEF MeterTrue
  <2> DEFINE c == handed[i].client
  <2>1. handed[i] \in MeteredOnes
    BY DEF MeterInv, MeterTypes
  <2>2. c \in Clients
    BY <2>1, ClientFacts
  <2>3. meter[c].block <= now - meter[c].started
    BY <2>2, MeterFacts DEF MeterOK
  <2> QED BY <2>3 DEF MeterInv, HandedOK
<1> QED BY <1>1, MeterInit, MeterStep, PTL DEF TrafficSpec

\* The list of requests in flight has one row for each worthy request that is
\* running, since it arrived, and no other row (InFlight.Begin, End).
THEOREM RowsAreTheirs == TrafficSpec => []RowsMatch
<1>1. RowsInv => RowsMatch
  BY DEF RowsInv
<1> QED BY <1>1, MeterInit, MeterStep, RowsInit, RowsStep, PTL DEF TrafficSpec

----------------------------------------------------------------------------
(* The alarm.                                                              *)

\* What the collector hands to the alarm is what the alarm reads.
LEMMA ReadingFacts ==
    ASSUME NEW r \in Kinds, NEW c \in Clients, NEW at \in Nat,
           NEW u, NEW b, NEW n
    PROVE  Reading(Metered(r, c, at, u, b, n)) \in Samples
<1> DEFINE s == Metered(r, c, at, u, b, n)
<1>1. /\ s.failed = r.failed /\ s.status = r.status /\ s.cause = causeOf(r) /\ s.ttft = r.ttft
  BY DEF Metered, SampleFrom
<1>2. r.failed \in BOOLEAN /\ r.status \in Statuses /\ (~r.failed => r.status = 0)
  BY TrafficAssumption
<1>3. /\ ~r.failed => causeOf(r) # "canceled"
      /\ causeOf(r) = "canceled" => r.status = 0
  BY <1>2 DEF causeOf, Statuses
<1>4. (s.cause = "canceled") \in BOOLEAN /\ (s.ttft > 0) \in BOOLEAN
  OBVIOUS
<1>5. Reading(s) = [failed |-> r.failed, status |-> r.status,
                    canceled |-> causeOf(r) = "canceled", answered |-> r.ttft > 0]
  BY <1>1 DEF Reading
<1>6. (causeOf(r) = "canceled") \in BOOLEAN /\ (r.ttft > 0) \in BOOLEAN
  BY <1>1, <1>4
<1>7. ASSUME NEW canceled \in BOOLEAN, NEW answered \in BOOLEAN,
             canceled => r.failed /\ r.status = 0
      PROVE  [failed |-> r.failed, status |-> r.status, canceled |-> canceled,
              answered |-> answered] \in Samples
  BY <1>2, <1>7 DEF Samples
<1>8. causeOf(r) = "canceled" => r.failed /\ r.status = 0
  BY <1>2, <1>3
<1> QED BY <1>5, <1>6, <1>7, <1>8

\* A step of the traffic is one of the alarm, or none.
LEMMA AlarmStep ==
    ASSUME MeterInv, [TrafficNext]_<<trafficVars, vars>>
    PROVE  [Next]_vars
<1>1. CASE Handle
  <2> DEFINE h == Head(queue)
             m == meter[h.client]
             s == [h EXCEPT !.upload = m.done, !.block = m.block, !.bytes = m.bytes]
  <2>1. queue # << >> /\ HandleUsage(Reading(s))
    BY <1>1 DEF Handle
  <2>2. h \in Published
    BY <2>1, HeadTailProperties DEF MeterInv, MeterTypes
  <2>3. PICK r \in Kinds, c \in Clients, at \in Nat : h = SampleFrom(r, c, at)
    BY <2>2 DEF Published
  <2>4. s = Metered(r, c, at, m.done, m.block, m.bytes)
    BY <2>3 DEF Metered
  <2> HIDE DEF s, m, h
  <2>5. Reading(s) \in Samples
    BY <2>4, ReadingFacts
  <2> QED BY <2>1, <2>5 DEF Next
<1>2. CASE ~Handle
  BY <1>2 DEF TrafficNext, Arrive, Read, WriteBegins, WriteEnds, Leave, Publish, Look, Tick, statVars
<1> QED BY <1>1, <1>2

\* The collector drives the alarm as Health has it: whatever the traffic, each of
\* its steps is one of the tracker, or none (Collector.HandleUsage, Health.Observe).
THEOREM TrafficDrivesAlarm == TrafficSpec => Spec
<1>1. TrafficInit => Init
  BY DEF TrafficInit
<1>2. MeterInv /\ [TrafficNext]_<<trafficVars, vars>> => [Next]_vars
  BY AlarmStep
<1> QED BY <1>1, <1>2, MeterInit, MeterStep, PTL DEF TrafficSpec, Spec

----------------------------------------------------------------------------
(* Loops and orders.                                                       *)

\* Some natural numbers have a least.
LEMMA Least ==
    ASSUME NEW T, T \subseteq Nat, T # {}
    PROVE  \E x \in T : \A y \in T : x <= y
<1> DEFINE R == OpToRel(<, Nat)
<1>1. IsWellFoundedOn(R, Nat)
  BY NatLessThanWellFounded
<1>2. \A x, y \in Nat : x < y => <<x, y>> \in R
  BY DEF OpToRel
<1> HIDE DEF R
<1>3. PICK x \in T : \A y \in T : ~ (<<y, x>> \in R)
  BY <1>1, WFMin
<1>4. \A y \in T : ~ (y < x)
  BY <1>2, <1>3
<1>5. \A y \in T : x <= y
  BY <1>4
<1> QED BY <1>5

\* What holds of zero and, with a number, of the next, holds of all.
LEMMA CountsUp ==
    ASSUME NEW n \in Nat, NEW G, 0 \in G, \A i \in 0 .. n : i \in G /\ i < n => i + 1 \in G
    PROVE  \A i \in 0 .. n : i \in G
<1> DEFINE T == {i \in 0 .. n : i \notin G}
<1> SUFFICES ASSUME T # {} PROVE FALSE
  OBVIOUS
<1>1. PICK x \in T : \A y \in T : x <= y
  <2>1. T \subseteq Nat
    OBVIOUS
  <2> HIDE DEF T
  <2> QED BY <2>1, Least
<1>2. x \in 1 .. n /\ x \notin G
  OBVIOUS
<1>3. x - 1 \in 0 .. n /\ x - 1 < n /\ ~ (x <= x - 1)
  BY <1>2
<1>4. x - 1 \in G
  BY <1>1, <1>3
<1>5. (x - 1) + 1 \in G
  BY <1>3, <1>4
<1> QED BY <1>2, <1>5

\* A finite set that is not empty has an element whose key is the greatest.
LEMMA Greatest ==
    ASSUME NEW S, IsFiniteSet(S), S # {}, NEW key, \A x \in S : key[x] \in Int
    PROVE  \E x \in S : \A y \in S : key[y] <= key[x]
<1> DEFINE n == Cardinality(S)
           Has(T) == \E x \in T : \A y \in T : key[y] <= key[x]
           G == {m \in 0 .. n : \A T \in SUBSET S : T # {} /\ Cardinality(T) <= m => Has(T)}
<1>1. n \in Nat
  BY FS_CardinalityType
<1>2. \A T \in SUBSET S : IsFiniteSet(T) /\ Cardinality(T) \in Nat /\ Cardinality(T) <= n
  BY FS_Subset, FS_CardinalityType
<1>3. 0 \in G
  <2>1. \A T \in SUBSET S : Cardinality(T) <= 0 => T = {}
    BY <1>2, FS_EmptySet
  <2> QED BY <1>1, <2>1
<1>4. ASSUME NEW m \in 0 .. n, m \in G, m < n PROVE m + 1 \in G
  <2>1. ASSUME NEW T \in SUBSET S, T # {}, Cardinality(T) <= m + 1 PROVE Has(T)
    <3>1. PICK z \in T : TRUE
      BY <2>1
    <3>2. PICK U : U = T \ {z}
      OBVIOUS
    <3>3. U \in SUBSET S /\ Cardinality(U) = Cardinality(T) - 1
      BY <1>2, <3>1, <3>2, FS_RemoveElement
    <3>4. Cardinality(U) <= m
      BY <1>2, <2>1, <3>3
    <3>5. key[z] \in Int /\ \A y \in U : key[y] \in Int
      BY <3>3
    <3>6. CASE U = {}
      BY <3>2, <3>5, <3>6
    <3>7. CASE U # {}
      <4>1. PICK x \in U : \A y \in U : key[y] <= key[x]
        BY <1>4, <3>3, <3>4, <3>7
      <4>2. CASE key[z] <= key[x]
        BY <3>2, <4>1, <4>2
      <4>3. CASE ~(key[z] <= key[x])
        <5>1. \A y \in U : key[y] <= key[z]
          BY <3>5, <4>1, <4>3
        <5> QED BY <3>1, <3>2, <3>5, <5>1
      <4> QED BY <4>2, <4>3
    <3> QED BY <3>6, <3>7
  <2> HIDE DEF Has
  <2> QED BY <1>1, <1>4, <2>1
<1>5. n \in G
  <2> HIDE DEF G
  <2> QED BY <1>1, <1>3, <1>4, CountsUp
<1> HIDE DEF Has
<1>6. Has(S)
  BY <1>1, <1>5
<1> QED BY <1>6 DEF Has

\* The elements of a set, in an order in which their keys ascend.
Ascends(s, S, key) ==
    /\ s \in [1 .. Cardinality(S) -> S]
    /\ \A x \in S : \E i \in DOMAIN s : s[i] = x
    /\ \A i, j \in DOMAIN s : i < j => key[s[i]] <= key[s[j]]

\* One more element, with the greatest key, goes to the end.
LEMMA OneBehind ==
    ASSUME NEW m \in Nat, NEW T, NEW U, NEW x, NEW key, NEW s,
           IsFiniteSet(T), x \in T, U = T \ {x}, Cardinality(U) = m, Cardinality(T) = m + 1,
           \A y \in T : key[y] \in Int /\ key[y] <= key[x], Ascends(s, U, key)
    PROVE  \E g : Ascends(g, T, key)
<1> DEFINE g == [i \in 1 .. m + 1 |-> IF i = m + 1 THEN x ELSE s[i]]
<1>1. s \in [1 .. m -> U] /\ DOMAIN s = 1 .. m
  BY DEF Ascends
<1>2. g \in [1 .. Cardinality(T) -> T]
  BY <1>1
<1>3. DOMAIN g = 1 .. m + 1 /\ g[m + 1] = x /\ \A i \in 1 .. m : i \in 1 .. m + 1 /\ g[i] = s[i]
  OBVIOUS
<1> HIDE DEF g
<1>4. ASSUME NEW y \in T PROVE \E i \in DOMAIN g : g[i] = y
  <2>1. CASE y = x
    BY <1>3, <2>1
  <2>2. CASE y # x
    <3>1. PICK i \in 1 .. m : s[i] = y
      BY <1>1, <2>2 DEF Ascends
    <3> QED BY <1>3, <3>1
  <2> QED BY <2>1, <2>2
<1>5. ASSUME NEW i \in DOMAIN g, NEW j \in DOMAIN g, i < j PROVE key[g[i]] <= key[g[j]]
  <2>1. i \in 1 .. m
    BY <1>3, <1>5
  <2>2. CASE j = m + 1
    BY <1>1, <1>3, <2>1, <2>2
  <2>3. CASE j # m + 1
    <3>1. j \in 1 .. m
      BY <1>3, <2>3
    <3> QED BY <1>1, <1>3, <1>5, <2>1, <3>1 DEF Ascends
  <2> QED BY <2>2, <2>3
<1>6. Ascends(g, T, key)
  BY <1>2, <1>4, <1>5 DEF Ascends
<1> QED BY <1>6

\* Any finite set can be sorted.
LEMMA SortedIs ==
    ASSUME NEW S, IsFiniteSet(S), NEW key, \A x \in S : key[x] \in Int
    PROVE  Ascends(Sorted(S, key), S, key)
<1> DEFINE n == Cardinality(S)
           Can(T) == \E s : Ascends(s, T, key)
           G == {m \in 0 .. n : \A T \in SUBSET S : Cardinality(T) = m => Can(T)}
<1>1. n \in Nat
  BY FS_CardinalityType
<1>2. \A T \in SUBSET S : IsFiniteSet(T) /\ Cardinality(T) \in Nat /\ Cardinality(T) <= n
  BY FS_Subset, FS_CardinalityType
<1>3. 0 \in G
  <2>1. Can({})
    <3> DEFINE s == [i \in 1 .. 0 |-> 0]
    <3>1. Cardinality({}) = 0 /\ 1 .. 0 = {}
      BY FS_EmptySet
    <3>2. Ascends(s, {}, key)
      BY <3>1 DEF Ascends
    <3> QED BY <3>2
  <2>2. \A T \in SUBSET S : Cardinality(T) = 0 => T = {}
    BY <1>2, FS_EmptySet
  <2> HIDE DEF Can
  <2> QED BY <1>1, <2>1, <2>2
<1>4. ASSUME NEW m \in 0 .. n, m \in G, m < n PROVE m + 1 \in G
  <2>1. ASSUME NEW T \in SUBSET S, Cardinality(T) = m + 1 PROVE Can(T)
    <3>1. IsFiniteSet(T) /\ m \in Nat
      BY <1>1, <1>2
    <3>2. T # {}
      BY <2>1, <3>1, FS_EmptySet
    <3>3. \A y \in T : key[y] \in Int
      OBVIOUS
    <3>4. PICK x \in T : \A y \in T : key[y] <= key[x]
      BY <3>1, <3>2, <3>3, Greatest
    <3>5. PICK U : U = T \ {x}
      OBVIOUS
    <3>6. Cardinality(U) = (m + 1) - 1 /\ U \in SUBSET S
      BY <2>1, <3>1, <3>5, FS_RemoveElement
    <3>7. Cardinality(U) = m
      BY <3>1, <3>6
    <3>8. PICK s : Ascends(s, U, key)
      BY <1>4, <3>6, <3>7
    <3> QED BY <2>1, <3>1, <3>3, <3>4, <3>5, <3>7, <3>8, OneBehind
  <2> HIDE DEF Can
  <2> QED BY <1>1, <1>4, <2>1
<1>5. n \in G
  <2> HIDE DEF G
  <2> QED BY <1>1, <1>3, <1>4, CountsUp
<1>6. PICK s : Ascends(s, S, key)
  BY <1>1, <1>5
<1> QED BY <1>6 DEF Sorted, Ascends

----------------------------------------------------------------------------
(* The window.                                                             *)

\* The elements of a are those of b at the places I, each once.
Matches(f, a, b, I) ==
    /\ f \in [DOMAIN a -> I]
    /\ \A i \in I : \E k \in DOMAIN a : f[k] = i
    /\ \A k, l \in DOMAIN a : f[k] = f[l] => k = l
    /\ \A k \in DOMAIN a : a[k] = b[f[k]]
Shows(a, b, I) == \E f : Matches(f, a, b, I)

\* Of some kind of element there are as many in a as at the places of b.
LEMMA ShowsCount ==
    ASSUME NEW a, NEW b, NEW I, Shows(a, b, I), NEW J, NEW K, IsFiniteSet(DOMAIN a),
           J \subseteq DOMAIN a, K \subseteq I,
           \A k \in DOMAIN a, i \in I : a[k] = b[i] => (k \in J <=> i \in K)
    PROVE  Cardinality(J) = Cardinality(K) /\ IsFiniteSet(K)
<1>1. PICK f : Matches(f, a, b, I)
  BY DEF Shows
<1>2. \A k \in DOMAIN a : f[k] \in I /\ (k \in J <=> f[k] \in K)
  BY <1>1 DEF Matches
<1> DEFINE g == [k \in J |-> f[k]]
<1>3. g \in Bijection(J, K)
  <2>1. g \in [J -> K]
    BY <1>2
  <2>2. \A i \in K : \E k \in J : g[k] = i
    BY <1>1, <1>2 DEF Matches
  <2>3. \A k, l \in J : g[k] = g[l] => k = l
    BY <1>1 DEF Matches
  <2> QED BY <2>1, <2>2, <2>3 DEF Bijection, Injection, Surjection, IsInjective
<1>4. IsFiniteSet(J)
  BY FS_Subset
<1> HIDE DEF g
<1>5. ExistsBijection(J, K)
  BY <1>3 DEF ExistsBijection
<1> QED BY <1>4, <1>5, FS_Bijection

\* Nothing is shown of no places.
LEMMA ShowsNone == \A b : Shows(<< >>, b, {})
<1> SUFFICES ASSUME NEW b PROVE Shows(<< >>, b, {})
  OBVIOUS
<1> DEFINE f == [k \in {} |-> k]
<1>1. Matches(f, << >>, b, {})
  BY DEF Matches
<1> QED BY <1>1 DEF Shows

\* One element more at the end, of one place more.
LEMMA ShowsMore ==
    ASSUME NEW S, NEW a \in Seq(S), NEW e \in S, NEW b, NEW I, NEW j, j \notin I, b[j] = e,
           Shows(a, b, I)
    PROVE  Shows(Append(a, e), b, I \cup {j})
<1>1. PICK f : Matches(f, a, b, I)
  BY DEF Shows
<1>2. PICK p : p = Append(a, e)
  OBVIOUS
<1>3. PICK n : n = Len(a)
  OBVIOUS
<1>4. /\ n \in Nat /\ DOMAIN a = 1 .. n /\ DOMAIN p = 1 .. n + 1 /\ p[n + 1] = e
      /\ \A k \in 1 .. n : p[k] = a[k]
  BY <1>2, <1>3, AppendProperties, LenProperties
<1> DEFINE g == [k \in 1 .. n + 1 |-> IF k = n + 1 THEN j ELSE f[k]]
<1>5. /\ DOMAIN g = 1 .. n + 1 /\ g[n + 1] = j /\ n + 1 \in 1 .. n + 1
      /\ \A k \in 1 .. n : k \in 1 .. n + 1 /\ g[k] = f[k] /\ f[k] \in I
      /\ \A k \in 1 .. n + 1 : k = n + 1 \/ k \in 1 .. n
  BY <1>1, <1>4 DEF Matches
<1>6. g \in [DOMAIN p -> I \cup {j}]
  BY <1>4, <1>5
<1> HIDE DEF g
<1>7. \A i \in I \cup {j} : \E k \in DOMAIN p : g[k] = i
  BY <1>1, <1>4, <1>5 DEF Matches
<1>8. \A k, l \in DOMAIN p : g[k] = g[l] => k = l
  BY <1>1, <1>4, <1>5 DEF Matches
<1>9. \A k \in DOMAIN p : p[k] = b[g[k]]
  BY <1>1, <1>4, <1>5 DEF Matches
<1>10. Matches(g, p, b, I \cup {j})
  BY <1>6, <1>7, <1>8, <1>9 DEF Matches
<1> QED BY <1>2, <1>10 DEF Shows

\* What b has elsewhere does not matter.
LEMMA ShowsElsewhere ==
    ASSUME NEW a, NEW b, NEW c, NEW I, Shows(a, b, I), \A i \in I : c[i] = b[i]
    PROVE  Shows(a, c, I)
<1>1. PICK f : Matches(f, a, b, I)
  BY DEF Shows
<1>2. Matches(f, a, c, I)
  BY <1>1 DEF Matches
<1> QED BY <1>2 DEF Shows

\* A choice from what is shown is a choice from the places.
LEMMA ShowsThrough ==
    ASSUME NEW a, NEW b, NEW c, NEW I, NEW J, NEW K, Shows(a, b, J), Shows(b, c, I),
           J \subseteq DOMAIN b, K \subseteq I,
           \A k \in DOMAIN b, i \in I : b[k] = c[i] => (k \in J <=> i \in K)
    PROVE  Shows(a, c, K)
<1>1. PICK f : Matches(f, a, b, J)
  BY DEF Shows
<1>2. PICK h : Matches(h, b, c, I)
  BY DEF Shows
<1>3. \A k \in DOMAIN b : h[k] \in I /\ (k \in J <=> h[k] \in K)
  BY <1>2 DEF Matches
<1> DEFINE g == [k \in DOMAIN a |-> h[f[k]]]
<1>4. \A k \in DOMAIN a : f[k] \in J /\ f[k] \in DOMAIN b /\ g[k] = h[f[k]]
  BY <1>1 DEF Matches
<1>5. g \in [DOMAIN a -> K]
  BY <1>3, <1>4
<1> HIDE DEF g
<1>6. ASSUME NEW i \in K PROVE \E k \in DOMAIN a : g[k] = i
  <2>1. PICK l \in DOMAIN b : h[l] = i
    BY <1>2 DEF Matches
  <2>2. l \in J
    BY <1>3, <2>1
  <2>3. PICK k \in DOMAIN a : f[k] = l
    BY <1>1, <2>2 DEF Matches
  <2> QED BY <1>4, <2>1, <2>3
<1>7. \A k, l \in DOMAIN a : g[k] = g[l] => k = l
  BY <1>1, <1>2, <1>4 DEF Matches
<1>8. \A k \in DOMAIN a : a[k] = c[g[k]]
  BY <1>1, <1>2, <1>4 DEF Matches
<1>9. Matches(g, a, c, K)
  BY <1>5, <1>6, <1>7, <1>8 DEF Matches
<1> QED BY <1>9 DEF Shows

\* The loop of prune: what is kept of the first n samples.
Keeping(f, ss, t, n) ==
    f = [i \in 0 .. n |-> IF i = 0 THEN << >>
                          ELSE IF ss[i].at >= t - Window THEN Append(f[i - 1], ss[i]) ELSE f[i - 1]]

\* The loop ends, whatever it is given.
LEMMA PruneEnds ==
    ASSUME NEW ss, NEW t, Len(ss) \in Nat
    PROVE  \E f : Keeping(f, ss, t, Len(ss)) /\ prune(ss, t) = f[Len(ss)]
<1> DEFINE n == Len(ss)
           G == {m \in 0 .. n : \E f : Keeping(f, ss, t, m)}
<1>0. n \in Nat
  OBVIOUS
<1>1. 0 \in G
  <2> DEFINE f == [i \in 0 .. 0 |-> << >>]
  <2>1. Keeping(f, ss, t, 0)
    BY DEF Keeping
  <2> QED BY <2>1
<1>2. ASSUME NEW m \in 0 .. n, m \in G, m < n PROVE m + 1 \in G
  <2>1. PICK f : Keeping(f, ss, t, m)
    BY <1>2
  <2> DEFINE Next1(i) == IF ss[i].at >= t - Window THEN Append(f[i - 1], ss[i]) ELSE f[i - 1]
             g == [i \in 0 .. m + 1 |-> IF i = m + 1 THEN Next1(i) ELSE f[i]]
  <2>2. /\ DOMAIN g = 0 .. m + 1 /\ g = [i \in 0 .. m + 1 |-> g[i]] /\ g[m + 1] = Next1(m + 1)
        /\ \A i \in 0 .. m : g[i] = f[i]
    OBVIOUS
  <2>3. \A i \in 0 .. m : f[i] = IF i = 0 THEN << >> ELSE Next1(i)
    BY <2>1 DEF Keeping
  <2> HIDE DEF g
  <2>4. \A i \in 0 .. m + 1 : i = m + 1 \/ i \in 0 .. m
    OBVIOUS
  <2>5. ASSUME NEW i \in 1 .. m + 1 PROVE i # 0 /\ g[i - 1] = f[i - 1]
    <3>1. i # 0 /\ i - 1 \in 0 .. m
      OBVIOUS
    <3> QED BY <2>2, <3>1
  <2>6. \A i \in 0 .. m + 1 :
           g[i] = IF i = 0 THEN << >>
                  ELSE IF ss[i].at >= t - Window THEN Append(g[i - 1], ss[i]) ELSE g[i - 1]
    <3> SUFFICES ASSUME NEW i \in 0 .. m + 1
                 PROVE  g[i] = IF i = 0 THEN << >>
                               ELSE IF ss[i].at >= t - Window THEN Append(g[i - 1], ss[i])
                               ELSE g[i - 1]
      OBVIOUS
    <3>1. g[i] = IF i = 0 THEN << >> ELSE Next1(i)
      <4>1. CASE i = m + 1
        BY <2>2, <4>1
      <4>2. CASE i \in 0 .. m
        BY <2>2, <2>3, <4>2
      <4> QED BY <2>4, <4>1, <4>2
    <3>2. CASE i = 0
      BY <3>1, <3>2
    <3>3. CASE i # 0
      <4>1. i \in 1 .. m + 1
        BY <3>3
      <4>2. g[i - 1] = f[i - 1]
        BY <2>5, <4>1
      <4> QED BY <3>1, <3>3, <4>2
    <3> QED BY <3>2, <3>3
  <2>7. Keeping(g, ss, t, m + 1)
    BY <2>2, <2>6 DEF Keeping
  <2> QED BY <1>2, <2>7
<1>3. n \in G
  <2> HIDE DEF G
  <2>1. PICK H : H = G
    OBVIOUS
  <2>2. 0 \in H /\ \A i \in 0 .. n : i \in H /\ i < n => i + 1 \in H
    BY <1>1, <1>2, <2>1
  <2>3. \A i \in 0 .. n : i \in H
    <3> HIDE DEF n, G
    <3> QED BY <1>0, <2>2, CountsUp
  <2> QED BY <1>0, <2>1, <2>3
<1>4. PICK f : f = CHOOSE g : Keeping(g, ss, t, n)
  OBVIOUS
<1>5. Keeping(f, ss, t, n)
  BY <1>3, <1>4
<1>6. prune(ss, t) = f[n]
  BY <1>4 DEF prune, Keeping
<1> QED BY <1>5, <1>6

\* What prune keeps is what began within the window, each sample once.
LEMMA PruneKeeps ==
    ASSUME NEW S, NEW ss \in Seq(S), NEW t
    PROVE  /\ prune(ss, t) \in Seq(S)
           /\ Shows(prune(ss, t), ss, {k \in DOMAIN ss : ss[k].at >= t - Window})
<1> DEFINE n == Len(ss)
           In(m) == {k \in 1 .. m : ss[k].at >= t - Window}
<1>1. n \in Nat /\ DOMAIN ss = 1 .. n /\ \A k \in 1 .. n : ss[k] \in S
  BY LenProperties
<1>2. PICK f : Keeping(f, ss, t, n) /\ prune(ss, t) = f[n]
  BY <1>1, PruneEnds
<1> DEFINE G == {m \in 0 .. n : f[m] \in Seq(S) /\ Shows(f[m], ss, In(m))}
<1>3. 0 \in G
  <2>1. f[0] = << >>
    BY <1>1, <1>2 DEF Keeping
  <2>2. In(0) = {}
    OBVIOUS
  <2>3. << >> \in Seq(S)
    BY EmptySeq
  <2>4. f[0] \in Seq(S) /\ Shows(f[0], ss, In(0))
    BY <2>1, <2>2, <2>3, ShowsNone
  <2>5. 0 \in 0 .. n
    BY <1>1
  <2> HIDE DEF In
  <2> QED BY <2>4, <2>5
<1>4. ASSUME NEW m \in 0 .. n, m \in G, m < n PROVE m + 1 \in G
  <2>1. m + 1 \in 1 .. n /\ m + 1 \in 0 .. n /\ (m + 1) - 1 = m /\ m + 1 # 0
    BY <1>1, <1>4
  <2>2. f[m + 1] = IF ss[m + 1].at >= t - Window THEN Append(f[m], ss[m + 1]) ELSE f[m]
    BY <1>2, <2>1 DEF Keeping
  <2>3. ss[m + 1] \in S
    BY <1>1, <2>1
  <2>4. f[m] \in Seq(S) /\ Shows(f[m], ss, In(m))
    BY <1>4
  <2>5. m + 1 \notin In(m)
    BY <1>1
  <2>6. In(m + 1) = IF ss[m + 1].at >= t - Window THEN In(m) \cup {m + 1} ELSE In(m)
    <3>1. \A k : k \in 1 .. m + 1 <=> k \in 1 .. m \/ k = m + 1
      BY <1>1
    <3> QED BY <3>1
  <2> HIDE DEF In
  <2>7. CASE ss[m + 1].at >= t - Window
    <3>1. f[m + 1] = Append(f[m], ss[m + 1]) /\ In(m + 1) = In(m) \cup {m + 1}
      BY <2>2, <2>6, <2>7
    <3>2. f[m + 1] \in Seq(S)
      BY <2>3, <2>4, <3>1, AppendProperties
    <3>3. Shows(Append(f[m], ss[m + 1]), ss, In(m) \cup {m + 1})
      BY <2>3, <2>4, <2>5, ShowsMore
    <3> QED BY <2>1, <3>1, <3>2, <3>3
  <2>8. CASE ~(ss[m + 1].at >= t - Window)
    BY <2>1, <2>2, <2>4, <2>6, <2>8
  <2> QED BY <2>7, <2>8
<1>5. n \in G
  <2> HIDE DEF G
  <2>1. \A i \in 0 .. n : i \in G /\ i < n => i + 1 \in G
    BY <1>4
  <2> HIDE DEF n
  <2> QED BY <1>1, <1>3, <2>1, CountsUp
<1> QED BY <1>1, <1>2, <1>5

----------------------------------------------------------------------------
(* The tally.                                                              *)

\* What is measured in a sample.
Measured(s) ==
    /\ s.at \in Nat /\ s.quota \in Int /\ s.quota >= -1
    /\ s.input \in Nat /\ (s.input > 0 => s.read \in 0 .. s.input)

\* The header's number becomes at most percent, or none.
LEMMA QuotaIsNumber ==
    ASSUME NEW h, h.set \in BOOLEAN, h.value \in Int
    PROVE  quotaFromHeaders(h) \in Int /\ quotaFromHeaders(h) >= -1
<1> DEFINE q == quotaFromHeaders(h)
<1>1. CASE ~h.set \/ h.value < 0
  <2>1. q = -1
    BY <1>1 DEF quotaFromHeaders
  <2> QED BY <2>1
<1>3. CASE ~(~h.set \/ h.value < 0) /\ h.value \in 0 .. 100
  <2>1. q = h.value
    BY <1>3 DEF quotaFromHeaders
  <2> QED BY <1>3, <2>1
<1>4. CASE ~(~h.set \/ h.value < 0) /\ h.value \notin 0 .. 100
  <2>1. q = IF h.value > 10000 THEN 100 ELSE h.value \div 100
    BY <1>4 DEF quotaFromHeaders
  <2>2. h.value \in Nat
    BY <1>4
  <2> HIDE DEF q
  <2>3. q \in Nat
    BY <2>1, <2>2
  <2> QED BY <2>3 DEF q
<1> QED BY <1>1, <1>3, <1>4

\* Every sample that is handed over is measured: what cannot be trusted of its
\* accounting counts for nothing.
LEMMA MeasuredFacts == \A s \in MeteredOnes : Measured(s)
<1> SUFFICES ASSUME NEW s \in MeteredOnes PROVE Measured(s)
  OBVIOUS
<1>1. PICK r \in Kinds, c \in Clients, at \in Nat, u \in Nat, b \in Nat, n \in Nat :
          s = Metered(r, c, at, u, b, n)
  BY DEF MeteredOnes
<1>2. /\ s.at = at /\ s.quota = quotaFromHeaders(r.quota)
      /\ s.input = trustedInputTokens(r) /\ s.read = r.read
  BY <1>1 DEF Metered, SampleFrom
<1>3. /\ r.valid /\ r.complete => r.input \in Nat /\ (r.input > 0 => r.read \in 0 .. r.input)
      /\ r.quota.set \in BOOLEAN /\ r.quota.value \in Int
  BY TrafficAssumption
<1>4. s.quota \in Int /\ s.quota >= -1
  BY <1>2, <1>3, QuotaIsNumber
<1>5. CASE r.valid /\ r.complete
  <2>1. s.input = r.input
    BY <1>2, <1>5 DEF trustedInputTokens
  <2> QED BY <1>2, <1>3, <1>4, <1>5, <2>1 DEF Measured
<1>6. CASE ~(r.valid /\ r.complete)
  <2>1. s.input = 0
    BY <1>2, <1>6 DEF trustedInputTokens
  <2> QED BY <1>2, <1>3, <1>4, <2>1 DEF Measured
<1> QED BY <1>5, <1>6

\* What the loop of Snapshot knows after n samples.
RpmOK(q, ss, t, n) == q.rpm = Cardinality({k \in 1 .. n : ss[k].at > t - Minute})

QuotaOK(q, ss, n) ==
    LET quoted == {k \in 1 .. n : ss[k].quota >= 0}
    IN /\ quoted = {} => q.quota = NoQuota
       /\ quoted # {} =>
            /\ \E k \in quoted : q.quota.first = ss[k].quota /\ q.quota.firstAt = ss[k].at
            /\ \E k \in quoted : q.quota.last = ss[k].quota /\ q.quota.lastAt = ss[k].at
            /\ \A k \in quoted : ss[k].at <= q.quota.lastAt

CacheOK(q) == q.read \in Nat /\ q.input \in Nat /\ q.read <= q.input

RoutesOK(q, ss, n) ==
    /\ DOMAIN q.routes = {Route(ss[k]) : k \in 1 .. n}
    /\ \A r \in DOMAIN q.routes :
          q.routes[r].count = Cardinality({k \in 1 .. n : Route(ss[k]) = r})

TallyOK(q, ss, t, n) ==
    RpmOK(q, ss, t, n) /\ QuotaOK(q, ss, n) /\ CacheOK(q) /\ RoutesOK(q, ss, n)

\* One place more counts one.
LEMMA OneMore ==
    ASSUME NEW n \in Nat, NEW A, A \subseteq 1 .. n
    PROVE  Cardinality(A \cup {n + 1}) = Cardinality(A) + 1
<1>1. IsFiniteSet(A)
  <2>1. IsFiniteSet(1 .. n)
    BY FS_Interval
  <2> QED BY <2>1, FS_Subset
<1>2. n + 1 \notin A
  OBVIOUS
<1> QED BY <1>1, <1>2, FS_AddElement

\* The loop counts the last minute.
LEMMA RpmStep ==
    ASSUME NEW q, NEW ss, NEW t, NEW n \in Nat, RpmOK(q, ss, t, n)
    PROVE  RpmOK(Tallied(q, ss[n + 1], t), ss, t, n + 1)
<1> DEFINE A == {k \in 1 .. n : ss[k].at > t - Minute}
           B == {k \in 1 .. n + 1 : ss[k].at > t - Minute}
<1>1. PICK hit \in BOOLEAN : hit <=> ss[n + 1].at > t - Minute
  OBVIOUS
<1>2. Tallied(q, ss[n + 1], t).rpm = IF hit THEN q.rpm + 1 ELSE q.rpm
  BY <1>1 DEF Tallied
<1>3. B = IF hit THEN A \cup {n + 1} ELSE A
  <2>1. \A k : k \in 1 .. n + 1 <=> k \in 1 .. n \/ k = n + 1
    OBVIOUS
  <2> QED BY <1>1, <2>1
<1>4. A \subseteq 1 .. n
  OBVIOUS
<1>5. q.rpm = Cardinality(A)
  BY DEF RpmOK
<1> HIDE DEF A, B
<1>6. Cardinality(A \cup {n + 1}) = Cardinality(A) + 1
  BY <1>4, OneMore
<1>7. Tallied(q, ss[n + 1], t).rpm = Cardinality(B)
  BY <1>2, <1>3, <1>5, <1>6
<1> QED BY <1>7 DEF RpmOK, B

\* The loop keeps an earliest and a latest reading.
LEMMA QuotaStep ==
    ASSUME NEW q, NEW ss, NEW t, NEW n \in Nat, \A k \in 1 .. n + 1 : Measured(ss[k]),
           QuotaOK(q, ss, n)
    PROVE  QuotaOK(Tallied(q, ss[n + 1], t), ss, n + 1)
<1> DEFINE A == {k \in 1 .. n : ss[k].quota >= 0}
           B == {k \in 1 .. n + 1 : ss[k].quota >= 0}
<1>1. PICK s : s = ss[n + 1]
  OBVIOUS
<1>2. PICK o : o = q.quota
  OBVIOUS
<1>3. PICK p : p = Scan(o, s)
  OBVIOUS
<1>4. Tallied(q, ss[n + 1], t).quota = p
  BY <1>1, <1>2, <1>3 DEF Tallied
<1>5. /\ \A k \in A : k \in B /\ ss[k].quota \in Int /\ ss[k].quota >= 0 /\ ss[k].at \in Nat
      /\ s.quota \in Int /\ s.at \in Nat
      /\ \A k \in B : k \in A \/ k = n + 1
      /\ n + 1 \in B <=> s.quota >= 0
  <2>1. \A k : k \in 1 .. n + 1 <=> k \in 1 .. n \/ k = n + 1
    OBVIOUS
  <2> QED BY <1>1, <2>1 DEF Measured
<1>6. /\ A = {} => o = NoQuota
      /\ A # {} => /\ \E k \in A : o.first = ss[k].quota /\ o.firstAt = ss[k].at
                   /\ \E k \in A : o.last = ss[k].quota /\ o.lastAt = ss[k].at
                   /\ \A k \in A : ss[k].at <= o.lastAt
  BY <1>2 DEF QuotaOK
<1> HIDE DEF A, B
<1>7. CASE s.quota < 0
  <2>1. p = o
    BY <1>3, <1>7 DEF Scan
  <2>2. B = A
    <3>1. n + 1 \notin B
      BY <1>5, <1>7
    <3> QED BY <1>5, <3>1
  <2> QED BY <1>4, <1>6, <2>1, <2>2 DEF QuotaOK, B
<1>8. CASE ~(s.quota < 0)
  <2>1. n + 1 \in B
    BY <1>5, <1>8
  <2>2. /\ p.first = IF o.first < 0 \/ s.at < o.firstAt THEN s.quota ELSE o.first
        /\ p.firstAt = IF o.first < 0 \/ s.at < o.firstAt THEN s.at ELSE o.firstAt
        /\ p.last = IF o.last < 0 \/ s.at > o.lastAt THEN s.quota ELSE o.last
        /\ p.lastAt = IF o.last < 0 \/ s.at > o.lastAt THEN s.at ELSE o.lastAt
    BY <1>3, <1>8 DEF Scan
  <2>3. CASE A = {}
    <3>1. o.first = -1 /\ o.last = -1
      BY <1>6, <2>3 DEF NoQuota
    <3>2. p.first = s.quota /\ p.firstAt = s.at /\ p.last = s.quota /\ p.lastAt = s.at
      BY <2>2, <3>1
    <3>3. \A k \in B : ss[k].at <= p.lastAt
      BY <1>1, <1>5, <2>3, <3>2
    <3> QED BY <1>1, <1>4, <2>1, <3>2, <3>3 DEF QuotaOK, B
  <2>4. CASE A # {}
    <3>1. PICK i \in A : o.first = ss[i].quota /\ o.firstAt = ss[i].at
      BY <1>6, <2>4
    <3>2. PICK j \in A : o.last = ss[j].quota /\ o.lastAt = ss[j].at
      BY <1>6, <2>4
    <3>3. \E k \in B : p.first = ss[k].quota /\ p.firstAt = ss[k].at
      <4>1. CASE s.at < o.firstAt
        BY <1>1, <2>1, <2>2, <4>1
      <4>2. CASE ~(s.at < o.firstAt)
        <5>1. ~(o.first < 0)
          BY <1>5, <3>1
        <5> QED BY <1>5, <2>2, <3>1, <4>2, <5>1
      <4> QED BY <4>1, <4>2
    <3>4. ~(o.last < 0) /\ o.lastAt \in Nat
      BY <1>5, <3>2
    <3>5. \E k \in B : p.last = ss[k].quota /\ p.lastAt = ss[k].at
      <4>1. CASE s.at > o.lastAt
        BY <1>1, <2>1, <2>2, <4>1
      <4>2. CASE ~(s.at > o.lastAt)
        BY <1>5, <2>2, <3>2, <3>4, <4>2
      <4> QED BY <4>1, <4>2
    <3>6. s.at <= p.lastAt /\ o.lastAt <= p.lastAt /\ p.lastAt \in Nat
      BY <1>5, <2>2, <3>4
    <3>7. \A k \in A : ss[k].at <= p.lastAt
      BY <1>5, <1>6, <2>4, <3>4, <3>6
    <3>8. \A k \in B : ss[k].at <= p.lastAt
      BY <1>1, <1>5, <3>6, <3>7
    <3>9. B # {}
      BY <2>1
    <3> QED BY <1>4, <3>3, <3>5, <3>8, <3>9 DEF QuotaOK, B
  <2> QED BY <2>3, <2>4
<1> QED BY <1>7, <1>8

\* The loop's two sides of the cache's share.
LEMMA CacheStep ==
    ASSUME NEW q, NEW s, NEW t, Measured(s), CacheOK(q)
    PROVE  CacheOK(Tallied(q, s, t))
<1> DEFINE g == Tallied(q, s, t)
<1>1. /\ g.read = IF s.input > 0 THEN q.read + s.read ELSE q.read
      /\ g.input = IF s.input > 0 THEN q.input + s.input ELSE q.input
  BY DEF Tallied
<1> HIDE DEF g
<1>2. g.read \in Nat /\ g.input \in Nat /\ g.read <= g.input
  BY <1>1 DEF Measured, CacheOK
<1> QED BY <1>2 DEF CacheOK, g

\* The loop counts a sample on its route.
LEMMA RouteStep ==
    ASSUME NEW q, NEW ss, NEW t, NEW n \in Nat, RoutesOK(q, ss, n)
    PROVE  RoutesOK(Tallied(q, ss[n + 1], t), ss, n + 1)
<1> DEFINE At(r) == {k \in 1 .. n : Route(ss[k]) = r}
           Now(r) == {k \in 1 .. n + 1 : Route(ss[k]) = r}
<1>1. PICK o : o = q.routes
  OBVIOUS
<1>2. PICK d : d = Route(ss[n + 1])
  OBVIOUS
<1>3. PICK p : p = OnRoute(o, ss[n + 1])
  OBVIOUS
<1>4. Tallied(q, ss[n + 1], t).routes = p
  BY <1>1, <1>3 DEF Tallied
<1>5. \A k : k \in 1 .. n + 1 <=> k \in 1 .. n \/ k = n + 1
  OBVIOUS
<1>6. /\ DOMAIN p = DOMAIN o \cup {d}
      /\ \A r \in DOMAIN o : r # d => p[r].count = o[r].count
      /\ d \in DOMAIN o => p[d].count = o[d].count + 1
      /\ d \notin DOMAIN o => p[d].count = 0 + 1
  <2>1. p = [r \in DOMAIN o \cup {d} |->
               LET agg == IF r \in DOMAIN o THEN o[r] ELSE [count |-> 0, ttft |-> 0]
               IN IF r = d THEN [count |-> agg.count + 1, ttft |-> agg.ttft + ss[n + 1].ttft]
                  ELSE agg]
    BY <1>2, <1>3 DEF OnRoute
  <2> QED BY <2>1
<1>7. /\ DOMAIN o = {Route(ss[k]) : k \in 1 .. n}
      /\ \A r \in DOMAIN o : o[r].count = Cardinality(At(r))
  BY <1>1 DEF RoutesOK
<1>8. \A r : /\ At(r) \subseteq 1 .. n
             /\ Now(r) = IF r = d THEN At(r) \cup {n + 1} ELSE At(r)
  BY <1>2, <1>5
<1>9. d \notin DOMAIN o => At(d) = {}
  BY <1>7
<1> HIDE DEF At, Now
<1>10. Cardinality(Now(d)) = Cardinality(At(d)) + 1
  <2>1. Cardinality(At(d) \cup {n + 1}) = Cardinality(At(d)) + 1
    BY <1>8, OneMore
  <2> QED BY <1>8, <2>1
<1>11. DOMAIN p = {Route(ss[k]) : k \in 1 .. n + 1}
  BY <1>2, <1>5, <1>6, <1>7
<1>12. ASSUME NEW r \in DOMAIN p PROVE p[r].count = Cardinality(Now(r))
  <2>1. CASE r # d
    BY <1>6, <1>7, <1>8, <1>12, <2>1
  <2>2. CASE r = d /\ d \in DOMAIN o
    BY <1>6, <1>7, <1>10, <2>2
  <2>3. CASE r = d /\ d \notin DOMAIN o
    <3>1. Cardinality(At(d)) = 0
      BY <1>9, <2>3, FS_EmptySet
    <3> QED BY <1>6, <1>10, <2>3, <3>1
  <2> QED BY <2>1, <2>2, <2>3
<1> QED BY <1>4, <1>11, <1>12 DEF RoutesOK, Now

\* The loop of Snapshot, over n samples.
Tallying(f, ss, t, n) ==
    f = [i \in 0 .. n |-> IF i = 0 THEN Tally0 ELSE Tallied(f[i - 1], ss[i], t)]

\* The loop ends, whatever it is given.
LEMMA TallyEnds ==
    ASSUME NEW ss, NEW t, Len(ss) \in Nat
    PROVE  \E f : Tallying(f, ss, t, Len(ss)) /\ Tally(ss, t) = f[Len(ss)]
<1> DEFINE n == Len(ss)
           G == {m \in 0 .. n : \E f : Tallying(f, ss, t, m)}
<1>0. n \in Nat
  OBVIOUS
<1>1. 0 \in G
  <2> DEFINE f == [i \in 0 .. 0 |-> Tally0]
  <2>1. Tallying(f, ss, t, 0)
    BY DEF Tallying
  <2> QED BY <2>1
<1>2. ASSUME NEW m \in 0 .. n, m \in G, m < n PROVE m + 1 \in G
  <2>1. PICK f : Tallying(f, ss, t, m)
    BY <1>2
  <2> DEFINE Next1(i) == Tallied(f[i - 1], ss[i], t)
             g == [i \in 0 .. m + 1 |-> IF i = m + 1 THEN Next1(i) ELSE f[i]]
  <2>2. /\ DOMAIN g = 0 .. m + 1 /\ g = [i \in 0 .. m + 1 |-> g[i]] /\ g[m + 1] = Next1(m + 1)
        /\ \A i \in 0 .. m : g[i] = f[i]
    OBVIOUS
  <2>3. \A i \in 0 .. m : f[i] = IF i = 0 THEN Tally0 ELSE Next1(i)
    BY <2>1 DEF Tallying
  <2> HIDE DEF g
  <2>4. \A i \in 0 .. m + 1 : i = m + 1 \/ i \in 0 .. m
    OBVIOUS
  <2>5. ASSUME NEW i \in 1 .. m + 1 PROVE i # 0 /\ g[i - 1] = f[i - 1]
    <3>1. i # 0 /\ i - 1 \in 0 .. m
      OBVIOUS
    <3> QED BY <2>2, <3>1
  <2>6. ASSUME NEW i \in 0 .. m + 1
        PROVE  g[i] = IF i = 0 THEN Tally0 ELSE Tallied(g[i - 1], ss[i], t)
    <3>1. g[i] = IF i = 0 THEN Tally0 ELSE Next1(i)
      <4>1. CASE i = m + 1
        BY <2>2, <4>1
      <4>2. CASE i \in 0 .. m
        BY <2>2, <2>3, <4>2
      <4> QED BY <2>4, <4>1, <4>2
    <3>2. CASE i = 0
      BY <3>1, <3>2
    <3>3. CASE i # 0
      <4>1. i \in 1 .. m + 1
        BY <3>3
      <4>2. g[i - 1] = f[i - 1]
        BY <2>5, <4>1
      <4> QED BY <3>1, <3>3, <4>2
    <3> QED BY <3>2, <3>3
  <2>7. Tallying(g, ss, t, m + 1)
    BY <2>2, <2>6 DEF Tallying
  <2> QED BY <1>2, <2>7
<1>3. n \in G
  <2>1. PICK H : H = G
    OBVIOUS
  <2>2. 0 \in H /\ \A i \in 0 .. n : i \in H /\ i < n => i + 1 \in H
    BY <1>1, <1>2, <2>1
  <2>3. \A i \in 0 .. n : i \in H
    <3> HIDE DEF n, G
    <3> QED BY <1>0, <2>2, CountsUp
  <2> QED BY <1>0, <2>1, <2>3
<1>4. PICK f : f = CHOOSE g : Tallying(g, ss, t, n)
  OBVIOUS
<1>5. Tallying(f, ss, t, n)
  BY <1>3, <1>4
<1>6. Tally(ss, t) = f[n]
  BY <1>4 DEF Tally, Tallying
<1> QED BY <1>5, <1>6

\* The tally of no sample.
LEMMA TallyNone ==
    ASSUME NEW ss, NEW t
    PROVE  TallyOK(Tally0, ss, t, 0)
<1>1. Cardinality({}) = 0
  BY FS_EmptySet
<1>2. 1 .. 0 = {}
  OBVIOUS
<1>3. RpmOK(Tally0, ss, t, 0)
  <2>1. {k \in 1 .. 0 : ss[k].at > t - Minute} = {}
    BY <1>2
  <2> QED BY <1>1, <2>1 DEF RpmOK, Tally0
<1>4. QuotaOK(Tally0, ss, 0)
  <2>1. {k \in 1 .. 0 : ss[k].quota >= 0} = {}
    BY <1>2
  <2>2. Tally0.quota = NoQuota
    BY DEF Tally0
  <2> QED BY <2>1, <2>2 DEF QuotaOK
<1>5. CacheOK(Tally0)
  BY DEF CacheOK, Tally0
<1>6. RoutesOK(Tally0, ss, 0)
  <2>1. DOMAIN Tally0.routes = {}
    BY DEF Tally0
  <2>2. {Route(ss[k]) : k \in 1 .. 0} = {}
    BY <1>2
  <2> QED BY <2>1, <2>2 DEF RoutesOK
<1> QED BY <1>3, <1>4, <1>5, <1>6 DEF TallyOK

\* What Snapshot tallies is so of all samples.
LEMMA TallyIs ==
    ASSUME NEW ss \in Seq(MeteredOnes), NEW t
    PROVE  TallyOK(Tally(ss, t), ss, t, Len(ss))
<1>1. PICK n \in Nat : n = Len(ss) /\ DOMAIN ss = 1 .. n
  BY LenProperties
<1>2. \A k \in 1 .. n : Measured(ss[k])
  BY <1>1, MeasuredFacts
<1>3. PICK f : Tallying(f, ss, t, n) /\ Tally(ss, t) = f[n]
  BY <1>1, TallyEnds
<1>4. PICK H : H = {m \in 0 .. n : TallyOK(f[m], ss, t, m)}
  OBVIOUS
<1>5. 0 \in H
  <2>1. f[0] = Tally0
    BY <1>3 DEF Tallying
  <2> QED BY <1>4, <2>1, TallyNone
<1>6. ASSUME NEW m \in 0 .. n, m \in H, m < n PROVE m + 1 \in H
  <2>1. m + 1 \in 0 .. n /\ m + 1 \in 1 .. n /\ m \in Nat /\ (m + 1) - 1 = m /\ m + 1 # 0
    BY <1>6
  <2>2. f[m + 1] = Tallied(f[m], ss[m + 1], t)
    BY <1>3, <2>1 DEF Tallying
  <2>3. TallyOK(f[m], ss, t, m)
    BY <1>4, <1>6
  <2>4. \A k \in 1 .. m + 1 : Measured(ss[k])
    BY <1>2, <2>1
  <2>5. Measured(ss[m + 1])
    BY <1>2, <2>1
  <2>6. RpmOK(f[m + 1], ss, t, m + 1)
    BY <2>1, <2>2, <2>3, RpmStep DEF TallyOK
  <2>7. QuotaOK(f[m + 1], ss, m + 1)
    BY <2>1, <2>2, <2>3, <2>4, QuotaStep DEF TallyOK
  <2>8. CacheOK(f[m + 1])
    BY <2>2, <2>3, <2>5, CacheStep DEF TallyOK
  <2>9. RoutesOK(f[m + 1], ss, m + 1)
    BY <2>1, <2>2, <2>3, RouteStep DEF TallyOK
  <2> QED BY <1>4, <2>1, <2>6, <2>7, <2>8, <2>9 DEF TallyOK
<1>7. n \in H
  <2>1. \A i \in 0 .. n : i \in H
    BY <1>5, <1>6, CountsUp
  <2> QED BY <2>1
<1> QED BY <1>1, <1>3, <1>4, <1>7

----------------------------------------------------------------------------
(* The panel's numbers.                                                    *)

\* The samples are those, of all that were handed over, that began within the
\* window as it was when the last of them came.
Within(t) == {i \in DOMAIN handed : handed[i].at >= t - Window}
WindowInv ==
    /\ samples \in Seq(MeteredOnes)
    /\ \E t \in Nat : t <= now /\ Shows(samples, handed, Within(t))

\* What is pruned at a later time shows the window at that time.
LEMMA PrunedIs ==
    ASSUME NEW ss \in Seq(MeteredOnes), NEW hh \in Seq(MeteredOnes), NEW u \in Nat, NEW t \in Nat,
           t <= u, NEW I, I \subseteq DOMAIN hh, \A i \in DOMAIN hh : hh[i].at >= t - Window => i \in I,
           Shows(ss, hh, I)
    PROVE  /\ prune(ss, u) \in Seq(MeteredOnes)
           /\ Shows(prune(ss, u), hh, {i \in DOMAIN hh : hh[i].at >= u - Window})
<1> DEFINE J == {k \in DOMAIN ss : ss[k].at >= u - Window}
           K == {i \in DOMAIN hh : hh[i].at >= u - Window}
<1>1. prune(ss, u) \in Seq(MeteredOnes) /\ Shows(prune(ss, u), ss, J)
  BY PruneKeeps
<1>2. J \subseteq DOMAIN ss
  OBVIOUS
<1>3. K \subseteq I
  <2>1. ASSUME NEW i \in K PROVE i \in I
    <3>1. hh[i] \in MeteredOnes /\ hh[i].at >= u - Window
      OBVIOUS
    <3>2. hh[i].at \in Nat /\ Window \in Nat
      BY <3>1, MeasuredFacts, TrafficAssumption DEF Measured
    <3>3. hh[i].at >= t - Window
      BY <3>1, <3>2
    <3> QED BY <3>3
  <2> QED BY <2>1
<1>4. \A k \in DOMAIN ss, i \in I : ss[k] = hh[i] => (k \in J <=> i \in K)
  OBVIOUS
<1> HIDE DEF J, K
<1>5. Shows(prune(ss, u), hh, K)
  BY <1>1, <1>2, <1>3, <1>4, ShowsThrough
<1> QED BY <1>1, <1>5 DEF K

\* The collector takes a sample.
LEMMA WindowHandle ==
    ASSUME MeterInv, MeterInv', WindowInv, Handle
    PROVE  WindowInv'
<1>1. PICK t \in Nat : t <= now /\ Shows(samples, handed, Within(t))
  BY DEF WindowInv
<1>2. PICK s : samples' = prune(Append(samples, s), now) /\ handed' = Append(handed, s) /\ now' = now
  BY DEF Handle
<1>3. /\ now \in Nat /\ handed \in Seq(MeteredOnes) /\ handed' \in Seq(MeteredOnes)
      /\ samples \in Seq(MeteredOnes)
  BY DEF MeterInv, MeterTypes, WindowInv
<1>4. PICK n \in Nat : n = Len(handed)
  BY <1>3, LenProperties
<1>5. PICK hh : hh = Append(handed, s)
  OBVIOUS
<1>6. /\ DOMAIN handed = 1 .. n /\ DOMAIN hh = 1 .. n + 1 /\ hh[n + 1] = s
      /\ \A i \in 1 .. n : hh[i] = handed[i]
      /\ hh \in Seq(MeteredOnes) /\ s \in MeteredOnes
  <2>1. /\ DOMAIN handed = 1 .. n /\ DOMAIN hh = 1 .. n + 1 /\ hh[n + 1] = s
        /\ \A i \in 1 .. n : hh[i] = handed[i]
    BY <1>3, <1>4, <1>5
  <2>2. hh \in Seq(MeteredOnes) /\ n + 1 \in DOMAIN hh
    BY <1>2, <1>3, <1>5, <2>1
  <2> QED BY <2>1, <2>2
<1>7. PICK I : I = Within(t)
  OBVIOUS
<1>8. I \subseteq 1 .. n /\ (\A i \in 1 .. n : handed[i].at >= t - Window => i \in I)
  BY <1>6, <1>7 DEF Within
<1>9. Shows(samples, hh, I)
  <2>1. \A i \in I : hh[i] = handed[i]
    BY <1>6, <1>8
  <2> QED BY <1>1, <1>7, <2>1, ShowsElsewhere
<1>10. n + 1 \notin I
  BY <1>8
<1>11. PICK ss : ss = Append(samples, s)
  OBVIOUS
<1>12. Shows(ss, hh, I \cup {n + 1}) /\ ss \in Seq(MeteredOnes)
  BY <1>3, <1>6, <1>9, <1>10, <1>11, ShowsMore
<1>13. PICK J : J = I \cup {n + 1}
  OBVIOUS
<1>14. /\ J \subseteq DOMAIN hh
       /\ \A i \in DOMAIN hh : hh[i].at >= t - Window => i \in J
  BY <1>6, <1>8, <1>13
<1>15. /\ prune(ss, now) \in Seq(MeteredOnes)
       /\ Shows(prune(ss, now), hh, {i \in DOMAIN hh : hh[i].at >= now - Window})
  BY <1>1, <1>3, <1>6, <1>12, <1>13, <1>14, PrunedIs
<1>16. samples' = prune(ss, now) /\ handed' = hh
  BY <1>2, <1>5, <1>11
<1>17. PICK u \in Nat : u = now
  BY <1>3
<1>18. Within(u)' = {i \in DOMAIN hh : hh[i].at >= u - Window}
  BY <1>16 DEF Within
<1>19. /\ samples' \in Seq(MeteredOnes) /\ Shows(samples', handed', Within(u)')
       /\ u <= now'
  BY <1>2, <1>15, <1>16, <1>17, <1>18
<1> QED BY <1>19 DEF WindowInv

\* A panel looks.
LEMMA WindowLook ==
    ASSUME MeterInv, WindowInv, Look
    PROVE  WindowInv'
<1>1. PICK t \in Nat : t <= now /\ Shows(samples, handed, Within(t))
  BY DEF WindowInv
<1>2. samples' = prune(samples, now) /\ handed' = handed /\ now' = now
  BY DEF Look
<1>3. now \in Nat /\ handed \in Seq(MeteredOnes) /\ samples \in Seq(MeteredOnes)
  BY DEF MeterInv, MeterTypes, WindowInv
<1>4. PICK I : I = Within(t)
  OBVIOUS
<1>5. I \subseteq DOMAIN handed /\ \A i \in DOMAIN handed : handed[i].at >= t - Window => i \in I
  BY <1>4 DEF Within
<1>6. PICK u \in Nat : u = now
  BY <1>3
<1>7. /\ prune(samples, u) \in Seq(MeteredOnes)
      /\ Shows(prune(samples, u), handed, {i \in DOMAIN handed : handed[i].at >= u - Window})
  BY <1>1, <1>3, <1>4, <1>5, <1>6, PrunedIs
<1>8. Within(u)' = {i \in DOMAIN handed : handed[i].at >= u - Window}
  BY <1>2 DEF Within
<1>9. samples' = prune(samples, u)
  BY <1>2, <1>6
<1>10. /\ samples' \in Seq(MeteredOnes) /\ Shows(samples', handed', Within(u)')
       /\ u <= now'
  BY <1>2, <1>6, <1>7, <1>8, <1>9
<1> QED BY <1>10 DEF WindowInv

\* No other step changes a sample, and time goes on.
LEMMA WindowStep ==
    MeterInv /\ WindowInv /\ [TrafficNext]_<<trafficVars, vars>> => WindowInv'
<1> SUFFICES ASSUME MeterInv, WindowInv, [TrafficNext]_<<trafficVars, vars>> PROVE WindowInv'
  OBVIOUS
<1>1. CASE Handle
  BY <1>1, MeterStep, WindowHandle
<1>2. CASE Look
  BY <1>2, WindowLook
<1>3. CASE ~Handle /\ ~Look
  <2>1. UNCHANGED <<samples, handed>> /\ (now' = now \/ now' = now + 1)
    BY <1>3 DEF TrafficNext, Arrive, Read, WriteBegins, WriteEnds, Leave, Publish, Tick,
                statVars, trafficVars
  <2>2. now \in Nat
    BY DEF MeterInv, MeterTypes
  <2>3. PICK t \in Nat : t <= now /\ Shows(samples, handed, Within(t))
    BY DEF WindowInv
  <2>4. samples' = samples /\ handed' = handed /\ t <= now'
    BY <2>1, <2>2, <2>3
  <2>5. Within(t)' = Within(t)
    BY <2>4 DEF Within
  <2> QED BY <2>3, <2>4, <2>5 DEF WindowInv
<1> QED BY <1>1, <1>2, <1>3

\* Nothing is held at first.
LEMMA WindowInit == TrafficInit => WindowInv
<1> SUFFICES ASSUME TrafficInit PROVE WindowInv
  OBVIOUS
<1>1. samples = << >> /\ handed = << >> /\ now = 0
  BY DEF TrafficInit
<1>2. Within(0) = {}
  BY <1>1 DEF Within
<1>3. Shows(<< >>, handed, {})
  BY ShowsNone
<1>4. Shows(samples, handed, Within(0))
  BY <1>1, <1>2, <1>3
<1>5. 0 \in Nat /\ 0 <= now /\ samples \in Seq(MeteredOnes)
  BY <1>1
<1> QED BY <1>4, <1>5 DEF WindowInv

\* What is shown is at the places, and the other way round.
LEMMA ShownMeans ==
    ASSUME NEW ss, NEW hh, NEW I, Shows(ss, hh, I)
    PROVE  /\ \A k \in DOMAIN ss : \E i \in I : ss[k] = hh[i]
           /\ \A i \in I : \E k \in DOMAIN ss : ss[k] = hh[i]
BY DEF Shows, Matches

\* The recent ones are the newest, as many as the panel lists.
LEMMA RecentIs ==
    ASSUME NEW ss \in Seq(MeteredOnes), NEW x \in DOMAIN ss
    PROVE  \/ \E k \in DOMAIN Recent(ss) : Recent(ss)[k] = ss[x]
           \/ /\ Len(Recent(ss)) = RecentCap
              /\ \A k \in DOMAIN Recent(ss) : ss[x].at <= Recent(ss)[k].at
<1>1. PICK n \in Nat : n = Len(ss) /\ DOMAIN ss = 1 .. n
  BY LenProperties
<1>2. \A k \in 1 .. n : ss[k] \in MeteredOnes /\ ss[k].at \in Nat
  BY <1>1, MeasuredFacts DEF Measured
<1>3. PICK key : key = [i \in DOMAIN ss |-> -ss[i].at]
  OBVIOUS
<1>4. \A i \in 1 .. n : key[i] = -ss[i].at /\ key[i] \in Int
  BY <1>1, <1>2, <1>3
<1>5. PICK newest : newest = Sorted(DOMAIN ss, key)
  OBVIOUS
<1>6. Ascends(newest, 1 .. n, key)
  <2>1. IsFiniteSet(1 .. n)
    BY FS_Interval
  <2> QED BY <1>1, <1>4, <1>5, <2>1, SortedIs
<1>7. /\ newest \in [1 .. n -> 1 .. n]
      /\ \A y \in 1 .. n : \E p \in 1 .. n : newest[p] = y
      /\ \A p, r \in 1 .. n : p < r => key[newest[p]] <= key[newest[r]]
  <2>1. Cardinality(1 .. n) = n
    BY FS_Interval
  <2> QED BY <1>6, <2>1 DEF Ascends
<1>8. PICK m : m = IF n > RecentCap THEN RecentCap ELSE n
  OBVIOUS
<1>9. m \in Nat /\ m <= n /\ (m < n => m = RecentCap)
  BY <1>1, <1>8, TrafficAssumption
<1>10. PICK z : z = Recent(ss)
  OBVIOUS
<1>11. z = [k \in 1 .. m |-> ss[newest[k]]]
  BY <1>1, <1>3, <1>5, <1>8, <1>10 DEF Recent
<1>12. DOMAIN z = 1 .. m /\ \A k \in 1 .. m : z[k] = ss[newest[k]] /\ k \in 1 .. n
  BY <1>9, <1>11
<1>13. Len(z) = m
  <2>1. z \in [1 .. m -> MeteredOnes]
    <3>1. ASSUME NEW k \in 1 .. m PROVE ss[newest[k]] \in MeteredOnes
      <4>1. newest[k] \in 1 .. n
        BY <1>7, <1>12
      <4> QED BY <1>2, <4>1
    <3> QED BY <1>11, <3>1
  <2>2. z \in Seq(MeteredOnes)
    BY <1>9, <2>1, SeqDef
  <2> QED BY <1>9, <1>12, <2>2, LenProperties
<1>14. PICK p \in 1 .. n : newest[p] = x
  BY <1>1, <1>7
<1>15. CASE p <= m
  <2>1. p \in 1 .. m /\ z[p] = ss[x]
    BY <1>12, <1>14, <1>15
  <2> QED BY <1>10, <1>12, <2>1
<1>16. CASE ~(p <= m)
  <2>1. Len(z) = RecentCap
    BY <1>9, <1>13, <1>16
  <2>2. ASSUME NEW k \in 1 .. m PROVE ss[x].at <= z[k].at
    <3>1. k \in 1 .. n /\ k < p
      BY <1>9, <1>16
    <3>2. key[newest[k]] <= key[x]
      BY <1>7, <1>14, <3>1
    <3>3. newest[k] \in 1 .. n /\ x \in 1 .. n
      BY <1>1, <1>7, <3>1
    <3>4. -ss[newest[k]].at <= -ss[x].at
      BY <1>4, <3>2, <3>3
    <3>5. ss[newest[k]].at \in Nat /\ ss[x].at \in Nat
      BY <1>2, <3>3
    <3>6. ss[x].at <= ss[newest[k]].at
      BY <3>4, <3>5
    <3> QED BY <1>12, <3>6
  <2> QED BY <1>10, <1>12, <2>1, <2>2
<1> QED BY <1>15, <1>16

\* The places, of some, of the samples after t, and of those on route r.
Later(ss, S, t) == {k \in S : ss[k].at > t}
On(ss, S, r)    == {k \in S : Route(ss[k]) = r}

\* As many samples of a kind are shown as there are at the places.
LEMMA CountsShown ==
    ASSUME NEW ss \in Seq(MeteredOnes), NEW hh, NEW I, Shows(ss, hh, I)
    PROVE  /\ Len(ss) = Cardinality(I)
           /\ \A t : Cardinality(Later(ss, DOMAIN ss, t)) = Cardinality(Later(hh, I, t))
           /\ \A r : Cardinality(On(ss, DOMAIN ss, r)) = Cardinality(On(hh, I, r))
<1>1. PICK n \in Nat : n = Len(ss) /\ DOMAIN ss = 1 .. n
  BY LenProperties
<1>2. IsFiniteSet(DOMAIN ss) /\ Cardinality(DOMAIN ss) = n
  <2>1. IsFiniteSet(1 .. n) /\ Cardinality(1 .. n) = n
    BY FS_Interval
  <2> QED BY <1>1, <2>1
<1>3. Len(ss) = Cardinality(I)
  <2>1. \A k \in DOMAIN ss, i \in I : ss[k] = hh[i] => (k \in DOMAIN ss <=> i \in I)
    OBVIOUS
  <2>2. Cardinality(DOMAIN ss) = Cardinality(I)
    BY <1>2, <2>1, ShowsCount
  <2> QED BY <1>1, <1>2, <2>2
<1>4. ASSUME NEW t PROVE Cardinality(Later(ss, DOMAIN ss, t)) = Cardinality(Later(hh, I, t))
  <2>1. Later(ss, DOMAIN ss, t) \subseteq DOMAIN ss /\ Later(hh, I, t) \subseteq I
    BY DEF Later
  <2>2. \A k \in DOMAIN ss, i \in I :
           ss[k] = hh[i] => (k \in Later(ss, DOMAIN ss, t) <=> i \in Later(hh, I, t))
    BY DEF Later
  <2> QED BY <1>2, <2>1, <2>2, ShowsCount
<1>5. ASSUME NEW r PROVE Cardinality(On(ss, DOMAIN ss, r)) = Cardinality(On(hh, I, r))
  <2>1. On(ss, DOMAIN ss, r) \subseteq DOMAIN ss /\ On(hh, I, r) \subseteq I
    BY DEF On
  <2>2. \A k \in DOMAIN ss, i \in I :
           ss[k] = hh[i] => (k \in On(ss, DOMAIN ss, r) <=> i \in On(hh, I, r))
    BY DEF On
  <2> QED BY <1>2, <2>1, <2>2, ShowsCount
<1> QED BY <1>3, <1>4, <1>5

\* The readings shown are of the places' samples.
LEMMA QuotaShown ==
    ASSUME NEW ss \in Seq(MeteredOnes), NEW hh, NEW I, Shows(ss, hh, I), NEW q,
           QuotaOK(q, ss, Len(ss)), NEW Q, Q = {i \in I : hh[i].quota >= 0}
    PROVE  /\ Q = {} <=> q.quota.last = -1
           /\ Q # {} => \E i \in Q : /\ q.quota.last = hh[i].quota
                                    /\ \A j \in Q : hh[j].at <= hh[i].at
           /\ Trend(q.quota) # 0 => \E i, j \in Q : hh[i].at # hh[j].at
<1>1. PICK n \in Nat : n = Len(ss) /\ DOMAIN ss = 1 .. n
  BY LenProperties
<1>2. PICK A : A = {k \in 1 .. n : ss[k].quota >= 0}
  OBVIOUS
<1>3. /\ A = {} => q.quota = NoQuota
      /\ A # {} => /\ \E k \in A : q.quota.first = ss[k].quota /\ q.quota.firstAt = ss[k].at
                   /\ \E k \in A : q.quota.last = ss[k].quota /\ q.quota.lastAt = ss[k].at
                   /\ \A k \in A : ss[k].at <= q.quota.lastAt
  BY <1>1, <1>2 DEF QuotaOK
<1>4. /\ \A k \in A : \E i \in Q : ss[k] = hh[i]
      /\ \A i \in Q : \E k \in A : ss[k] = hh[i]
  <2>1. /\ \A k \in 1 .. n : \E i \in I : ss[k] = hh[i]
        /\ \A i \in I : \E k \in 1 .. n : ss[k] = hh[i]
    BY <1>1, ShownMeans
  <2> QED BY <1>2, <2>1
<1>5. \A k \in A : ss[k].quota >= 0 /\ ss[k].quota \in Int
  BY <1>1, <1>2, MeasuredFacts DEF Measured
<1>6. CASE A = {}
  <2>1. Q = {}
    BY <1>4, <1>6
  <2>2. q.quota.last = -1 /\ q.quota.firstAt = 0 /\ q.quota.lastAt = 0
    BY <1>3, <1>6 DEF NoQuota
  <2>3. Trend(q.quota) = 0
    BY <2>2 DEF Trend
  <2> QED BY <2>1, <2>2, <2>3
<1>7. CASE A # {}
  <2>1. PICK a \in A : q.quota.first = ss[a].quota /\ q.quota.firstAt = ss[a].at
    BY <1>3, <1>7
  <2>2. PICK b \in A : q.quota.last = ss[b].quota /\ q.quota.lastAt = ss[b].at
    BY <1>3, <1>7
  <2>3. PICK i \in Q : ss[b] = hh[i]
    BY <1>4
  <2>4. PICK j \in Q : ss[a] = hh[j]
    BY <1>4
  <2>5. q.quota.last # -1
    BY <1>5, <2>2
  <2>6. \A l \in Q : hh[l].at <= hh[i].at
    BY <1>3, <1>4, <1>7, <2>2, <2>3
  <2>7. ASSUME Trend(q.quota) # 0 PROVE hh[i].at # hh[j].at
    <3>1. q.quota.firstAt # q.quota.lastAt
      BY <2>7 DEF Trend
    <3> QED BY <2>1, <2>2, <2>3, <2>4, <3>1
  <2> QED BY <2>2, <2>3, <2>5, <2>6, <2>7
<1> QED BY <1>6, <1>7

\* The panel's numbers are those of the requests that began within the window.
LEMMA NumbersHold == MeterInv /\ WindowInv => NumbersTrue
<1> SUFFICES ASSUME MeterInv, WindowInv PROVE NumbersTrue
  OBVIOUS
<1>1. now \in Nat /\ handed \in Seq(MeteredOnes) /\ samples \in Seq(MeteredOnes)
  BY DEF MeterInv, MeterTypes, WindowInv
<1>2. PICK began : began = Within(now)
  OBVIOUS
<1>3. PICK ss : ss = prune(samples, now)
  OBVIOUS
<1>4. ss \in Seq(MeteredOnes) /\ Shows(ss, handed, began)
  <2>1. PICK t \in Nat : t <= now /\ Shows(samples, handed, Within(t))
    BY DEF WindowInv
  <2>2. PICK I : I = Within(t)
    OBVIOUS
  <2>3. I \subseteq DOMAIN handed /\ \A i \in DOMAIN handed : handed[i].at >= t - Window => i \in I
    BY <2>2 DEF Within
  <2>4. began = {i \in DOMAIN handed : handed[i].at >= now - Window}
    BY <1>2 DEF Within
  <2> QED BY <1>1, <1>3, <2>1, <2>2, <2>3, <2>4, PrunedIs
<1>5. PICK n \in Nat : n = Len(ss) /\ DOMAIN ss = 1 .. n
  BY <1>4, LenProperties
<1>6. PICK q : q = Tally(ss, now)
  OBVIOUS
<1>7. TallyOK(q, ss, now, n)
  BY <1>4, <1>5, <1>6, TallyIs
<1>8. PICK snap : snap = Snapshot(now)
  OBVIOUS
<1>9. /\ snap.total = n /\ snap.rpm = q.rpm /\ snap.recent = Recent(ss)
      /\ snap.quota = q.quota.last /\ snap.trend = Trend(q.quota)
      /\ snap.cache.read = q.read /\ snap.cache.input = q.input
  BY <1>3, <1>5, <1>6, <1>8 DEF Snapshot
<1>10. /\ {a.route : a \in snap.active} = DOMAIN q.routes
       /\ \A a \in snap.active : a.route \in DOMAIN q.routes /\ a.count = q.routes[a.route].count
  <2>1. PICK e : e = [r \in DOMAIN q.routes |->
                        [route |-> r, count |-> q.routes[r].count,
                         pct |-> (100 * q.routes[r].count) \div n,
                         ttft |-> q.routes[r].ttft \div q.routes[r].count]]
    OBVIOUS
  <2>2. snap.active = {e[r] : r \in DOMAIN q.routes}
    BY <1>3, <1>5, <1>6, <1>8, <2>1 DEF Snapshot
  <2>3. \A r \in DOMAIN q.routes : e[r].route = r /\ e[r].count = q.routes[r].count
    BY <2>1
  <2> QED BY <2>2, <2>3
<1>11. PICK Q : Q = {i \in began : handed[i].quota >= 0}
  OBVIOUS
<1>13. snap.total = Cardinality(began)
  BY <1>4, <1>5, <1>9, CountsShown
<1>14. snap.rpm = Cardinality(Later(handed, began, now - Minute))
  <2>1. q.rpm = Cardinality(Later(ss, DOMAIN ss, now - Minute))
    BY <1>5, <1>7 DEF TallyOK, RpmOK, Later
  <2>2. Cardinality(Later(ss, DOMAIN ss, now - Minute))
        = Cardinality(Later(handed, began, now - Minute))
    BY <1>4, CountsShown
  <2> QED BY <1>9, <2>1, <2>2
<1>15. ASSUME NEW i \in began
       PROVE  \/ \E k \in DOMAIN snap.recent : snap.recent[k] = handed[i]
              \/ /\ Len(snap.recent) = RecentCap
                 /\ \A k \in DOMAIN snap.recent : handed[i].at <= snap.recent[k].at
  <2>1. PICK x \in DOMAIN ss : ss[x] = handed[i]
    BY <1>4, ShownMeans
  <2>2. \/ \E k \in DOMAIN Recent(ss) : Recent(ss)[k] = ss[x]
        \/ /\ Len(Recent(ss)) = RecentCap
           /\ \A k \in DOMAIN Recent(ss) : ss[x].at <= Recent(ss)[k].at
    BY <1>4, RecentIs
  <2> QED BY <1>9, <2>1, <2>2
<1>16. /\ Q = {} <=> snap.quota = -1
       /\ Q # {} => \E i \in Q : /\ snap.quota = handed[i].quota
                                /\ \A j \in Q : handed[j].at <= handed[i].at
       /\ snap.trend # 0 => \E i, j \in Q : handed[i].at # handed[j].at
  <2>1. QuotaOK(q, ss, Len(ss))
    BY <1>5, <1>7 DEF TallyOK
  <2>2. /\ Q = {} <=> q.quota.last = -1
        /\ Q # {} => \E i \in Q : /\ q.quota.last = handed[i].quota
                                 /\ \A j \in Q : handed[j].at <= handed[i].at
        /\ Trend(q.quota) # 0 => \E i, j \in Q : handed[i].at # handed[j].at
    BY <1>4, <1>11, <2>1, QuotaShown
  <2> QED BY <1>9, <2>2
<1>17. 0 <= snap.cache.read /\ snap.cache.read <= snap.cache.input
  BY <1>7, <1>9 DEF TallyOK, CacheOK
<1>18. DOMAIN q.routes = {Route(handed[i]) : i \in began}
  <2>1. DOMAIN q.routes = {Route(ss[k]) : k \in 1 .. n}
    BY <1>7 DEF TallyOK, RoutesOK
  <2>2. /\ \A k \in 1 .. n : \E i \in began : ss[k] = handed[i]
        /\ \A i \in began : \E k \in 1 .. n : ss[k] = handed[i]
    BY <1>4, <1>5, ShownMeans
  <2> QED BY <2>1, <2>2
<1>19. ASSUME NEW a \in snap.active PROVE a.count = Cardinality(On(handed, began, a.route))
  <2>1. a.route \in DOMAIN q.routes /\ a.count = q.routes[a.route].count
    BY <1>10
  <2>2. q.routes[a.route].count = Cardinality(On(ss, DOMAIN ss, a.route))
    BY <1>5, <1>7, <2>1 DEF TallyOK, RoutesOK, On
  <2>3. Cardinality(On(ss, DOMAIN ss, a.route)) = Cardinality(On(handed, began, a.route))
    BY <1>4, CountsShown
  <2> QED BY <2>1, <2>2, <2>3
<1> QED BY <1>2, <1>8, <1>10, <1>11, <1>13, <1>14, <1>15, <1>16, <1>17, <1>18, <1>19
        DEF NumbersTrue, Within, Later, On

\* The panel has the rows oldest first.
LEMMA RowsAscend == RowsInv => RowsSorted
<1> SUFFICES ASSUME RowsInv PROVE RowsSorted
  OBVIOUS
<1>1. PICK D : D = DOMAIN inflight.rows
  OBVIOUS
<1>2. PICK rows : rows = inflight.rows
  OBVIOUS
<1>3. \A u \in D : rows[u] \in Int
  BY <1>1, <1>2, RowsFacts
<1>4. IsFiniteSet(D)
  <2>1. IsFiniteSet(Runs)
    BY TrafficAssumption, FS_Subset DEF Runs
  <2>2. PICK f : f = [c \in Runs |-> token[c]]
    OBVIOUS
  <2>3. D = {f[c] : c \in Runs}
    BY <1>1, <2>2, RowsFacts
  <2>4. f \in Surjection(Runs, D)
    BY <2>2, <2>3 DEF Surjection
  <2> QED BY <2>1, <2>4, FS_Surjection
<1>5. PICK s : s = PendingRows
  OBVIOUS
<1>6. Ascends(s, D, rows)
  BY <1>1, <1>2, <1>3, <1>4, <1>5, SortedIs DEF PendingRows
<1>7. PICK m \in Nat : m = Cardinality(D)
  BY <1>4, FS_CardinalityType
<1>8. /\ s \in [1 .. m -> D] /\ \A x \in D : \E i \in 1 .. m : s[i] = x
      /\ \A i, j \in 1 .. m : i < j => rows[s[i]] <= rows[s[j]]
  BY <1>6, <1>7 DEF Ascends
<1>9. Len(s) = m
  <2>1. s \in Seq(D)
    BY <1>7, <1>8, SeqDef
  <2> QED BY <1>7, <1>8, <2>1, LenProperties
<1>10. {s[i] : i \in DOMAIN s} = D
  BY <1>8
<1> QED BY <1>1, <1>2, <1>5, <1>7, <1>8, <1>9, <1>10 DEF RowsSorted

\* What the panel is told is so: the rows are of the requests in flight, oldest
\* first, the samples' meters are theirs, and the numbers are of the requests that
\* began within the window, whatever order they ended in (Collector.Snapshot).
THEOREM MetricsAreTrue == TrafficSpec => []MetricsTrue
<1>1. TrafficSpec => [](MeterInv /\ RowsInv /\ WindowInv)
  BY MeterInit, MeterStep, RowsInit, RowsStep, WindowInit, WindowStep, PTL DEF TrafficSpec
<1>2. MeterInv /\ WindowInv => NumbersTrue
  BY NumbersHold
<1>3. RowsInv => RowsTrue
  BY RowsAscend DEF RowsTrue, RowsInv
<1> QED BY <1>1, <1>2, <1>3, MetersAreTrue, PTL DEF MetricsTrue, LiveTrue
=============================================================================
