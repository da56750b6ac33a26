------------------------------- MODULE Health -------------------------------
(***************************************************************************)
(* The alarm (metrics/health.go): every completed request is folded into a *)
(* streak of failures of one kind, and the operator is told when the       *)
(* streak reaches a rung of a ladder and when it is over.                  *)
(*                                                                         *)
(* Samples come one at a time: the collector hands them on under its lock  *)
(* (metrics/collector.go, proxy.go).  A sample is what the tracker reads   *)
(* of it: whether it failed, with which status, whether the client         *)
(* cancelled it and whether the upstream had answered by then.  Times are  *)
(* left out.                                                               *)
(***************************************************************************)
EXTENDS Integers, Sequences

CONSTANTS AlertSteps,   \* the rungs
          MaxStreak     \* bound on the streak; the samples remembered, too

ASSUME HealthAssumption ==
    /\ AlertSteps \subseteq Nat \ {0}
    /\ MaxStreak \in Nat \ {0}

VARIABLES
    streak, class,   \* the current run
    alerted,         \* whether it has been announced
    note,            \* what this sample had the operator told
    told,            \* history: the last thing the operator was told
    seen             \* history: the latest samples that say anything

vars == <<streak, class, alerted, note, told, seen>>

Classes  == {"none", "unreachable", "quota", "upstream"}
Statuses == {0, 429, 500}

\* A success carries no failure's marks; a cancellation carries no status.
\* answered is whether a first byte was timed.
Samples ==
    {s \in [failed : BOOLEAN, status : Statuses, canceled : BOOLEAN, answered : BOOLEAN] :
        /\ ~s.failed => s.status = 0 /\ ~s.canceled
        /\ s.canceled => s.status = 0}

Event(state, c, n) == [state |-> state, class |-> c, streak |-> n]
NoEvent == Event("none", "none", 0)
Events  == [state : {"none", "degraded", "recovered"}, class : Classes, streak : Nat]

----------------------------------------------------------------------------
classify(s) ==
    IF ~s.failed THEN "none"
    ELSE CASE s.status = 0   -> "unreachable"
           [] s.status = 429 -> "quota"
           [] OTHER          -> "upstream"

abandonedAfterAnswer(s) == s.canceled /\ s.answered

isAlertStep(n) == n \in AlertSteps

\* Mutant of Length: a change of class does not start the count again.
LengthAnyhow(c) == streak + 1

Length(c) == IF c = class THEN streak + 1 ELSE 1

\* A failure continues the run, or starts another of its own class, which has
\* not been announced.
Degrade(c) ==
    /\ streak' = Length(c) /\ class' = c
    /\ alerted' = (isAlertStep(streak') \/ (c = class /\ alerted))
    /\ note' = IF isAlertStep(streak') THEN Event("degraded", c, streak') ELSE NoEvent

\* A success is the end of the run, reported if the run was.
Recover ==
    /\ note' = IF alerted THEN Event("recovered", class, streak) ELSE NoEvent
    /\ streak' = 0 /\ class' = "none" /\ alerted' = FALSE

Observe(s) ==
    IF abandonedAfterAnswer(s)
    THEN note' = NoEvent /\ UNCHANGED <<streak, class, alerted>>
    ELSE IF classify(s) = "none" THEN Recover ELSE Degrade(classify(s))

(* What a sample says, whatever the tracker makes of it.                   *)

\* A stream that the client left once the upstream had spoken says nothing.
Silent(s) == s.failed /\ s.canceled /\ s.answered

Says(s, c) ==
    CASE c = "none"        -> ~s.failed
      [] c = "unreachable" -> s.failed /\ s.status = 0
      [] c = "quota"       -> s.failed /\ s.status = 429
      [] c = "upstream"    -> s.failed /\ s.status \notin {0, 429}

\* The collector's hand-over of one sample, the notification included.
HandleUsage(s) ==
    /\ Observe(s)
    /\ streak' <= MaxStreak
    /\ told' = IF note' = NoEvent THEN told ELSE note'
    /\ seen' = IF Silent(s) THEN seen
               ELSE IF Len(seen) < MaxStreak THEN Append(seen, s) ELSE Append(Tail(seen), s)

Init ==
    /\ streak = 0 /\ class = "none" /\ alerted = FALSE
    /\ note = NoEvent /\ told = NoEvent
    /\ seen = << >>

Next == \E s \in Samples : HandleUsage(s)

Spec == Init /\ [][Next]_vars

----------------------------------------------------------------------------
\* The last n samples that say anything all say c.
EndsIn(n, c) ==
    /\ Len(seen) >= n
    /\ \A i \in (Len(seen) - n + 1) .. Len(seen) : Says(seen[i], c)

\* Every variable has its type, and there is a class exactly when there is a run.
TypeOK ==
    /\ streak \in 0 .. MaxStreak
    /\ class \in Classes
    /\ class = "none" <=> streak = 0
    /\ alerted \in BOOLEAN
    /\ note \in Events /\ told \in Events
    /\ Len(seen) <= MaxStreak
    /\ seen \in Seq(Samples)

\* An alarm of n failures is made on the evidence of the last n requests that
\* say anything: none is of another class, none is a stream the client left
\* after an answer, and no success is among them.
AlarmsTrue ==
    note.state = "degraded" => EndsIn(note.streak, note.class)

\* An outage is announced: once the last requests that say anything are all
\* failures of one class, as many as the first rung, the operator's last word
\* is that the upstream is down, and it names that class; streams abandoned in
\* between neither hide it nor end it.
OutageTold ==
    \A c \in Classes \ {"none"}, n \in AlertSteps :
        EndsIn(n, c) => told.state = "degraded" /\ told.class = c

\* The operator is told what is so: no alarm without its evidence, and no outage
\* without its alarm.
AlarmTrue == AlarmsTrue /\ OutageTold

\* An alarm that was given is taken back: when the latest request that says
\* anything succeeded, the operator's last word is not that the upstream is
\* down.
AlarmCleared == EndsIn(1, "none") => told.state # "degraded"
=============================================================================
