--------------------------- MODULE RefusalsProofs ---------------------------
(***************************************************************************)
(* Proofs about Refusals, for every set of requests and every limit: the   *)
(* types, the counter, and what the callers of refused and of other        *)
(* requests are told.                                                      *)
(*                                                                         *)
(* A request's state is touched by the others in one way only: a clear may *)
(* take its finding.  The invariant is therefore a conjunction over the    *)
(* requests, Local, which each step keeps for its own request and, by      *)
(* Others, for the rest; the counter is apart.                             *)
(***************************************************************************)
EXTENDS Refusals, FiniteSetTheorems, TLAPS

Before == {"uncountBefore", "count", "sweep", "reset", "frame"}
Inside == Before \cup {"spend", "uncountAfter"}

Ended(r) == phase[r] = IF shape[r].stream THEN "tail" ELSE "delta"

\* Where the frame is.
FrameOK(r) ==
    /\ pc[r] = "idle" => phase[r] = "head"
    /\ pc[r] = "done" => Ended(r)
    /\ pc[r] \notin Before => frame[r] = "none"
    /\ pc[r] \in Before /\ ~shape[r].stream => frame[r] # "none"
    /\ frame[r] \in {"stop", "length"} => phase[r] = "delta" /\ shape[r].openai

\* What the hooks know of the attempt.
FindingOK(r) ==
    /\ pc[r] \in {"sweep", "reset"} => alarm
    /\ phase[r] = "head" => ~refused[r]
    /\ pc[r] \in Inside /\ r \in pending => refused[r]
    /\ pc[r] = "uncountBefore" /\ phase[r] = "delta" => ~refused[r]
    /\ pc[r] \in Before /\ phase[r] = "delta" /\ refused[r] => r \in pending \/ swept[r]
    /\ hooks = "plugin" /\ Active(r) => displaced[r]

\* A finding that the end of an attempt leaves.
LeftOver(r) ==
    /\ r \in pending /\ Ended(r) /\ pc[r] \in {"ready", "done", "uncountAfter"} => displaced[r]
    /\ r \in pending /\ shape[r].stream /\ phase[r] = "tail" /\ pc[r] \in Inside => displaced[r]

ToldOK(r) ==
    /\ phase[r] = "head" => caller[r] \in {"nothing", "some"}
    /\ caller[r] = "content_filter" => refused[r]
    /\ refused[r] /\ caller[r] = "stop" => swept[r] \/ displaced[r]

Local(r) == FrameOK(r) /\ FindingOK(r) /\ LeftOver(r) /\ ToldOK(r)

IInv == RefTypeOK /\ Counted /\ \A r \in Requests : Local(r)

----------------------------------------------------------------------------
\* The steps, one per action.
Step(r) ==
    \/ \E s \in Shapes : Admit(r, s)
    \/ Retry(r) \/ StreamOver(r) \/ Abandon(r)
    \/ \E p \in {"head", "delta", "tail"}, isRefusal \in BOOLEAN, f \in Frames :
          TranslateUnhooked(r, p, isRefusal, f)
    \/ \E p \in {"head", "delta", "tail"}, f \in Frames : Clean(r, p, f)
    \/ \E f \in Frames : Refused(r, f)
    \/ Count(r) \/ (\E k \in Requests : Visit(r, k)) \/ Swept(r) \/ Reset(r)
    \/ After(r) \/ Spend(r) \/ Uncount(r)

\* A step is a reload, or one of a single request.
LEMMA NextSteps == RefNext => Reload \/ \E r \in Requests : Step(r)
BY DEF RefNext, Request, Hooked, Step

\* What the caller has been told, after another frame.
LEMMA ReceivedType ==
    ASSUME RefTypeOK, NEW r \in Requests, NEW f \in Frames
    PROVE  /\ Received(r, f) \in Callers
           /\ Received(r, f) = "content_filter" => caller[r] = "content_filter"
           /\ Received(r, f) = "stop" => f = "stop" \/ caller[r] = "stop"
           /\ f \in {"none", "plain"} /\ caller[r] \in {"nothing", "some"} =>
                Received(r, f) \in {"nothing", "some"}
BY DEF RefTypeOK, Received, Frames, Callers

\* A sweep that loses keys stays a sweep.
LEMMA RemoveType ==
    ASSUME RefTypeOK, NEW ks \in SUBSET Requests, Remove(ks)
    PROVE  sweep' \in [Requests -> [Requests -> Visits]] /\ pending' \subseteq Requests
BY DEF RefTypeOK, Remove, Visits

\* Every step keeps the types.
LEMMA StepType ==
    ASSUME RefTypeOK, NEW r \in Requests, Step(r)
    PROVE  RefTypeOK'
<1>0. RefusalsAssumption
  BY RefusalsAssumption
<1> USE DEF RefTypeOK
<1>1. ASSUME NEW s \in Shapes, Admit(r, s) PROVE RefTypeOK'
  <2>1. 1 \in 0 .. MaxAttempts
    BY <1>0 DEF RefusalsAssumption
  <2> QED BY <1>1, <2>1 DEF Admit, Goto, mapVars, historyVars, Locations
<1>2. CASE Retry(r)
  <2>1. attempts[r] + 1 \in 0 .. MaxAttempts
    BY <1>0, <1>2 DEF RefusalsAssumption, Retry
  <2> QED BY <1>2, <2>1 DEF Retry, mapVars, historyVars
<1>3. CASE StreamOver(r) \/ Abandon(r)
  BY <1>3 DEF StreamOver, Abandon, Goto, mapVars, attemptVars, historyVars, Locations
<1>4. ASSUME NEW p \in {"head", "delta", "tail"}, NEW isRefusal \in BOOLEAN, NEW f \in Frames,
             TranslateUnhooked(r, p, isRefusal, f)
      PROVE  RefTypeOK'
  <2>1. Received(r, f) \in Callers
    BY ReceivedType
  <2>2. caller' \in [Requests -> Callers]
    BY <1>4, <2>1 DEF TranslateUnhooked, Hand
  <2>3. refused' \in [Requests -> BOOLEAN]
    BY <1>4 DEF TranslateUnhooked
  <2> QED BY <1>4, <2>2, <2>3 DEF TranslateUnhooked, mapVars, historyVars
<1>5. ASSUME NEW p \in {"head", "delta", "tail"}, NEW f \in Frames, Clean(r, p, f)
      PROVE  RefTypeOK'
  <2>1. refused' \in [Requests -> BOOLEAN] /\ frame' \in [Requests -> Frames]
        /\ phase' \in [Requests -> {"head", "delta", "tail"}]
    BY <1>5 DEF Clean, Enter
  <2>2. pending' \subseteq Requests /\ sweep' \in [Requests -> [Requests -> Visits]]
    BY <1>5, RemoveType DEF Clean, LoadAndDelete
  <2>3. pc' \in [Requests -> Locations]
    BY <1>5 DEF Clean, LoadAndDelete, Goto, Locations
  <2> QED BY <1>5, <2>1, <2>2, <2>3 DEF Clean, Enter, historyVars
<1>6. ASSUME NEW f \in Frames, Refused(r, f)
      PROVE  RefTypeOK'
  <2>1. refused' \in [Requests -> BOOLEAN] /\ frame' \in [Requests -> Frames]
        /\ phase' \in [Requests -> {"head", "delta", "tail"}]
    BY <1>6 DEF Refused, Enter
  <2>2. pc' \in [Requests -> Locations] /\ swept' \in [Requests -> BOOLEAN]
    BY <1>6 DEF Refused, Goto, Locations
  <2> QED BY <1>6, <2>1, <2>2 DEF Refused, Enter
<1>7. CASE Count(r)
  <2>1. sweep' \in [Requests -> [Requests -> Visits]] /\ pc' \in [Requests -> Locations]
    <3>1. CASE live' <= maxPendingRefusals
      BY <1>7, <3>1 DEF Count, Goto, Locations
    <3>2. CASE ~(live' <= maxPendingRefusals)
      BY <1>7, <3>2 DEF Count, Goto, Locations, Visits
    <3> QED BY <3>1, <3>2
  <2>3. alarm' \in BOOLEAN
    <3>1. alarm' = alarm \/ alarm' = TRUE
      BY <1>7 DEF Count
    <3> QED BY <3>1, Zenon
  <2>2. live' \in Int
    BY <1>7 DEF Count
  <2> QED BY <1>7, <2>1, <2>2, <2>3 DEF Count, attemptVars
<1>8. ASSUME NEW k \in Requests, Visit(r, k)
      PROVE  RefTypeOK'
  <2>1. sweep' \in [Requests -> [Requests -> Visits]]
    BY <1>8 DEF Visit, Visits
  <2> QED BY <1>8, <2>1 DEF Visit, attemptVars
<1>9. CASE Swept(r)
  <2>1. sweep' \in [Requests -> [Requests -> Visits]]
    BY <1>9 DEF Swept, NoSweep, Visits
  <2> QED BY <1>9, <2>1 DEF Swept, Goto, Locations, attemptVars, historyVars
<1>10. CASE Reset(r)
  BY <1>10 DEF Reset, Goto, Locations, attemptVars, historyVars
<1>11. CASE After(r)
  <2>1. frame' \in [Requests -> Frames] /\ pc' \in [Requests -> Locations]
    BY <1>11 DEF After, Goto, Locations, Frames
  <2>2. frame[r] \in Frames /\ Received(r, frame[r]) \in Callers
    BY ReceivedType
  <2>3. Received(r, Rewritten) \in Callers
    BY DEF Received, Rewritten, Callers
  <2>4. caller' \in [Requests -> Callers]
    BY <1>11, <2>2, <2>3 DEF After, Hand
  <2> QED BY <1>11, <2>1, <2>4 DEF After, mapVars, attemptVars, historyVars
<1>12. CASE Spend(r)
  <2>1. pending' \subseteq Requests /\ sweep' \in [Requests -> [Requests -> Visits]]
    BY <1>12, RemoveType DEF Spend, LoadAndDelete
  <2> QED BY <1>12, <2>1 DEF Spend, LoadAndDelete, Goto, Locations, attemptVars, historyVars
<1>13. CASE Uncount(r)
  BY <1>13 DEF Uncount, Goto, Locations, attemptVars, historyVars
<1> QED BY <1>1, <1>2, <1>3, <1>4, <1>5, <1>6, <1>7, <1>8, <1>9, <1>10, <1>11, <1>12, <1>13
        DEF Step

----------------------------------------------------------------------------
\* A step of one request may take the finding of another, and nothing else.
LEMMA Others ==
    ASSUME RefTypeOK, NEW r \in Requests, Step(r), NEW s \in Requests, s # r
    PROVE  /\ pc'[s] = pc[s] /\ frame'[s] = frame[s] /\ caller'[s] = caller[s]
           /\ shape'[s] = shape[s] /\ phase'[s] = phase[s] /\ refused'[s] = refused[s]
           /\ displaced'[s] = displaced[s]
           /\ s \in pending' => s \in pending
           /\ s \in pending => s \in pending' \/ swept'[s]
           /\ swept[s] => swept'[s]
           /\ alarm => alarm'
           /\ hooks' = "plugin" => hooks = "plugin"
<1> USE DEF RefTypeOK, Goto, Hand, mapVars, attemptVars, historyVars
<1>1. ASSUME NEW x \in Shapes, Admit(r, x)
      PROVE  /\ pc'[s] = pc[s] /\ frame'[s] = frame[s] /\ caller'[s] = caller[s]
             /\ shape'[s] = shape[s] /\ phase'[s] = phase[s] /\ refused'[s] = refused[s]
             /\ hooks' = "ours" /\ UNCHANGED <<pending, swept, alarm, displaced>>
  BY <1>1 DEF Admit
<1>2. CASE Retry(r) \/ StreamOver(r) \/ Abandon(r)
  BY <1>2 DEF Retry, StreamOver, Abandon
<1>3. ASSUME NEW p \in {"head", "delta", "tail"}, NEW isRefusal \in BOOLEAN, NEW f \in Frames,
             TranslateUnhooked(r, p, isRefusal, f)
      PROVE  /\ pc'[s] = pc[s] /\ frame'[s] = frame[s] /\ caller'[s] = caller[s]
             /\ shape'[s] = shape[s] /\ phase'[s] = phase[s] /\ refused'[s] = refused[s]
             /\ UNCHANGED <<pending, swept, alarm, displaced, hooks>>
  BY <1>3 DEF TranslateUnhooked
<1>4. ASSUME NEW p \in {"head", "delta", "tail"}, NEW f \in Frames, Clean(r, p, f)
      PROVE  /\ pc'[s] = pc[s] /\ frame'[s] = frame[s] /\ caller'[s] = caller[s]
             /\ shape'[s] = shape[s] /\ phase'[s] = phase[s] /\ refused'[s] = refused[s]
             /\ s \in pending' <=> s \in pending
             /\ UNCHANGED <<swept, alarm, displaced, hooks>>
  BY <1>4 DEF Clean, Enter, LoadAndDelete, Remove
<1>5. ASSUME NEW f \in Frames, Refused(r, f)
      PROVE  /\ pc'[s] = pc[s] /\ frame'[s] = frame[s] /\ caller'[s] = caller[s]
             /\ shape'[s] = shape[s] /\ phase'[s] = phase[s] /\ refused'[s] = refused[s]
             /\ s \in pending' <=> s \in pending
             /\ swept'[s] = swept[s] /\ UNCHANGED <<alarm, displaced, hooks>>
  BY <1>5 DEF Refused, Enter
<1>6. CASE Count(r)
  <2>1. pc'[s] = pc[s] /\ (alarm => alarm')
    BY <1>6 DEF Count
  <2> QED BY <1>6, <2>1 DEF Count
<1>7. ASSUME NEW k \in Requests, Visit(r, k)
      PROVE  /\ pc'[s] = pc[s] /\ frame'[s] = frame[s] /\ caller'[s] = caller[s]
             /\ shape'[s] = shape[s] /\ phase'[s] = phase[s] /\ refused'[s] = refused[s]
             /\ s \in pending' => s \in pending
             /\ s \in pending => s \in pending' \/ swept'[s]
             /\ swept[s] => swept'[s]
             /\ UNCHANGED <<alarm, displaced, hooks>>
  BY <1>7 DEF Visit
<1>8. CASE Swept(r) \/ Reset(r)
  BY <1>8 DEF Swept, Reset
<1>9. CASE After(r)
  BY <1>9 DEF After
<1>10. CASE Spend(r) \/ Uncount(r)
  BY <1>10 DEF Spend, Uncount, LoadAndDelete, Remove
<1> QED BY <1>1, <1>2, <1>3, <1>4, <1>5, <1>6, <1>7, <1>8, <1>9, <1>10 DEF Step

\* What is true of one request alone no other request's step disturbs.
LEMMA OthersKeep ==
    ASSUME RefTypeOK, NEW r \in Requests, Step(r), NEW s \in Requests, s # r, Local(s)
    PROVE  Local(s)'
<1>1. /\ pc'[s] = pc[s] /\ frame'[s] = frame[s] /\ caller'[s] = caller[s]
      /\ shape'[s] = shape[s] /\ phase'[s] = phase[s] /\ refused'[s] = refused[s]
      /\ displaced'[s] = displaced[s]
      /\ s \in pending' => s \in pending
      /\ s \in pending => s \in pending' \/ swept'[s]
      /\ swept[s] => swept'[s]
      /\ alarm => alarm'
      /\ hooks' = "plugin" => hooks = "plugin"
  BY Others
<1>2. FrameOK(s)'
  BY <1>1 DEF Local, FrameOK, Ended
<1>3. FindingOK(s)'
  BY <1>1 DEF Local, FindingOK, Active
<1>4. LeftOver(s)'
  BY <1>1 DEF Local, LeftOver, Ended
<1>5. ToldOK(s)'
  BY <1>1 DEF Local, ToldOK
<1> QED BY <1>2, <1>3, <1>4, <1>5 DEF Local

----------------------------------------------------------------------------
(* The step's own request.                                                 *)

\* A request comes, is retried, ends or is given up.
LEMMA RequestKeeps ==
    ASSUME RefTypeOK, NEW r \in Requests, Local(r),
           (\E s \in Shapes : Admit(r, s)) \/ Retry(r) \/ StreamOver(r) \/ Abandon(r)
    PROVE  Local(r)'
<1> USE DEF RefTypeOK, Goto, mapVars, attemptVars, historyVars, Before, Inside
<1>1. ASSUME NEW s \in Shapes, Admit(r, s)
      PROVE  Local(r)'
  BY <1>1 DEF Admit, Local, FrameOK, FindingOK, LeftOver, ToldOK, Ended, Active
<1>2. CASE Retry(r)
  BY <1>2 DEF Retry, Local, FrameOK, FindingOK, LeftOver, ToldOK, Ended, Active
<1>3. CASE StreamOver(r) \/ Abandon(r)
  BY <1>3 DEF StreamOver, Abandon, Local, FrameOK, FindingOK, LeftOver, ToldOK, Ended, Active
<1> QED BY <1>1, <1>2, <1>3

\* A frame that ends an answer belongs to a message_delta of an openai answer.
LEMMA FrameFacts ==
    ASSUME NEW r \in Requests, NEW p \in {"head", "delta", "tail"}, NEW isRefusal \in BOOLEAN,
           NEW f \in FramesOf(r, p, isRefusal)
    PROVE  /\ f \in {"stop", "length"} => p = "delta" /\ shape[r].openai
           /\ ~shape[r].stream => f # "none"
BY DEF FramesOf

\* What may come next, by what has come.
LEMMA ComesFacts ==
    ASSUME NEW r \in Requests, NEW p \in {"head", "delta", "tail"}, MayCome(r, p)
    PROVE  /\ p = "delta" => phase[r] = "head"
           /\ p = "head" => phase[r] = "head"
           /\ p = "tail" => phase[r] \in {"delta", "tail"}
           /\ p # "delta" => shape[r].stream
BY DEF MayCome

\* A frame of a request that is not watched.
LEMMA TranslateUnhookedKeeps ==
    ASSUME RefTypeOK, NEW r \in Requests, Local(r),
           NEW p \in {"head", "delta", "tail"}, NEW isRefusal \in BOOLEAN, NEW f \in Frames,
           TranslateUnhooked(r, p, isRefusal, f)
    PROVE  Local(r)'
<1>1. /\ pc' = pc /\ shape' = shape /\ frame' = frame /\ displaced' = displaced
      /\ UNCHANGED <<pending, swept, alarm, hooks>>
      /\ pc[r] = "ready" /\ displaced[r] /\ frame[r] = "none"
      /\ phase'[r] = p /\ caller'[r] = Received(r, f)
      /\ refused'[r] = (refused[r] \/ isRefusal)
  BY DEF RefTypeOK, TranslateUnhooked, Hand, mapVars, historyVars, Local, FindingOK, FrameOK, Active, Before
<1>2. /\ p = "head" => ~refused[r] /\ ~isRefusal
  BY ComesFacts DEF TranslateUnhooked, Local, FindingOK
<1>3. Received(r, f) = "content_filter" => refused[r]
  BY ReceivedType DEF Local, ToldOK
<1>7. p = "head" => f \in {"none", "plain"} /\ phase[r] = "head"
  BY ComesFacts, FrameFacts DEF TranslateUnhooked, Frames
<1>8. p = "head" => Received(r, f) \in {"nothing", "some"}
  BY <1>7, ReceivedType DEF Local, ToldOK
<1>4. FrameOK(r)'
  BY <1>1 DEF FrameOK, Ended, Before
<1>5. FindingOK(r)'
  BY <1>1, <1>2 DEF Local, FindingOK, Before, Inside, Active
<1>6. LeftOver(r)'
  BY <1>1 DEF LeftOver
<1>9. refused[r] => refused'[r]
  BY <1>1
<1>10. ToldOK(r)'
  BY <1>1, <1>3, <1>8, <1>9 DEF ToldOK
<1> QED BY <1>4, <1>5, <1>6, <1>10 DEF Local

\* A frame that says nothing of a refusal.
LEMMA CleanKeepsLocal ==
    ASSUME RefTypeOK, NEW r \in Requests, Local(r),
           NEW p \in {"head", "delta", "tail"}, NEW f \in Frames, Clean(r, p, f)
    PROVE  Local(r)'
<1>1. /\ shape' = shape /\ caller' = caller /\ UNCHANGED <<swept, displaced, alarm, hooks>>
      /\ pc[r] = "ready" /\ pc'[r] \in {"uncountBefore", "frame"}
      /\ phase'[r] = p /\ frame'[r] = f
      /\ refused'[r] = refused[r]
      /\ r \notin pending'
  BY DEF RefTypeOK, Clean, Enter, LoadAndDelete, Remove, Goto, historyVars
<1>2. /\ p # "tail" => ~refused[r]
      /\ f \in {"stop", "length"} => p = "delta" /\ shape[r].openai
      /\ ~shape[r].stream => f # "none"
  BY ComesFacts, FrameFacts DEF Clean, Enter, Local, FindingOK
<1>3. FrameOK(r)'
  BY <1>1, <1>2 DEF FrameOK, Ended, Before
<1>4. FindingOK(r)'
  BY <1>1, <1>2 DEF Local, FindingOK, Before, Inside, Active
<1>5. LeftOver(r)'
  BY <1>1 DEF LeftOver
<1>6. p = "head" => caller[r] \in {"nothing", "some"}
  BY ComesFacts DEF Clean, Enter, Local, ToldOK
<1>7. ToldOK(r)'
  BY <1>1, <1>6 DEF Local, ToldOK
<1> QED BY <1>3, <1>4, <1>5, <1>7 DEF Local

\* The frame that says it is a refusal.
LEMMA RefusedKeeps ==
    ASSUME RefTypeOK, NEW r \in Requests, Local(r), NEW f \in Frames, Refused(r, f)
    PROVE  Local(r)'
<1>1. /\ shape' = shape /\ caller' = caller /\ UNCHANGED <<displaced, alarm, hooks>>
      /\ pc[r] = "ready" /\ pc'[r] \in {"count", "frame"}
      /\ phase[r] = "head" /\ phase'[r] = "delta" /\ frame'[r] = f
      /\ refused'[r] = TRUE /\ r \in pending'
  BY ComesFacts DEF RefTypeOK, Refused, Enter, Goto
<1>2. /\ f \in {"stop", "length"} => shape[r].openai
      /\ ~shape[r].stream => f # "none"
  BY FrameFacts DEF Refused, Enter
<1>3. FrameOK(r)'
  BY <1>1, <1>2 DEF FrameOK, Ended, Before
<1>4. FindingOK(r)'
  BY <1>1 DEF Local, FindingOK, Before, Inside, Active
<1>5. LeftOver(r)'
  BY <1>1 DEF LeftOver, Inside, Before
<1>6. caller[r] \in {"nothing", "some"}
  BY <1>1 DEF Local, ToldOK
<1>7. ToldOK(r)'
  BY <1>1, <1>6 DEF ToldOK
<1> QED BY <1>3, <1>4, <1>5, <1>7 DEF Local

\* The refusal is counted.
LEMMA CountKeeps ==
    ASSUME RefTypeOK, NEW r \in Requests, Local(r), Count(r)
    PROVE  Local(r)'
<1>1. /\ UNCHANGED <<hooks, pending, shape, phase, refused, frame, caller, swept, displaced>>
      /\ pc[r] = "count"
      /\ pc'[r] = "frame" \/ (pc'[r] = "sweep" /\ alarm')
  <2>1. CASE live' <= maxPendingRefusals
    BY <2>1 DEF RefTypeOK, Count, Goto, attemptVars
  <2>2. CASE ~(live' <= maxPendingRefusals)
    BY <2>2 DEF RefTypeOK, Count, Goto, attemptVars
  <2> QED BY <2>1, <2>2
<1>2. FrameOK(r)' /\ FindingOK(r)'
  BY <1>1 DEF Local, FrameOK, Ended, FindingOK, Before, Inside, Active
<1>3. LeftOver(r)' /\ ToldOK(r)'
  BY <1>1 DEF Local, LeftOver, ToldOK, Ended, Before, Inside
<1> QED BY <1>2, <1>3 DEF Local

\* A step of the sweep, or a reset.
LEMMA ClearKeeps ==
    ASSUME RefTypeOK, NEW r \in Requests, Local(r),
           (\E k \in Requests : Visit(r, k)) \/ Swept(r) \/ Reset(r)
    PROVE  Local(r)'
<1>1. ASSUME NEW k \in Requests, Visit(r, k)
      PROVE  Local(r)'
  <2>1. /\ UNCHANGED <<hooks, pc, shape, phase, refused, frame, caller, displaced, alarm>>
        /\ r \in pending' => r \in pending
        /\ r \in pending => r \in pending' \/ swept'[r]
        /\ swept[r] => swept'[r]
    BY <1>1 DEF RefTypeOK, Visit, attemptVars
  <2> QED BY <2>1 DEF Local, FrameOK, FindingOK, LeftOver, ToldOK, Ended, Active
<1>2. CASE Swept(r) \/ Reset(r)
  <2>1. /\ UNCHANGED <<hooks, pending, shape, phase, refused, frame, caller, swept, displaced, alarm>>
        /\ pc[r] \in {"sweep", "reset"} /\ pc'[r] \in {"reset", "frame"}
    BY <1>2 DEF RefTypeOK, Swept, Reset, Goto, attemptVars, historyVars
  <2> QED BY <2>1 DEF Local, FrameOK, FindingOK, LeftOver, ToldOK, Ended, Active, Before, Inside
<1> QED BY <1>1, <1>2

\* The refusal is taken off the count.
LEMMA UncountKeeps ==
    ASSUME RefTypeOK, NEW r \in Requests, Local(r), Uncount(r)
    PROVE  Local(r)'
<1>1. /\ UNCHANGED <<hooks, pending, shape, phase, refused, frame, caller, swept, displaced, alarm>>
      /\ \/ pc[r] = "uncountBefore" /\ pc'[r] = "frame"
         \/ pc[r] = "uncountAfter" /\ pc'[r] = "ready"
  BY DEF RefTypeOK, Uncount, Goto, attemptVars, historyVars
<1> QED BY <1>1 DEF Local, FrameOK, FindingOK, LeftOver, ToldOK, Ended, Active, Before, Inside

\* A finding that has been told is spent.
LEMMA SpendKeeps ==
    ASSUME RefTypeOK, NEW r \in Requests, Local(r), Spend(r)
    PROVE  Local(r)'
<1>1. /\ UNCHANGED <<hooks, shape, phase, refused, frame, caller, swept, displaced, alarm>>
      /\ pc[r] = "spend" /\ pc'[r] \in {"uncountAfter", "ready"} /\ r \notin pending'
  BY DEF RefTypeOK, Spend, LoadAndDelete, Remove, Goto, attemptVars, historyVars
<1> QED BY <1>1 DEF Local, FrameOK, FindingOK, LeftOver, ToldOK, Ended, Active, Before, Inside

\* The frame is handed on.
LEMMA AfterKeeps ==
    ASSUME RefTypeOK, NEW r \in Requests, Local(r), After(r)
    PROVE  Local(r)'
<1>1. /\ UNCHANGED <<hooks, pending, shape, phase, refused, swept, displaced, alarm>>
      /\ pc[r] = "frame" /\ frame'[r] = "none" /\ frame[r] \in Frames
  BY DEF RefTypeOK, After, mapVars, attemptVars, historyVars
<1>2. CASE frame[r] # "none" /\ r \in pending
  <2>1. /\ caller'[r] = Received(r, IF Changes(r) THEN "content_filter" ELSE frame[r])
        /\ pc'[r] = IF Spent(r) THEN "spend" ELSE "ready"
        /\ refused[r]
    BY <1>1, <1>2 DEF RefTypeOK, After, Hand, Goto, Rewritten, Local, FindingOK, Inside, Before
  <2>2. caller'[r] = "stop" => caller[r] = "stop"
    <3>1. CASE Changes(r)
      BY <2>1, <3>1 DEF Received
    <3>2. CASE ~Changes(r)
      <4>1. frame[r] # "stop"
        BY <3>2 DEF Changes, Local, FrameOK
      <4> QED BY <1>1, <2>1, <3>2, <4>1, ReceivedType
    <3> QED BY <3>1, <3>2
  <2>3. phase[r] # "head"
    BY <2>1 DEF Local, FindingOK
  <2>4. FrameOK(r)' /\ FindingOK(r)'
    BY <1>1, <2>1 DEF Local, FrameOK, Ended, FindingOK, Before, Inside, Active
  <2>5. LeftOver(r)'
    BY <1>1, <2>1 DEF Local, LeftOver, Ended, Spent, Before, Inside
  <2>6. ToldOK(r)'
    BY <1>1, <2>1, <2>2, <2>3 DEF Local, ToldOK
  <2> QED BY <2>4, <2>5, <2>6 DEF Local
<1>3. CASE ~(frame[r] # "none" /\ r \in pending)
  <2>1. caller'[r] = Received(r, frame[r]) /\ pc'[r] = "ready"
    BY <1>1, <1>3 DEF RefTypeOK, After, Hand, Goto
  <2>2. r \in pending => frame[r] = "none" /\ shape[r].stream
    BY <1>1, <1>3 DEF Local, FrameOK, Before
  <2>3. FrameOK(r)' /\ FindingOK(r)'
    BY <1>1, <2>1 DEF Local, FrameOK, Ended, FindingOK, Before, Inside, Active
  <2>4. LeftOver(r)'
    BY <1>1, <2>1, <2>2 DEF Local, LeftOver, Ended, Before, Inside
  <2>5. ToldOK(r)'
    <3>1. phase[r] = "head" => caller'[r] \in {"nothing", "some"}
      BY <1>1, <2>1, ReceivedType DEF Local, ToldOK, FrameOK, Frames
    <3>2. caller'[r] = "content_filter" => refused[r]
      BY <1>1, <2>1, ReceivedType DEF Local, ToldOK
    <3>3. refused[r] /\ caller'[r] = "stop" => swept[r] \/ displaced[r]
      <4>1. CASE frame[r] = "stop"
        BY <1>1, <2>2, <4>1 DEF Local, FrameOK, FindingOK, Before
      <4>2. CASE frame[r] # "stop"
        BY <1>1, <2>1, <4>2, ReceivedType DEF Local, ToldOK
      <4> QED BY <4>1, <4>2
    <3> QED BY <1>1, <3>1, <3>2, <3>3 DEF ToldOK
  <2> QED BY <2>3, <2>4, <2>5 DEF Local
<1> QED BY <1>2, <1>3

\* Whichever step a request takes, what is true of it stays true.
LEMMA OwnKeeps ==
    ASSUME RefTypeOK, NEW r \in Requests, Local(r), Step(r)
    PROVE  Local(r)'
BY RequestKeeps, TranslateUnhookedKeeps, CleanKeepsLocal, RefusedKeeps, CountKeeps, ClearKeeps,
   UncountKeeps, SpendKeeps, AfterKeeps DEF Step

----------------------------------------------------------------------------
(* The counter.                                                            *)

\* Moving one request changes the size of a group by one at most.
LEMMA Grow ==
    ASSUME NEW S, IsFiniteSet(S), NEW x, x \notin S
    PROVE  IsFiniteSet(S \cup {x}) /\ Cardinality(S \cup {x}) = Cardinality(S) + 1
BY FS_AddElement

\* A finite set with one element less.
LEMMA Shrink ==
    ASSUME NEW S, IsFiniteSet(S), NEW x \in S
    PROVE  IsFiniteSet(S \ {x}) /\ Cardinality(S \ {x}) = Cardinality(S) - 1
BY FS_RemoveElement

\* The requests counted, and those about to be, are finitely many.
LEMMA GroupsFinite ==
    ASSUME RefTypeOK
    PROVE  /\ IsFiniteSet(pending) /\ IsFiniteSet(InCount) /\ IsFiniteSet(InUncount)
           /\ Cardinality(pending) \in Nat /\ Cardinality(InCount) \in Nat
           /\ Cardinality(InUncount) \in Nat
<1>1. IsFiniteSet(Requests)
  BY RefusalsAssumption
<1>2. pending \subseteq Requests /\ InCount \subseteq Requests /\ InUncount \subseteq Requests
  BY DEF RefTypeOK, InCount, InUncount
<1> QED BY <1>1, <1>2, FS_Subset, FS_CardinalityType

\* forget, with a finding: the map shrinks, and the request is to count it off.
LEMMA ForgetCounts ==
    ASSUME RefTypeOK, Counted, NEW r \in Requests, NEW l, r \in pending,
           pc[r] \in {"ready", "spend"}, l \in {"uncountBefore", "uncountAfter"},
           Remove({r}), Goto(r, l), live' = live, alarm' = alarm
    PROVE  Counted'
<1>1. pending' = pending \ {r} /\ InUncount' = InUncount \cup {r} /\ InCount' = InCount
      /\ r \notin InUncount
  BY DEF RefTypeOK, Remove, Goto, InUncount, InCount
<1>2. Cardinality(pending') = Cardinality(pending) - 1
  BY <1>1, GroupsFinite, Shrink
<1>3. Cardinality(InUncount') = Cardinality(InUncount) + 1
  BY <1>1, GroupsFinite, Grow
<1> QED BY <1>1, <1>2, <1>3, GroupsFinite DEF Counted, RefTypeOK

\* A refusal just stored is about to be counted.
LEMMA RefusedCounts ==
    ASSUME RefTypeOK, Counted, NEW r \in Requests, NEW f, Refused(r, f)
    PROVE  Counted'
<1>0. pc[r] = "ready" /\ live' = live /\ alarm' = alarm
  BY DEF Refused, Enter
<1>1. CASE r \in pending
  <2>1. pending' = pending /\ InCount' = InCount /\ InUncount' = InUncount
    BY <1>0, <1>1 DEF RefTypeOK, Refused, Goto, InCount, InUncount
  <2> QED BY <1>0, <2>1 DEF Counted
<1>2. CASE r \notin pending
  <2>1. pending' = pending \cup {r} /\ InCount' = InCount \cup {r} /\ InUncount' = InUncount
        /\ r \notin InCount
    BY <1>0, <1>2 DEF RefTypeOK, Refused, Goto, InCount, InUncount
  <2>2. Cardinality(pending') = Cardinality(pending) + 1
    BY <1>2, <2>1, GroupsFinite, Grow
  <2>3. Cardinality(InCount') = Cardinality(InCount) + 1
    BY <2>1, GroupsFinite, Grow
  <2> QED BY <1>0, <2>1, <2>2, <2>3, GroupsFinite DEF Counted, RefTypeOK
<1> QED BY <1>1, <1>2

\* The count goes up by the one that was about to be counted.
LEMMA CountCounts ==
    ASSUME RefTypeOK, Counted, NEW r \in Requests, Count(r)
    PROVE  Counted'
<1>1. CASE live' <= maxPendingRefusals
  <2>1. /\ pending' = pending /\ alarm' = alarm /\ live' = live + 1 /\ r \in InCount
        /\ InCount' = InCount \ {r} /\ InUncount' = InUncount
    BY <1>1 DEF RefTypeOK, Count, Goto, InCount, InUncount
  <2>2. Cardinality(InCount') = Cardinality(InCount) - 1
    BY <2>1, GroupsFinite, Shrink
  <2> QED BY <2>1, <2>2, GroupsFinite DEF Counted, RefTypeOK
<1>2. CASE ~(live' <= maxPendingRefusals)
  BY <1>2 DEF Count, Counted
<1> QED BY <1>1, <1>2

\* And down by the one that was about to be taken off.
LEMMA UncountCounts ==
    ASSUME RefTypeOK, Counted, NEW r \in Requests, Uncount(r)
    PROVE  Counted'
<1>1. /\ pending' = pending /\ alarm' = alarm /\ live' = live - 1 /\ r \in InUncount
      /\ InCount' = InCount /\ InUncount' = InUncount \ {r}
  BY DEF RefTypeOK, Uncount, Goto, InCount, InUncount, historyVars
<1>2. Cardinality(InUncount') = Cardinality(InUncount) - 1
  BY <1>1, GroupsFinite, Shrink
<1> QED BY <1>1, <1>2, GroupsFinite DEF Counted, RefTypeOK

\* A step that moves its request outside the two groups, and leaves the map
\* and the counter, keeps the sum.
LEMMA StillCounts ==
    ASSUME Counted, UNCHANGED <<pending, live, alarm>>, InCount' = InCount, InUncount' = InUncount
    PROVE  Counted'
BY DEF Counted

\* No step lets the count and the pending refusals disagree.
LEMMA StepCounts ==
    ASSUME RefTypeOK, Counted, NEW r \in Requests, Local(r), Step(r)
    PROVE  Counted'
<1> USE DEF mapVars, attemptVars, historyVars, InCount, InUncount, Goto
<1>1. ASSUME NEW s \in Shapes, Admit(r, s)
      PROVE  Counted'
  BY <1>1, StillCounts DEF Admit, RefTypeOK
<1>2. CASE Retry(r) \/ StreamOver(r) \/ Abandon(r)
  BY <1>2, StillCounts DEF Retry, StreamOver, Abandon, RefTypeOK
<1>3. ASSUME NEW p \in {"head", "delta", "tail"}, NEW isRefusal \in BOOLEAN, NEW f \in Frames,
             TranslateUnhooked(r, p, isRefusal, f)
      PROVE  Counted'
  BY <1>3, StillCounts DEF TranslateUnhooked
<1>4. ASSUME NEW p \in {"head", "delta", "tail"}, NEW f \in Frames, Clean(r, p, f)
      PROVE  Counted'
  <2>1. CASE r \in pending
    <3>1. Remove({r}) /\ pc' = [pc EXCEPT ![r] = "uncountBefore"] /\ live' = live /\ alarm' = alarm
          /\ pc[r] = "ready"
      BY <1>4, <2>1 DEF Clean, LoadAndDelete, Enter
    <3> QED BY <2>1, <3>1, ForgetCounts
  <2>2. CASE r \notin pending
    BY <1>4, <2>2, StillCounts DEF Clean, LoadAndDelete, Enter, RefTypeOK
  <2> QED BY <2>1, <2>2
<1>5. ASSUME NEW f \in Frames, Refused(r, f)
      PROVE  Counted'
  BY <1>5, RefusedCounts
<1>6. CASE Count(r)
  BY <1>6, CountCounts
<1>7. ASSUME NEW k \in Requests, Visit(r, k)
      PROVE  Counted'
  BY <1>7 DEF Visit, Local, FindingOK, Counted
<1>8. CASE Swept(r) \/ Reset(r)
  BY <1>8 DEF Swept, Reset, Local, FindingOK, Counted
<1>9. CASE After(r)
  <2>1. pc[r] = "frame" /\ pc' = [pc EXCEPT ![r] = pc'[r]] /\ pc'[r] \in {"spend", "ready"}
        /\ UNCHANGED <<pending, live, alarm>>
    BY <1>9 DEF After, RefTypeOK
  <2> QED BY <2>1, StillCounts DEF RefTypeOK
<1>10. CASE Spend(r)
  <2>1. CASE r \in pending
    <3>1. Remove({r}) /\ pc' = [pc EXCEPT ![r] = "uncountAfter"] /\ live' = live /\ alarm' = alarm
          /\ pc[r] = "spend"
      BY <1>10, <2>1 DEF Spend, LoadAndDelete
    <3> QED BY <2>1, <3>1, ForgetCounts
  <2>2. CASE r \notin pending
    BY <1>10, <2>2, StillCounts DEF Spend, LoadAndDelete, RefTypeOK
  <2> QED BY <2>1, <2>2
<1>11. CASE Uncount(r)
  BY <1>11, UncountCounts
<1> QED BY <1>1, <1>2, <1>3, <1>4, <1>5, <1>6, <1>7, <1>8, <1>9, <1>10, <1>11 DEF Step

----------------------------------------------------------------------------
\* The invariant, before any request.
LEMMA InitIInv == RefInit => IInv
<1> SUFFICES ASSUME RefInit PROVE IInv
  OBVIOUS
<1>1. RefTypeOK
  <2>1. hooks \in {"ours", "plugin"} /\ pending \subseteq Requests /\ live \in Int
    BY DEF RefInit
  <2>2. sweep \in [Requests -> [Requests -> Visits]]
    BY DEF RefInit, NoSweep, Visits
  <2>3. pc \in [Requests -> Locations] /\ phase \in [Requests -> {"head", "delta", "tail"}]
    BY DEF RefInit, Locations
  <2>4. shape \in [Requests -> Shapes]
    BY DEF RefInit, Shapes
  <2>5. attempts \in [Requests -> 0 .. MaxAttempts]
    BY RefusalsAssumption DEF RefInit, RefusalsAssumption
  <2>6. frame \in [Requests -> Frames] /\ caller \in [Requests -> Callers]
    BY DEF RefInit, Frames, Callers
  <2>7. /\ refused \in [Requests -> BOOLEAN] /\ swept \in [Requests -> BOOLEAN]
        /\ displaced \in [Requests -> BOOLEAN] /\ alarm \in BOOLEAN
    BY DEF RefInit
  <2> QED BY <2>1, <2>2, <2>3, <2>4, <2>5, <2>6, <2>7 DEF RefTypeOK
<1>2. Counted
  <2>1. pending = {} /\ InCount = {} /\ InUncount = {} /\ live = 0
    BY DEF RefInit, InCount, InUncount
  <2> QED BY <2>1, FS_EmptySet DEF Counted
<1>3. ASSUME NEW r \in Requests PROVE Local(r)
  BY DEF RefInit, Local, FrameOK, FindingOK, LeftOver, ToldOK, Ended, Before, Inside, Active
<1> QED BY <1>1, <1>2, <1>3 DEF IInv

\* A reload of the hooks keeps it.
LEMMA ReloadKeeps == IInv /\ Reload => IInv'
<1> SUFFICES ASSUME IInv, Reload PROVE IInv'
  OBVIOUS
<1>1. RefTypeOK'
  <2>1. \A r \in Requests : (displaced[r] \/ Active(r)) \in BOOLEAN
    BY Zenon
  <2>2. displaced' \in [Requests -> BOOLEAN]
    BY <2>1 DEF Reload
  <2> QED BY <2>2 DEF IInv, RefTypeOK, Reload, mapVars, attemptVars
<1>2. Counted'
  BY DEF IInv, Counted, Reload, mapVars, InCount, InUncount
<1>3. ASSUME NEW r \in Requests PROVE Local(r)'
  <2>1. /\ UNCHANGED <<pending, pc, shape, phase, refused, frame, caller, swept, alarm>>
        /\ displaced[r] => displaced'[r]
        /\ Active(r) => displaced'[r]
    BY DEF Reload, mapVars, attemptVars
  <2> QED BY <2>1 DEF IInv, Local, FrameOK, FindingOK, LeftOver, ToldOK, Ended, Active
<1> QED BY <1>1, <1>2, <1>3 DEF IInv

\* So does every step.
LEMMA NextIInv == IInv /\ [RefNext]_refVars => IInv'
<1> SUFFICES ASSUME IInv, [RefNext]_refVars PROVE IInv'
  OBVIOUS
<1>1. ASSUME NEW r \in Requests, Step(r) PROVE IInv'
  <2>1. RefTypeOK' /\ Counted'
    BY <1>1, StepType, StepCounts DEF IInv
  <2>2. ASSUME NEW s \in Requests PROVE Local(s)'
    BY <1>1, OwnKeeps, OthersKeep DEF IInv
  <2> QED BY <2>1, <2>2 DEF IInv
<1>2. CASE UNCHANGED refVars
  BY <1>2 DEF refVars, mapVars, attemptVars, historyVars, IInv, RefTypeOK, Counted, InCount, InUncount,
     Local, FrameOK, FindingOK, LeftOver, ToldOK, Ended, Active
<1> QED BY <1>1, <1>2, NextSteps, ReloadKeeps

\* It holds in every state.
LEMMA Invariance == RefSpec => []IInv
BY InitIInv, NextIInv, PTL DEF RefSpec

----------------------------------------------------------------------------
\* The hooks' state and what the callers get have their types (refusalHooks).
THEOREM TypeCorrect == RefSpec => []RefTypeOK
<1>1. IInv => RefTypeOK
  BY DEF IInv
<1> QED BY <1>1, Invariance, PTL

\* The counter does not drift before the first emergency clear (track, forget).
THEOREM NoDrift == RefSpec => []Counted
<1>1. IInv => Counted
  BY DEF IInv
<1> QED BY <1>1, Invariance, PTL

\* No answer is marked for a refusal that is not its own attempt's
\* (NormalizeResponseBefore clears, NormalizeResponseAfter marks).
THEOREM MarksAreScoped == RefSpec => []Scoped
<1>1. IInv => Scoped
  BY DEF IInv, Local, ToldOK, Scoped
<1> QED BY <1>1, Invariance, PTL

\* A refusal is not handed on as an ordinary stop (NormalizeResponseAfter).
THEOREM RefusalsAreMarked == RefSpec => []Marked
<1>1. IInv => Marked
  BY DEF IInv, Local, ToldOK, Marked
<1> QED BY <1>1, Invariance, PTL

\* A request that ended leaves no finding (forget, on every path).
THEOREM NothingIsLeft == RefSpec => []Cleaned
<1>1. IInv => Cleaned
  <2> SUFFICES ASSUME IInv, NEW r \in Requests, pc[r] = "done", r \in pending
               PROVE  displaced[r]
    BY DEF Cleaned
  <2>1. Ended(r)
    BY DEF IInv, Local, FrameOK
  <2> QED BY <2>1 DEF IInv, Local, LeftOver
<1> QED BY <1>1, Invariance, PTL

\* The map and its counter do not drift (track, forget).
THEOREM MapIsBounded == RefSpec => []Bounded
<1>1. Counted /\ Cleaned => Bounded
  BY DEF Bounded
<1> QED BY <1>1, NoDrift, NothingIsLeft, PTL
=============================================================================
