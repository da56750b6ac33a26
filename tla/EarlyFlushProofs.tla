-------------------------- MODULE EarlyFlushProofs --------------------------
(***************************************************************************)
(* Proofs about EarlyFlush, for every set of statuses and every bound.     *)
(*                                                                         *)
(* The inductive invariant has three parts.  TypeOK types the variables.   *)
(* Lifecycle relates the request goroutine, the timers and the heartbeat:  *)
(* who may still run when.  WireInv relates the writer's flags to what has *)
(* been transmitted.  SilenceCovered and the refinement of StreamContract  *)
(* follow.  How a stream ends and what is noted of it (EndInv) is          *)
(* inductive with these; what is known of the body when the preamble goes  *)
(* out (SniffInv) with the types alone.                                    *)
(***************************************************************************)
EXTENDS EarlyFlush, SequenceTheorems, TLAPS

\* finish has had its say.
Concluded == pc \in {"cancel", "recover", "recovered", "done"}

\* Who may still run: a writer nobody installed has dead timers, a torn-down
\* one is closed, and past the join the heartbeat has exited.
Lifecycle ==
  /\ hbStopped => closed
  /\ hb # "none" => preflushed
  /\ pc \in {"enter", "bypass", "done"} =>
       closed \/ \A t \in Timers : timer[t] = "unarmed"
  /\ pc = "enter" => \A t \in Timers : timer[t] = "unarmed"
  /\ pc \in {"enter", "bypass"} => ~preflushed
  /\ pc \in {"join", "conclude"} \/ (Concluded /\ pc # "done") => closed
  /\ pc = "conclude" \/ Concluded => hb \in {"none", "exited"}
  /\ terminated => preflushed
  /\ streamed => decided
  /\ SilenceCovered

\* What the flags say of the frames sent.
WireInv ==
  /\ wire # <<>> => decided \/ preflushed \/ pc \in {"bypass", "done"}
  /\ preflushed => wire # <<>>
  /\ preflushed /\ ~terminated /\ ~streamed /\ ~Concluded => Contract!Silent
  /\ Contract!Errored => preflushed /\ (terminated \/ Concluded)

IInv == TypeOK /\ Lifecycle /\ WireInv

-----------------------------------------------------------------------------
(***************************************************************************)
(* The frames, and what appending one does to Silent and Errored.          *)
(***************************************************************************)

\* The writer only ever sends frames of the contract.
LEMMA FrameTypes ==
  /\ Contract!Preamble \in Contract!Frames
  /\ Contract!KeepAlive \in Contract!Frames
  /\ Contract!Bytes \in Contract!Frames
  /\ Contract!StatusLine \in Contract!Frames
  /\ \A s \in Codes \cup {BadGateway, GatewayTimeout} :
        Contract!Error(s) \in Contract!Frames
BY DEF Contract!Frames

\* Which frames are errors and which belong to a silence.
LEMMA FrameKinds ==
  /\ Contract!Preamble.kind # "error"
  /\ Contract!KeepAlive.kind # "error"
  /\ Contract!Bytes.kind # "error"
  /\ Contract!StatusLine.kind # "error"
BY DEF Contract!Preamble, Contract!KeepAlive, Contract!Bytes,
       Contract!StatusLine, Contract!Frame

\* Appending a frame that is not an error leaves Errored as it was, and
\* appending a preamble or keep-alive extends a silence.
LEMMA AppendFrame ==
  ASSUME wire \in Seq(Contract!Frames), NEW f \in Contract!Frames,
         wire' = Append(wire, f)
  PROVE  /\ wire' \in Seq(Contract!Frames)
         /\ wire' # <<>>
         /\ f.kind # "error" => (Contract!Errored' <=> Contract!Errored)
         /\ f \in {Contract!Preamble, Contract!KeepAlive}
              /\ (wire = <<>> \/ Contract!Silent) => Contract!Silent'
<1>1. /\ wire' \in Seq(Contract!Frames)
      /\ Len(wire') = Len(wire) + 1
      /\ \A i \in 1..Len(wire) : wire'[i] = wire[i]
      /\ wire'[Len(wire) + 1] = f
  BY AppendProperties
<1>2. Len(wire) \in Nat
  BY LenProperties
<1>3. DOMAIN wire = 1..Len(wire) /\ DOMAIN wire' = 1..(Len(wire) + 1)
  BY <1>1, LenProperties
<1>4. wire' # <<>>
  BY <1>1, <1>2, <1>3
<1>5. \A i \in DOMAIN wire' : i \in DOMAIN wire \/ i = Len(wire) + 1
  BY <1>2, <1>3
<1>6. Len(wire) + 1 \in DOMAIN wire' /\ DOMAIN wire \subseteq DOMAIN wire'
  BY <1>2, <1>3
<1>7. ASSUME f.kind # "error" PROVE Contract!Errored' <=> Contract!Errored
  BY <1>1, <1>3, <1>5, <1>6, <1>7 DEF Contract!Errored
<1>8. ASSUME f \in {Contract!Preamble, Contract!KeepAlive},
             wire = <<>> \/ Contract!Silent
      PROVE  Contract!Silent'
  <2>1. \A i \in DOMAIN wire : wire[i] \in {Contract!Preamble, Contract!KeepAlive}
    BY <1>3, <1>8 DEF Contract!Silent
  <2>2. \A i \in DOMAIN wire' : wire'[i] \in {Contract!Preamble, Contract!KeepAlive}
    BY <1>1, <1>3, <1>5, <1>8, <2>1
  <2>3. QED
    BY <1>4, <2>2 DEF Contract!Silent, Contract!Preamble, Contract!KeepAlive,
                      Contract!Frame, Contract!NoStatus
<1>9. QED
  BY <1>1, <1>4, <1>7, <1>8

\* The status line is sent on an empty wire only; either way no error appears.
LEMMA StatusLineStep ==
  ASSUME wire \in Seq(Contract!Frames), SendStatusLine
  PROVE  /\ wire' \in Seq(Contract!Frames)
         /\ wire' # <<>>
         /\ Contract!Errored' <=> Contract!Errored
<1>1. CASE wire = <<>>
  <2>1. wire' = Append(wire, Contract!StatusLine)
    BY <1>1 DEF SendStatusLine
  <2>2. QED
    BY <2>1, AppendFrame, FrameTypes, FrameKinds
<1>2. CASE wire # <<>>
  BY <1>2 DEF SendStatusLine, Contract!Errored
<1>3. QED
  BY <1>1, <1>2

-----------------------------------------------------------------------------
(***************************************************************************)
(* Type correctness.                                                       *)
(***************************************************************************)

\* w.timer.Stop() keeps the timers typed and arms none.
LEMMA StopTimerType ==
  ASSUME PhasesOK
  PROVE  /\ StopTimer \in [Timers -> {"unarmed", "armed", "stopped", "firing", "spent"}]
         /\ \A t \in Timers : timer[t] = "unarmed" => StopTimer[t] = "unarmed"
BY DEF PhasesOK, StopTimer, Current, Timers

\* The closing error of finish carries a status of the contract.
LEMMA ClosingStatusType ==
  ASSUME CountsOK
  PROVE  ClosingStatus \in Codes \cup {BadGateway, GatewayTimeout}
BY DEF CountsOK, ClosingStatus

\* Only the frames of the contract are ever sent.
LEMMA WireStep ==
  ASSUME CountsOK, wire \in Seq(Contract!Frames), [Next]_vars
  PROVE  wire' \in Seq(Contract!Frames)
<1>1. CASE UNCHANGED wire
  BY <1>1
<1>2. CASE SendStatusLine
  BY <1>2, StatusLineStep
<1>3. ASSUME NEW f \in Contract!Frames, Send(f) PROVE wire' \in Seq(Contract!Frames)
  BY <1>3, AppendFrame DEF Send
<1>4. ASSUME NEW t \in Timers, Expire(t) \/ Callback(t)
      PROVE  UNCHANGED wire \/ Send(Contract!Preamble)
  BY <1>4 DEF Expire, Callback, FlushTooLate, FlushHeld, FlushPreamble
<1>5. Before => UNCHANGED wire
  BY DEF Before, Skip, Arm, ReadField, ReadEOF, ReadError, Disarm, UploadFailed,
         Install
<1>6. Heartbeat => \/ UNCHANGED wire
                   \/ Send(Contract!KeepAlive)
                   \/ Send(Contract!Error(GatewayTimeout))
  BY DEF Heartbeat, HeartbeatStop, HeartbeatRetire, HeartbeatBeat,
         HeartbeatTimeout, HeartbeatCancel, HeartbeatNote
<1>7. Handler => UNCHANGED wire \/ SendStatusLine \/ Send(Contract!Bytes)
  BY DEF Handler, HandlerCall, WriteHeader, Write, FlushCall, BypassCall,
         HandlerReturn, HandlerPanic
<1>8. After => \/ UNCHANGED wire \/ SendStatusLine
               \/ Send(Contract!Error(ClosingStatus))
  BY DEF After, FinishClose, FinishJoin, FinishConclude, FinishCancel, Recover,
         WriteHeader, Recovered
<1>9. HangUp \/ Finished \/ UNCHANGED vars => UNCHANGED wire
  BY DEF HangUp, Finished, vars
<1>10. QED
  BY <1>1, <1>2, <1>3, <1>4, <1>5, <1>6, <1>7, <1>8, <1>9, FrameTypes,
     ClosingStatusType DEF Next

\* The program counters and the notes stay in their sets.
LEMMA PhasesStep ==
  ASSUME PhasesOK, [Next]_vars
  PROVE  PhasesOK'
<1>1. CASE Before
  <2>1. CASE Disarm \/ Install \/ Arm
    BY <2>1, StopTimerType DEF PhasesOK, Disarm, TryDisarm, Install, Arm, body,
                               flags, beat, ctx, Timers
  <2>2. CASE Skip \/ ReadField \/ ReadEOF \/ ReadError \/ UploadFailed
    BY <2>2 DEF PhasesOK, Skip, ReadField, ReadEOF, ReadError, UploadFailed,
                body, beat
  <2>3. QED
    BY <1>1, <2>1, <2>2 DEF Before
<1>2. ASSUME NEW t \in Timers, Expire(t) \/ Callback(t) PROVE PhasesOK'
  BY <1>2 DEF PhasesOK, Expire, Callback, FlushTooLate, FlushHeld,
              FlushPreamble, body, beat
<1>3. CASE Heartbeat
  BY <1>3 DEF PhasesOK, Heartbeat, HeartbeatStop, HeartbeatRetire, HeartbeatBeat,
              HeartbeatTimeout, HeartbeatCancel, HeartbeatNote, body
<1>4. CASE Handler
  BY <1>4, StopTimerType
     DEF PhasesOK, Handler, HandlerCall, WriteHeader, Write, FlushCall,
         BypassCall, HandlerReturn, HandlerPanic, body, beat
<1>5. CASE After
  BY <1>5, StopTimerType
     DEF PhasesOK, After, FinishClose, FinishJoin, FinishConclude, FinishCancel,
         Recover, WriteHeader, Recovered, body, beat
<1>6. CASE HangUp \/ Finished \/ UNCHANGED vars
  BY <1>6 DEF PhasesOK, HangUp, Finished, vars, body, beat
<1>7. QED
  BY <1>1, <1>2, <1>3, <1>4, <1>5, <1>6 DEF Next

\* The writer's flags stay boolean.
LEMMA WriterFlagsStep ==
  ASSUME WriterFlagsOK, [Next]_vars
  PROVE  WriterFlagsOK'
<1>1. CASE Before
  BY <1>1 DEF WriterFlagsOK, Before, Skip, Arm, ReadField, ReadEOF, ReadError,
              Disarm, TryDisarm, UploadFailed, Install, body, flags, beat, ctx
<1>2. ASSUME NEW t \in Timers, Expire(t) \/ Callback(t) PROVE WriterFlagsOK'
  BY <1>2 DEF WriterFlagsOK, Expire, Callback, FlushTooLate, FlushHeld,
              FlushPreamble, body, flags, beat, ctx
<1>3. CASE Heartbeat
  BY <1>3 DEF WriterFlagsOK, Heartbeat, HeartbeatStop, HeartbeatRetire,
              HeartbeatBeat, HeartbeatTimeout, HeartbeatCancel, HeartbeatNote,
              body, flags, ctx
<1>4. CASE Handler
  <2>1. CASE HandlerCall
    BY <2>1 DEF WriterFlagsOK, HandlerCall, WriteHeader, Write, FlushCall, body,
                beat, ctx
  <2>2. CASE BypassCall \/ HandlerReturn \/ HandlerPanic
    BY <2>2 DEF WriterFlagsOK, BypassCall, HandlerReturn, HandlerPanic, body,
                flags, beat, ctx
  <2>3. QED
    BY <1>4, <2>1, <2>2 DEF Handler
<1>5. CASE After
  BY <1>5 DEF WriterFlagsOK, After, FinishClose, FinishJoin, FinishConclude,
              FinishCancel, Recover, WriteHeader, Recovered, body, flags, beat, ctx
<1>6. CASE HangUp \/ Finished \/ UNCHANGED vars
  BY <1>6 DEF WriterFlagsOK, HangUp, Finished, vars, body, flags, beat, ctx
<1>7. QED
  BY <1>1, <1>2, <1>3, <1>4, <1>5, <1>6 DEF Next

\* So do the flags of the request around it.
LEMMA RequestFlagsStep ==
  ASSUME RequestFlagsOK, [Next]_vars
  PROVE  RequestFlagsOK'
<1>1. CASE Before
  BY <1>1 DEF RequestFlagsOK, Before, Skip, Arm, ReadField, ReadEOF, ReadError,
              Disarm, TryDisarm, UploadFailed, Install, body, flags, beat, ctx
<1>2. ASSUME NEW t \in Timers, Expire(t) \/ Callback(t) PROVE RequestFlagsOK'
  BY <1>2 DEF RequestFlagsOK, Expire, Callback, FlushTooLate, FlushHeld,
              FlushPreamble, body, flags, beat, ctx
<1>3. CASE Heartbeat
  BY <1>3 DEF RequestFlagsOK, Heartbeat, HeartbeatStop, HeartbeatRetire,
              HeartbeatBeat, HeartbeatTimeout, HeartbeatCancel, HeartbeatNote,
              body, flags, ctx
<1>4. CASE Handler
  <2>1. CASE HandlerCall
    BY <2>1 DEF RequestFlagsOK, HandlerCall, WriteHeader, Write, FlushCall, body,
                beat, ctx
  <2>2. CASE BypassCall \/ HandlerReturn \/ HandlerPanic
    BY <2>2 DEF RequestFlagsOK, BypassCall, HandlerReturn, HandlerPanic, body,
                flags, beat, ctx
  <2>3. QED
    BY <1>4, <2>1, <2>2 DEF Handler
<1>5. CASE After
  BY <1>5 DEF RequestFlagsOK, After, FinishClose, FinishJoin, FinishConclude,
              FinishCancel, Recover, WriteHeader, Recovered, body, flags, beat, ctx
<1>6. CASE HangUp \/ Finished \/ UNCHANGED vars
  BY <1>6 DEF RequestFlagsOK, HangUp, Finished, vars, body, flags, beat, ctx
<1>7. QED
  BY <1>1, <1>2, <1>3, <1>4, <1>5, <1>6 DEF Next

\* The status and the bounded counters stay in their ranges.
LEMMA CountsStep ==
  ASSUME CountsOK, [Next]_vars
  PROVE  CountsOK'
<1> USE CodesAssumption DEF CodesAssumption
<1>1. CASE Before
  BY <1>1 DEF CountsOK, Before, Skip, Arm, ReadField, ReadEOF, ReadError, Disarm,
              TryDisarm, UploadFailed, Install, flags, beat
<1>2. ASSUME NEW t \in Timers, Expire(t) \/ Callback(t) PROVE CountsOK'
  BY <1>2 DEF CountsOK, Expire, Callback, FlushTooLate, FlushHeld,
              FlushPreamble, flags, beat
<1>3. CASE Heartbeat
  BY <1>3 DEF CountsOK, Heartbeat, HeartbeatStop, HeartbeatRetire, HeartbeatBeat,
              HeartbeatTimeout, HeartbeatCancel, HeartbeatNote, flags
<1>4. CASE Handler
  BY <1>4 DEF CountsOK, Handler, HandlerCall, WriteHeader, Write, FlushCall,
              BypassCall, HandlerReturn, HandlerPanic, flags, beat
<1>5. CASE After
  BY <1>5, ClosingStatusType
     DEF CountsOK, After, FinishClose, FinishJoin, FinishConclude, FinishCancel,
         Recover, WriteHeader, Recovered, flags, beat
<1>6. CASE HangUp \/ Finished \/ UNCHANGED vars
  BY <1>6 DEF CountsOK, HangUp, Finished, vars, flags, beat
<1>7. QED
  BY <1>1, <1>2, <1>3, <1>4, <1>5, <1>6 DEF Next

\* The initial state is typed.
LEMMA TypeInit == Init => TypeOK
<1>1. Init => PhasesOK /\ WriterFlagsOK /\ RequestFlagsOK
  BY DEF Init, PhasesOK, WriterFlagsOK, RequestFlagsOK, Timers
<1>2. Init => CountsOK
  BY CodesAssumption DEF CodesAssumption, Init, CountsOK
<1>3. Init => wire \in Seq(Contract!Frames)
  BY DEF Init
<1>4. QED
  BY <1>1, <1>2, <1>3 DEF TypeOK

\* Every step is typed.
LEMMA TypeStep == TypeOK /\ [Next]_vars => TypeOK'
  BY WireStep, PhasesStep, WriterFlagsStep, RequestFlagsStep, CountsStep
     DEF TypeOK

\* TypeOK holds in every state: the variables of the writer, its timers and its
\* heartbeat never leave their types, and only frames of the contract are sent.
THEOREM TypeCorrect == Spec => []TypeOK
  BY TypeInit, TypeStep, PTL DEF Spec

-----------------------------------------------------------------------------
(***************************************************************************)
(* The inductive invariant.                                                *)
(***************************************************************************)

\* Every step preserves who may still run.
LEMMA LifecycleStep ==
  ASSUME PhasesOK, WriterFlagsOK, Lifecycle, [Next]_vars
  PROVE  Lifecycle'
<1> USE DEF Lifecycle, SilenceCovered, Concluded
<1>1. CASE Before
  <2>1. CASE Disarm
    BY <2>1, StopTimerType DEF Disarm, TryDisarm, body, beat
  <2>2. CASE Install
    BY <2>2, StopTimerType DEF Install, flags, beat, ctx
  <2>3. CASE Skip \/ Arm
    BY <2>3 DEF Skip, Arm, flags, beat, Timers, PhasesOK
  <2>4. CASE ReadField \/ ReadEOF \/ ReadError \/ UploadFailed
    BY <2>4 DEF ReadField, ReadEOF, ReadError, UploadFailed, flags, beat
  <2>5. QED
    BY <1>1, <2>1, <2>2, <2>3, <2>4 DEF Before
<1>2. ASSUME NEW t \in Timers, Expire(t) \/ Callback(t) PROVE Lifecycle'
  <2>1. timer[t] # "unarmed" /\ pc \notin {"enter"}
    BY <1>2 DEF Expire, Callback, FlushTooLate, FlushHeld, FlushPreamble
  <2>2. CASE Expire(t) \/ FlushTooLate(t) \/ FlushHeld(t)
    BY <2>1, <2>2 DEF Expire, FlushTooLate, FlushHeld, flags, beat
  <2>3. CASE FlushPreamble(t)
    BY <2>1, <2>3 DEF FlushPreamble, FlushLost
  <2>4. QED
    BY <1>2, <2>2, <2>3 DEF Callback
<1>3. CASE Heartbeat
  BY <1>3 DEF Heartbeat, HeartbeatStop, HeartbeatRetire, HeartbeatBeat,
              HeartbeatTimeout, HeartbeatCancel, HeartbeatNote, SilenceOver,
              flags
<1>4. CASE Handler
  <2>1. CASE HandlerCall
    <3>1. /\ pc = "handler" /\ pc' = "handler"
          /\ UNCHANGED <<preflushed, terminated, closed, hb, hbStopped>>
      BY <2>1 DEF HandlerCall, WriteHeader, Write, FlushCall, beat
    <3>2. (decided => decided') /\ (streamed' => streamed \/ decided')
      BY <2>1 DEF HandlerCall, WriteHeader, Write, FlushCall, WriterFlagsOK
    <3>3. QED
      BY <3>1, <3>2
  <2>2. CASE BypassCall \/ HandlerReturn \/ HandlerPanic
    BY <2>2 DEF BypassCall, HandlerReturn, HandlerPanic, flags, beat
  <2>3. QED
    BY <1>4, <2>1, <2>2 DEF Handler
<1>5. CASE After
  <2>1. CASE FinishClose \/ FinishJoin
    BY <2>1 DEF FinishClose, FinishJoin, Joined, flags, beat
  <2>2. CASE FinishConclude \/ FinishCancel
    BY <2>2 DEF FinishConclude, FinishCancel, flags, beat
  <2>3. CASE Recover
    <3>1. /\ pc = "recover" /\ pc' = "recovered"
          /\ UNCHANGED <<preflushed, streamed, terminated, closed, hb, hbStopped>>
      BY <2>3 DEF Recover, WriteHeader, beat
    <3>2. decided => decided'
      BY <2>3 DEF Recover, WriteHeader
    <3>3. QED
      BY <3>1, <3>2
  <2>4. CASE Recovered
    BY <2>4 DEF Recovered, flags, beat
  <2>5. QED
    BY <1>5, <2>1, <2>2, <2>3, <2>4 DEF After
<1>6. CASE HangUp \/ Finished \/ UNCHANGED vars
  BY <1>6 DEF HangUp, Finished, vars, flags, beat
<1>7. QED
  BY <1>1, <1>2, <1>3, <1>4, <1>5, <1>6 DEF Next

\* Every step keeps the flags in agreement with the frames sent.
LEMMA WireInvStep ==
  ASSUME TypeOK, Lifecycle, WireInv, [Next]_vars
  PROVE  WireInv'
<1> USE DEF WireInv, Concluded
<1>1. ASSUME UNCHANGED wire
      PROVE  /\ Contract!Silent' <=> Contract!Silent
             /\ Contract!Errored' <=> Contract!Errored
  BY <1>1 DEF Contract!Silent, Contract!Errored
<1>2. wire = <<>> => ~Contract!Errored
  BY DEF Contract!Errored
<1>3. CASE Before
  <2>1. UNCHANGED <<wire, decided, preflushed, terminated, streamed>>
    BY <1>3 DEF Before, Skip, Arm, ReadField, ReadEOF, ReadError, Disarm,
                TryDisarm, UploadFailed, Install, flags
  <2>2. /\ pc' \notin {"cancel", "recover", "recovered", "done"}
        /\ pc \notin {"bypass", "cancel", "recover", "recovered", "done"}
    BY <1>3 DEF Before, Skip, Arm, ReadField, ReadEOF, ReadError, Disarm,
                TryDisarm, UploadFailed, Install
  <2>3. QED
    BY <1>1, <2>1, <2>2
<1>4. ASSUME NEW t \in Timers, Expire(t) \/ Callback(t) PROVE WireInv'
  <2>1. CASE Expire(t) \/ FlushTooLate(t) \/ FlushHeld(t)
    BY <1>1, <2>1 DEF Expire, FlushTooLate, FlushHeld, flags
  <2>2. CASE FlushPreamble(t)
    <3>1. wire = <<>>
      BY <2>2 DEF FlushPreamble, FlushLost, Lifecycle
    <3>2. wire' # <<>> /\ Contract!Silent' /\ ~Contract!Errored'
      BY <2>2, <3>1, <1>2, AppendFrame, FrameTypes, FrameKinds
         DEF FlushPreamble, Send, TypeOK
    <3>3. QED
      BY <2>2, <3>2 DEF FlushPreamble
  <2>3. QED
    BY <1>4, <2>1, <2>2 DEF Callback
<1>5. CASE Heartbeat
  <2>1. CASE HeartbeatBeat
    <3>1. Contract!Silent /\ ~Contract!Errored
      BY <2>1 DEF HeartbeatBeat, SilenceOver, Lifecycle
    <3>2. wire' # <<>> /\ Contract!Silent' /\ ~Contract!Errored'
      BY <2>1, <3>1, AppendFrame, FrameTypes, FrameKinds
         DEF HeartbeatBeat, Send, TypeOK
    <3>3. QED
      BY <2>1, <3>2 DEF HeartbeatBeat, flags, Lifecycle
  <2>2. CASE HeartbeatTimeout
    <3>1. wire' # <<>>
      BY <2>2, AppendFrame, FrameTypes DEF HeartbeatTimeout, Send, TypeOK
    <3>2. QED
      BY <2>2, <3>1 DEF HeartbeatTimeout, Lifecycle
  <2>3. CASE HeartbeatStop \/ HeartbeatRetire \/ HeartbeatCancel \/ HeartbeatNote
    BY <1>1, <2>3 DEF HeartbeatStop, HeartbeatRetire, HeartbeatCancel,
                      HeartbeatNote, flags
  <2>4. QED
    BY <1>5, <2>1, <2>2, <2>3 DEF Heartbeat
<1>6. CASE Handler
  <2>1. CASE HandlerCall
    <3>1. pc = "handler" /\ pc' = "handler"
      BY <2>1 DEF HandlerCall
    <3>2. ASSUME NEW code \in Codes, WriteHeader(code) PROVE WireInv'
      BY <1>1, <3>1, <3>2, StatusLineStep DEF WriteHeader, Untouched, TypeOK
    <3>3. ASSUME Write PROVE WireInv'
      <4>1. ASSUME Send(Contract!Bytes)
            PROVE  wire' # <<>> /\ (Contract!Errored' <=> Contract!Errored)
        BY <4>1, AppendFrame, FrameTypes, FrameKinds DEF Send, TypeOK
      <4>2. CASE Untouched
        BY <3>1, <3>3, <4>1, <4>2 DEF Write, Untouched
      <4>3. CASE ~Untouched /\ (Ended \/ translating)
        <5>1. UNCHANGED <<wire, streamed, preflushed, terminated>>
          BY <3>3, <4>3 DEF Write
        <5>2. QED
          BY <1>1, <3>1, <4>3, <5>1 DEF Untouched
      <4>4. CASE ~Untouched /\ ~Ended /\ ~translating
        BY <3>1, <3>3, <4>1, <4>4 DEF Write, Untouched
      <4>5. QED
        BY <4>2, <4>3, <4>4
    <3>4. ASSUME FlushCall PROVE WireInv'
      BY <1>1, <3>1, <3>4, StatusLineStep DEF FlushCall, Untouched, TypeOK
    <3>5. QED
      BY <2>1, <3>2, <3>3, <3>4 DEF HandlerCall
  <2>2. CASE BypassCall
    <3>1. pc = "bypass" /\ pc' = "bypass" /\ UNCHANGED <<decided, preflushed>>
      BY <2>2 DEF BypassCall, flags
    <3>2. wire' # <<>> /\ (Contract!Errored' <=> Contract!Errored)
      BY <2>2, StatusLineStep, AppendFrame, FrameTypes, FrameKinds
         DEF BypassCall, Send, TypeOK
    <3>3. QED
      BY <3>1, <3>2 DEF Lifecycle
  <2>3. CASE HandlerReturn \/ HandlerPanic
    BY <1>1, <2>3 DEF HandlerReturn, HandlerPanic, flags, Lifecycle
  <2>4. QED
    BY <1>6, <2>1, <2>2, <2>3 DEF Handler
<1>7. CASE After
  <2>1. CASE FinishConclude
    <3>1. CASE NeedsError
      <4>1. wire' # <<>>
        BY <2>1, <3>1, AppendFrame, FrameTypes, ClosingStatusType
           DEF FinishConclude, Send, TypeOK
      <4>2. QED
        BY <2>1, <3>1, <4>1 DEF FinishConclude, NeedsError
    <3>2. CASE ~NeedsError
      BY <1>1, <2>1, <3>2 DEF FinishConclude
    <3>3. QED
      BY <3>1, <3>2
  <2>2. CASE Recover
    BY <1>1, <2>2, StatusLineStep DEF Recover, WriteHeader, Untouched, TypeOK
  <2>3. CASE FinishClose \/ FinishJoin \/ FinishCancel \/ Recovered
    BY <1>1, <2>3 DEF FinishClose, FinishJoin, FinishCancel, Recovered, flags
  <2>4. QED
    BY <1>7, <2>1, <2>2, <2>3 DEF After
<1>8. CASE HangUp \/ Finished \/ UNCHANGED vars
  BY <1>1, <1>8 DEF HangUp, Finished, vars, flags
<1>9. QED
  BY <1>3, <1>4, <1>5, <1>6, <1>7, <1>8 DEF Next

\* The inductive invariant holds in every state.
THEOREM Inductive == Spec => []IInv
<1>1. Init => IInv
  <2>1. Init => Lifecycle
    BY DEF Init, Lifecycle, SilenceCovered, Concluded, Timers
  <2>2. Init => WireInv
    BY DEF Init, WireInv, Concluded, Contract!Errored
  <2>3. QED
    BY <2>1, <2>2, TypeInit DEF IInv
<1>2. IInv /\ [Next]_vars => IInv'
  BY TypeStep, LifecycleStep, WireInvStep DEF IInv, TypeOK
<1>3. QED
  BY <1>1, <1>2, PTL DEF Spec

\* A committed stream that is silent, live and unfinished always has its
\* heartbeat running, whatever the timers, the handler and the client do.
THEOREM SilenceIsCovered == Spec => []SilenceCovered
<1>1. IInv => SilenceCovered
  BY DEF IInv, Lifecycle
<1>2. QED
  BY <1>1, Inductive, PTL

-----------------------------------------------------------------------------
(***************************************************************************)
(* Refinement of StreamContract, with released mapped to pc = "done".      *)
(***************************************************************************)

\* The contract's steps, with the mapping spelt out.
LEMMA Stutter ==
  ASSUME UNCHANGED wire, (pc = "done") <=> (pc' = "done")
  PROVE  UNCHANGED Contract!vars
BY DEF Contract!vars

\* The release of the writer is a step of the contract.
LEMMA ReleaseStep ==
  ASSUME UNCHANGED wire, pc # "done", pc' = "done"
  PROVE  Contract!Next
BY DEF Contract!Next, Contract!Release

\* So is a frame that is sent before.
LEMMA SendStep ==
  ASSUME NEW f, Send(f), pc # "done", pc' # "done"
  PROVE  Contract!Send(f)
BY DEF Send, Contract!Send

\* Opening the response is one of the contract's three openings.
LEMMA OpenStep ==
  ASSUME wire = <<>>, pc # "done", pc' # "done",
         NEW f \in {Contract!Preamble, Contract!StatusLine, Contract!Bytes},
         Send(f)
  PROVE  Contract!Next
BY SendStep DEF Contract!Next, Contract!Open

\* Sending the status line opens an untouched wire and is nothing otherwise.
LEMMA StatusLineRefines ==
  ASSUME SendStatusLine, pc # "done", pc' # "done"
  PROVE  [Contract!Next]_(Contract!vars)
<1>1. CASE wire = <<>>
  <2>1. Send(Contract!StatusLine)
    BY <1>1 DEF SendStatusLine, Send
  <2>2. QED
    BY <1>1, <2>1, OpenStep
<1>2. CASE wire # <<>>
  BY <1>2, Stutter DEF SendStatusLine
<1>3. QED
  BY <1>1, <1>2

\* The handler's bytes either open the response or continue a live one.
LEMMA BytesRefine ==
  ASSUME Send(Contract!Bytes), ~Contract!Errored, pc # "done", pc' # "done"
  PROVE  Contract!Next
<1>1. CASE wire = <<>>
  BY <1>1, OpenStep
<1>2. CASE wire # <<>>
  BY <1>2, SendStep DEF Contract!Next, Contract!Speak
<1>3. QED
  BY <1>1, <1>2

\* Every step of the middleware is a step of the contract or changes nothing
\* the contract sees.
LEMMA StepRefines ==
  ASSUME IInv, [Next]_vars
  PROVE  [Contract!Next]_(Contract!vars)
<1> USE DEF IInv
<1>1. CASE Before
  <2>1. UNCHANGED wire /\ pc # "done" /\ pc' # "done"
    BY <1>1 DEF Before, Skip, Arm, ReadField, ReadEOF, ReadError, Disarm,
                TryDisarm, UploadFailed, Install
  <2>2. QED
    BY <2>1, Stutter
<1>2. ASSUME NEW t \in Timers, Expire(t) \/ Callback(t)
      PROVE  [Contract!Next]_(Contract!vars)
  <2>1. CASE Expire(t) \/ FlushTooLate(t) \/ FlushHeld(t)
    BY <2>1, Stutter DEF Expire, FlushTooLate, FlushHeld
  <2>2. CASE FlushPreamble(t)
    <3>1. wire = <<>> /\ pc # "done"
      BY <2>2 DEF FlushPreamble, FlushLost, Lifecycle, WireInv
    <3>2. pc' # "done" /\ Send(Contract!Preamble)
      BY <2>2, <3>1 DEF FlushPreamble
    <3>3. QED
      BY <3>1, <3>2, OpenStep
  <2>3. QED
    BY <1>2, <2>1, <2>2 DEF Callback
<1>3. CASE Heartbeat
  <2>1. CASE HeartbeatBeat \/ HeartbeatTimeout
    <3>1. Contract!Silent /\ pc # "done" /\ pc' # "done"
      BY <2>1 DEF HeartbeatBeat, HeartbeatTimeout, SilenceOver, Lifecycle,
                  WireInv, Concluded
    <3>2. CASE Send(Contract!KeepAlive)
      BY <3>1, <3>2, SendStep DEF Contract!Next, Contract!Beat
    <3>3. CASE Send(Contract!Error(GatewayTimeout))
      BY <3>1, <3>3, SendStep DEF Contract!Next, Contract!CloseError
    <3>4. QED
      BY <2>1, <3>2, <3>3 DEF HeartbeatBeat, HeartbeatTimeout
  <2>2. CASE HeartbeatStop \/ HeartbeatRetire \/ HeartbeatCancel \/ HeartbeatNote
    BY <2>2, Stutter DEF HeartbeatStop, HeartbeatRetire, HeartbeatCancel,
                         HeartbeatNote
  <2>3. QED
    BY <1>3, <2>1, <2>2 DEF Heartbeat
<1>4. CASE Handler
  <2>1. CASE HandlerCall
    <3>1. pc # "done" /\ pc' # "done"
      BY <2>1 DEF HandlerCall
    <3>2. CASE SendStatusLine
      BY <3>1, <3>2, StatusLineRefines
    <3>3. CASE UNCHANGED wire
      BY <3>1, <3>3, Stutter
    <3>4. CASE Write
      <4>1. CASE UNCHANGED wire
        BY <3>1, <4>1, Stutter
      <4>2. CASE Send(Contract!Bytes) /\ (Untouched \/ ~Ended)
        <5>1. pc = "handler"
          BY <2>1 DEF HandlerCall
        <5>2. ~Contract!Errored
          BY <4>2, <5>1 DEF WireInv, Untouched, Ended, Concluded
        <5>3. QED
          BY <3>1, <4>2, <5>2, BytesRefine
      <4>3. QED
        BY <3>4, <4>1, <4>2 DEF Write
    <3>5. QED
      BY <2>1, <3>2, <3>3, <3>4 DEF HandlerCall, WriteHeader, FlushCall
  <2>2. CASE BypassCall
    <3>1. pc # "done" /\ pc' # "done" /\ ~Contract!Errored
      BY <2>2 DEF BypassCall, Lifecycle, WireInv
    <3>2. QED
      BY <2>2, <3>1, BytesRefine, StatusLineRefines DEF BypassCall
  <2>3. CASE HandlerReturn \/ HandlerPanic
    BY <2>3, Stutter, ReleaseStep DEF HandlerReturn, HandlerPanic
  <2>4. QED
    BY <1>4, <2>1, <2>2, <2>3 DEF Handler
<1>5. CASE After
  <2>1. CASE FinishConclude
    <3>1. pc # "done" /\ pc' # "done"
      BY <2>1 DEF FinishConclude
    <3>2. CASE NeedsError
      <4>1. Contract!Silent /\ Send(Contract!Error(ClosingStatus))
        BY <2>1, <3>2 DEF FinishConclude, NeedsError, WireInv, Concluded
      <4>2. QED
        BY <3>1, <4>1, SendStep, ClosingStatusType
           DEF Contract!Next, Contract!CloseError, TypeOK
    <3>3. CASE ~NeedsError
      BY <2>1, <3>1, <3>3, Stutter DEF FinishConclude
    <3>4. QED
      BY <3>2, <3>3
  <2>2. CASE Recover
    BY <2>2, StatusLineRefines, Stutter DEF Recover, WriteHeader
  <2>3. CASE FinishCancel \/ Recovered
    BY <2>3, Stutter, ReleaseStep DEF FinishCancel, Recovered
  <2>4. CASE FinishClose \/ FinishJoin
    BY <2>4, Stutter DEF FinishClose, FinishJoin
  <2>5. QED
    BY <1>5, <2>1, <2>2, <2>3, <2>4 DEF After
<1>6. CASE HangUp \/ Finished \/ UNCHANGED vars
  BY <1>6, Stutter DEF HangUp, Finished, vars
<1>7. QED
  BY <1>1, <1>2, <1>3, <1>4, <1>5, <1>6 DEF Next

\* The early-flush middleware implements StreamContract: whatever interleaving
\* of timers, heartbeat, handler, panic and hang-up, what reaches the writer is
\* a well-formed response and nothing is written once gin owns it again.
THEOREM Implements == Spec => ImplementsContract
<1>1. Init => Contract!Init
  BY DEF Init, Contract!Init
<1>2. IInv /\ [Next]_vars => [Contract!Next]_(Contract!vars)
  BY StepRefines
<1>3. QED
  BY <1>1, <1>2, Inductive, PTL DEF Spec, ImplementsContract, Contract!Spec

-----------------------------------------------------------------------------
(***************************************************************************)
(* How a committed stream ends, and what is noted of it.                   *)
(***************************************************************************)

\* Why finish itself closed the stream.
ClosingNote == IF uploadErr THEN "uploadCut" ELSE "translated"

\* The watchdog's ending is noted once its goroutine is over; that of finish as
\* it is made; the status on record is the one the client was sent; and what
\* finish leaves without an error the client can tell the end of.
EndInv ==
  /\ terminated => Contract!Errored /\ hb \in {"cancelling", "noting", "exited"}
  /\ hb \in {"cancelling", "noting"} => terminated
  /\ "timedOut" \in notes <=> terminated /\ hb = "exited"
  /\ notes \cap {"uploadCut", "translated"}
       = IF Contract!Errored /\ ~terminated THEN {ClosingNote} ELSE {}
  /\ Contract!Errored => intended = wire[Len(wire)].status
  /\ Concluded /\ preflushed =>
       Contract!Errored \/ streamed \/ (decided /\ ~translating) \/ clientGone

\* What the invariant reads stays the same.
EndVars == <<notes, wire, terminated, intended, preflushed, hb, uploadErr>>

\* A step that leaves alone what was sent and noted, and does not conclude.
LEMMA EndStutter ==
  ASSUME EndInv, UNCHANGED EndVars,
         Concluded' /\ preflushed => /\ Concluded
                                     /\ UNCHANGED <<decided, translating, streamed>>
                                     /\ clientGone => clientGone'
  PROVE  EndInv'
<1>1. Contract!Errored' <=> Contract!Errored
  BY DEF EndVars, Contract!Errored
<1>2. UNCHANGED <<notes, wire, terminated, intended, preflushed, hb, uploadErr>>
  BY DEF EndVars
<1>3. QED
  BY <1>1, <1>2 DEF EndInv, ClosingNote

\* An error event is the last frame, and the stream has then ended in one.
LEMMA ErrorSent ==
  ASSUME wire \in Seq(Contract!Frames), NEW s \in Codes \cup {BadGateway, GatewayTimeout},
         Send(Contract!Error(s))
  PROVE  Contract!Errored' /\ wire'[Len(wire')].status = s
<1>1. /\ wire' = Append(wire, Contract!Error(s)) /\ Contract!Error(s) \in Contract!Frames
      /\ Contract!Error(s).kind = "error" /\ Contract!Error(s).status = s
  BY FrameTypes DEF Send, Contract!Error, Contract!Frame
<1>2. /\ Len(wire') = Len(wire) + 1 /\ wire'[Len(wire) + 1] = Contract!Error(s)
      /\ wire' \in Seq(Contract!Frames)
  BY <1>1, AppendProperties
<1>3. Len(wire) + 1 \in DOMAIN wire'
  BY <1>2, LenProperties
<1>4. QED
  BY <1>1, <1>2, <1>3 DEF Contract!Errored

\* A frame that is no error leaves a stream that has not ended in one as it was.
LEMMA OtherSent ==
  ASSUME EndInv, ~Contract!Errored, ~Contract!Errored',
         UNCHANGED <<notes, terminated, hb, uploadErr>>,
         Concluded' /\ preflushed' => /\ Concluded /\ preflushed
                                      /\ UNCHANGED <<decided, translating, streamed, clientGone>>
  PROVE  EndInv'
BY DEF EndInv, ClosingNote

\* Before finish concludes, only the watchdog ends a stream.
LEMMA NotYet ==
  ASSUME WireInv, EndInv, ~Concluded
  PROVE  Contract!Errored <=> terminated
BY DEF WireInv, EndInv

\* A writer method leaves a stream that has ended alone.
LEMMA EndedCall ==
  ASSUME WriterFlagsOK, preflushed, Ended,
         (\E code \in Codes : WriteHeader(code)) \/ Write \/ FlushCall
  PROVE  UNCHANGED <<wire, decided, translating, streamed, intended, preflushed,
                     terminated, uploadErr>>
BY DEF WriteHeader, Write, FlushCall, Untouched, WriterFlagsOK

\* No writer method sends an error event, or ends the stream.
LEMMA CallKinds ==
  ASSUME TypeOK, (\E code \in Codes : WriteHeader(code)) \/ Write \/ FlushCall
  PROVE  /\ Contract!Errored' <=> Contract!Errored
         /\ UNCHANGED <<preflushed, terminated, closed, uploadErr>>
<1>1. UNCHANGED <<preflushed, terminated, closed, uploadErr>>
  BY DEF WriteHeader, Write, FlushCall
<1>2. UNCHANGED wire \/ SendStatusLine \/ Send(Contract!Bytes)
  BY DEF WriteHeader, Write, FlushCall
<1>3. CASE UNCHANGED wire
  BY <1>3, <1>1 DEF Contract!Errored
<1>4. CASE SendStatusLine
  BY <1>4, <1>1, StatusLineStep DEF TypeOK
<1>5. CASE Send(Contract!Bytes)
  BY <1>5, <1>1, AppendFrame, FrameTypes, FrameKinds DEF Send, TypeOK
<1>6. QED
  BY <1>2, <1>3, <1>4, <1>5

\* Every step keeps the invariant.
LEMMA EndStep ==
  ASSUME IInv, EndInv, [Next]_vars
  PROVE  EndInv'
<1> USE DEF IInv
<1>1. CASE Before
  <2>1. /\ UNCHANGED <<wire, terminated, intended, preflushed, hb>>
        /\ notes' \cap {"timedOut", "uploadCut", "translated"}
             = notes \cap {"timedOut", "uploadCut", "translated"}
        /\ ~Concluded /\ ~Concluded'
    BY <1>1 DEF Before, Skip, Arm, ReadField, ReadEOF, ReadError, Disarm,
                TryDisarm, UploadFailed, Install, flags, beat, Concluded
  <2>2. (Contract!Errored' <=> Contract!Errored) /\ (Contract!Errored <=> terminated)
    BY <2>1, NotYet DEF Contract!Errored
  <2>3. notes' \cap {"uploadCut", "translated"} = notes \cap {"uploadCut", "translated"}
    BY <2>1
  <2>4. "timedOut" \in notes' <=> "timedOut" \in notes
    BY <2>1
  <2> HIDE DEF IInv
  <2>5. QED
    BY <2>1, <2>2, <2>3, <2>4 DEF EndInv
<1>2. ASSUME NEW t \in Timers, Expire(t) \/ Callback(t) PROVE EndInv'
  <2>1. CASE Expire(t) \/ FlushTooLate(t)
    BY <2>1, EndStutter DEF Expire, FlushTooLate, flags, beat, ctx, EndVars, Concluded
  <2>2. CASE FlushHeld(t)
    <3>1. /\ UNCHANGED <<wire, terminated, intended, preflushed, hb, uploadErr, pc>>
          /\ UNCHANGED <<decided, translating, streamed, clientGone>>
          /\ notes' = notes \cup {"held"}
      BY <2>2 DEF FlushHeld, flags, beat, ctx
    <3>2. /\ notes' \cap {"uploadCut", "translated"} = notes \cap {"uploadCut", "translated"}
          /\ "timedOut" \in notes' <=> "timedOut" \in notes
      BY <3>1
    <3>3. (Contract!Errored' <=> Contract!Errored) /\ (Concluded' <=> Concluded)
      BY <3>1 DEF Contract!Errored, Concluded
    <3>4. QED
      BY <3>1, <3>2, <3>3 DEF EndInv, ClosingNote
  <2>3. CASE FlushPreamble(t)
    <3>1. /\ wire = <<>> /\ ~Contract!Errored /\ hb = "none" /\ ~terminated
          /\ ~closed /\ pc \in {"upload", "ruling", "broken", "handler", "finish"}
      BY <2>3 DEF FlushPreamble, FlushLost, Lifecycle, WireInv, Contract!Errored,
                  TypeOK, PhasesOK, Concluded
    <3>2. ~Contract!Errored'
      BY <2>3, <3>1, AppendFrame, FrameTypes, FrameKinds DEF FlushPreamble, Send, TypeOK
    <3>3. /\ notes' = notes \cup {"flushed"} /\ pc' = pc /\ hb' = "beating"
          /\ UNCHANGED <<terminated, uploadErr>>
      BY <2>3 DEF FlushPreamble
    <3>4. /\ notes' \cap {"uploadCut", "translated"} = notes \cap {"uploadCut", "translated"}
          /\ "timedOut" \in notes' <=> "timedOut" \in notes
      BY <3>3
    <3>5. QED
      BY <3>1, <3>2, <3>3, <3>4 DEF EndInv, Concluded
  <2>4. QED
    BY <1>2, <2>1, <2>2, <2>3 DEF Callback
<1>3. CASE Heartbeat
  <2>1. CASE HeartbeatStop \/ HeartbeatRetire
    <3>1. /\ UNCHANGED <<pc, notes, wire, terminated, intended, preflushed, uploadErr>>
          /\ UNCHANGED <<decided, translating, streamed, clientGone>>
          /\ hb = "beating" /\ hb' = "exited"
      BY <2>1 DEF HeartbeatStop, HeartbeatRetire, flags, ctx
    <3>2. Contract!Errored' <=> Contract!Errored
      BY <3>1 DEF Contract!Errored
    <3>3. ~terminated
      BY <3>1 DEF EndInv
    <3>4. QED
      BY <3>1, <3>2, <3>3 DEF EndInv, ClosingNote, Concluded
  <2>2. CASE HeartbeatBeat
    <3>1. ~Contract!Errored /\ ~Concluded
      BY <2>2 DEF HeartbeatBeat, SilenceOver, Lifecycle, WireInv, Concluded
    <3>2. /\ UNCHANGED <<pc, notes, terminated, hb, uploadErr>> /\ Send(Contract!KeepAlive)
      BY <2>2 DEF HeartbeatBeat, flags
    <3>3. ~Contract!Errored'
      BY <3>1, <3>2, AppendFrame, FrameTypes, FrameKinds DEF Send, TypeOK
    <3>4. QED
      BY <3>1, <3>2, <3>3, OtherSent DEF Concluded
  <2>3. CASE HeartbeatTimeout
    <3>1. ~Contract!Errored /\ ~Concluded /\ ~terminated
      BY <2>3 DEF HeartbeatTimeout, SilenceOver, Lifecycle, WireInv, Concluded
    <3>2. Contract!Errored' /\ wire'[Len(wire')].status = GatewayTimeout
      BY <2>3, ErrorSent DEF HeartbeatTimeout, TypeOK
    <3>3. /\ UNCHANGED <<pc, notes>> /\ terminated' /\ intended' = GatewayTimeout
          /\ hb' = "cancelling"
      BY <2>3 DEF HeartbeatTimeout
    <3>4. QED
      BY <3>1, <3>2, <3>3 DEF EndInv, Concluded
  <2>4. CASE HeartbeatCancel
    <3>1. /\ UNCHANGED <<pc, notes, wire, terminated, intended, preflushed, uploadErr>>
          /\ UNCHANGED <<decided, translating, streamed, clientGone>>
          /\ hb = "cancelling" /\ hb' = "noting"
      BY <2>4 DEF HeartbeatCancel, flags
    <3>2. Contract!Errored' <=> Contract!Errored
      BY <3>1 DEF Contract!Errored
    <3>3. QED
      BY <3>1, <3>2 DEF EndInv, ClosingNote, Concluded
  <2>5. CASE HeartbeatNote
    <3>1. /\ UNCHANGED <<pc, wire, terminated, intended, preflushed, uploadErr>>
          /\ UNCHANGED <<decided, translating, streamed, clientGone>>
          /\ hb = "noting" /\ hb' = "exited" /\ notes' = notes \cup {"timedOut"}
      BY <2>5 DEF HeartbeatNote, flags, ctx
    <3>2. Contract!Errored' <=> Contract!Errored
      BY <3>1 DEF Contract!Errored
    <3>3. notes' \cap {"uploadCut", "translated"} = notes \cap {"uploadCut", "translated"}
      BY <3>1
    <3>4. ~Concluded /\ ~Concluded'
      BY <3>1 DEF Lifecycle, Concluded
    <3>5. terminated
      BY <3>1, <3>4 DEF EndInv
    <3>6. QED
      BY <3>1, <3>2, <3>3, <3>4, <3>5 DEF EndInv, ClosingNote
  <2>6. QED
    BY <1>3, <2>1, <2>2, <2>3, <2>4, <2>5 DEF Heartbeat
<1>4. CASE Handler
  <2>1. CASE HandlerCall
    <3>1. /\ pc = "handler" /\ pc' = "handler" /\ UNCHANGED <<notes, hb, clientGone>>
      BY <2>1 DEF HandlerCall, beat, ctx
    <3>2. (\E code \in Codes : WriteHeader(code)) \/ Write \/ FlushCall
      BY <2>1 DEF HandlerCall
    <3>3. Contract!Errored <=> terminated
      BY <3>1, NotYet DEF Concluded
    <3>4. (Contract!Errored' <=> Contract!Errored) /\ UNCHANGED <<terminated, uploadErr>>
      BY <3>2, CallKinds
    <3>5. CASE Contract!Errored
      <4>1. UNCHANGED <<wire, intended>>
        BY <3>2, <3>3, <3>5, EndedCall DEF Ended, Lifecycle, TypeOK
      <4>2. QED
        BY <3>1, <3>3, <3>4, <3>5, <4>1 DEF EndInv, Concluded
    <3>6. CASE ~Contract!Errored
      BY <3>1, <3>4, <3>6, OtherSent DEF Concluded
    <3>7. QED
      BY <3>5, <3>6
  <2>2. CASE BypassCall
    <3>1. pc = "bypass" /\ UNCHANGED <<pc, notes, hb, terminated, uploadErr>>
      BY <2>2 DEF BypassCall, flags, beat
    <3>2. ~Contract!Errored
      BY <3>1 DEF WireInv, Lifecycle
    <3>3. ~Contract!Errored'
      BY <2>2, <3>2, StatusLineStep, AppendFrame, FrameTypes, FrameKinds
         DEF BypassCall, Send, TypeOK
    <3>4. QED
      BY <3>1, <3>2, <3>3, OtherSent DEF Concluded
  <2>3. CASE HandlerReturn \/ HandlerPanic
    <3>1. UNCHANGED EndVars
      BY <2>3 DEF HandlerReturn, HandlerPanic, flags, beat, EndVars
    <3>2. ~(Concluded' /\ preflushed)
      BY <2>3 DEF HandlerReturn, HandlerPanic, Lifecycle, Concluded
    <3>3. QED
      BY <3>1, <3>2, EndStutter
  <2>4. QED
    BY <1>4, <2>1, <2>2, <2>3 DEF Handler
<1>5. CASE After
  <2>1. CASE FinishClose \/ FinishJoin
    <3>1. UNCHANGED EndVars /\ ~Concluded'
      BY <2>1 DEF FinishClose, FinishJoin, flags, beat, EndVars, Concluded
    <3>2. QED
      BY <3>1, EndStutter
  <2>2. CASE FinishConclude
    <3>1. /\ pc = "conclude"
          /\ UNCHANGED <<hb, terminated, uploadErr, preflushed, decided, translating,
                         streamed, clientGone>>
      BY <2>2 DEF FinishConclude, beat, ctx
    <3>2. Contract!Errored <=> terminated
      BY <3>1, NotYet DEF Concluded
    <3>3. CASE NeedsError
      <4>1. ~terminated /\ Send(Contract!Error(ClosingStatus)) /\ intended' = ClosingStatus
            /\ notes' = notes \cup {ClosingNote}
        BY <2>2, <3>3 DEF FinishConclude, NeedsError, ClosingNote
      <4>2. Contract!Errored' /\ wire'[Len(wire')].status = ClosingStatus
        BY <4>1, ErrorSent, ClosingStatusType DEF TypeOK
      <4>3. notes \cap {"uploadCut", "translated"} = {}
        BY <3>2, <4>1 DEF EndInv
      <4>4. /\ notes' \cap {"uploadCut", "translated"} = {ClosingNote}
            /\ "timedOut" \in notes' <=> "timedOut" \in notes
        BY <4>1, <4>3 DEF ClosingNote
      <4>5. ClosingNote' = ClosingNote
        BY <3>1 DEF ClosingNote
      <4>6. QED
        BY <3>1, <4>1, <4>2, <4>4, <4>5 DEF EndInv
    <3>4. CASE ~NeedsError
      <4>1. UNCHANGED <<intended, wire, notes>>
        BY <2>2, <3>4 DEF FinishConclude
      <4>2. Contract!Errored' <=> Contract!Errored
        BY <4>1 DEF Contract!Errored
      <4>3. preflushed => \/ terminated \/ streamed \/ (decided /\ ~translating)
                          \/ clientGone
        BY <3>4 DEF NeedsError
      <4>4. QED
        BY <3>1, <3>2, <4>1, <4>2, <4>3 DEF EndInv, ClosingNote
    <3>5. QED
      BY <3>3, <3>4
  <2>3. CASE FinishCancel \/ Recovered
    <3>1. /\ UNCHANGED EndVars /\ Concluded
          /\ UNCHANGED <<decided, translating, streamed, clientGone>>
      BY <2>3 DEF FinishCancel, Recovered, flags, beat, ctx, EndVars, Concluded
    <3>2. QED
      BY <3>1, EndStutter
  <2>4. CASE Recover
    <3>1. /\ Concluded /\ Concluded' /\ UNCHANGED <<notes, hb, clientGone>> /\ closed
      BY <2>4 DEF Recover, beat, ctx, Concluded, Lifecycle
    <3>2. \E code \in Codes : WriteHeader(code)
      BY <2>4, CodesAssumption DEF Recover, CodesAssumption
    <3>3. CASE preflushed
      <4>1. UNCHANGED <<wire, decided, translating, streamed, intended, preflushed,
                        terminated, uploadErr>>
        BY <3>1, <3>2, <3>3, EndedCall DEF Ended, TypeOK
      <4>2. QED
        BY <3>1, <4>1, EndStutter DEF EndVars
    <3>4. CASE ~preflushed
      <4>1. ~Contract!Errored /\ UNCHANGED <<preflushed, terminated, uploadErr>>
        BY <3>2, <3>4, CallKinds DEF WireInv
      <4>2. ~Contract!Errored'
        BY <3>2, <4>1, CallKinds
      <4>3. QED
        BY <3>1, <3>4, <4>1, <4>2, OtherSent
    <3>5. QED
      BY <3>3, <3>4
  <2>5. QED
    BY <1>5, <2>1, <2>2, <2>3, <2>4 DEF After
<1>6. CASE HangUp \/ Finished \/ UNCHANGED vars
  <2>1. /\ UNCHANGED EndVars /\ UNCHANGED <<pc, decided, translating, streamed>>
        /\ clientGone => clientGone'
    BY <1>6 DEF HangUp, Finished, vars, flags, beat, ctx, EndVars
  <2>2. QED
    BY <2>1, EndStutter DEF Concluded
<1>7. QED
  BY <1>1, <1>2, <1>3, <1>4, <1>5, <1>6 DEF Next

\* A committed stream ends once, in a way the client can tell, and what is noted
\* of it and its status are those of the event it ended in (finish, the watchdog
\* and the notes).
THEOREM StreamsEndAsRecorded == Spec => []EndedAsRecorded
<1>1. Init => EndInv
  BY DEF Init, EndInv, Contract!Errored, Concluded
<1>2. IInv /\ EndInv /\ [Next]_vars => EndInv'
  BY EndStep
<1>3. IInv /\ EndInv => EndedAsRecorded
  <2> SUFFICES ASSUME IInv, EndInv PROVE EndedAsRecorded
    OBVIOUS
  <2>1. EndedExplicitly
    BY DEF EndInv, EndedExplicitly, Concluded
  <2>2. OutcomeRecorded
    <3> SUFFICES ASSUME pc = "done"
                 PROVE  LET why == notes \cap {"timedOut", "uploadCut", "translated"}
                        IN  IF Contract!Errored
                            THEN /\ \E w \in why : why = {w}
                                 /\ uploadErr /\ ~terminated => why = {"uploadCut"}
                                 /\ intended = wire[Len(wire)].status
                            ELSE why = {}
      BY DEF OutcomeRecorded
    <3> DEFINE why == notes \cap {"timedOut", "uploadCut", "translated"}
    <3>1. "timedOut" \in notes <=> terminated
      BY DEF EndInv, IInv, Lifecycle, Concluded
    <3>2. why = (IF terminated THEN {"timedOut"} ELSE {})
                  \cup (notes \cap {"uploadCut", "translated"})
      BY <3>1
    <3>3. /\ notes \cap {"uploadCut", "translated"}
               = IF Contract!Errored /\ ~terminated THEN {ClosingNote} ELSE {}
          /\ terminated => Contract!Errored
          /\ Contract!Errored => intended = wire[Len(wire)].status
      BY DEF EndInv
    <3>4. CASE terminated
      BY <3>2, <3>3, <3>4
    <3>5. CASE ~terminated
      BY <3>2, <3>3, <3>5 DEF ClosingNote
    <3>6. QED
      BY <3>4, <3>5
  <2>3. QED
    BY <2>1, <2>2 DEF EndedAsRecorded
<1>4. QED
  BY <1>1, <1>2, <1>3, Inductive, PTL DEF Spec

-----------------------------------------------------------------------------
(***************************************************************************)
(* What is known of the body when the preamble goes out.                   *)
(***************************************************************************)

\* The sniffer is dropped for a body that streams only; until then a timer
\* that runs asks it.  A preamble was held back for a body that does not.
SniffInv ==
  /\ sniffing \/ field = "other" \/ \A t \in Timers : timer[t] = "unarmed"
  /\ "held" \in notes => arrived /\ field = "false"

\* No step but a callback's commits the preamble.
LEMMA PreambleStep ==
  ASSUME [Next]_vars, ~\E t \in Timers : FlushPreamble(t)
  PROVE  preflushed' = preflushed
BY DEF Next, Before, Skip, Arm, ReadField, ReadEOF, ReadError, Disarm, TryDisarm, UploadFailed,
       Install, Expire, Callback, FlushTooLate, FlushHeld, Heartbeat, HeartbeatStop,
       HeartbeatRetire, HeartbeatBeat, HeartbeatTimeout, HeartbeatCancel, HeartbeatNote, Handler,
       HandlerCall, WriteHeader, Write, FlushCall, BypassCall, HandlerReturn, HandlerPanic, After,
       FinishClose, FinishJoin, FinishConclude, FinishCancel, Recover, Recovered, HangUp, Finished,
       vars, flags

\* The timers, the sniffer and the notes of every step but four.
LEMMA SniffStutter ==
  ASSUME TypeOK, SniffInv, UNCHANGED body, timer' \in {timer, StopTimer},
         "held" \in notes' => "held" \in notes
  PROVE  SniffInv'
<1>1. \A t \in Timers : timer[t] = "unarmed" => timer'[t] = "unarmed"
  BY StopTimerType DEF TypeOK
<1> QED BY <1>1 DEF SniffInv, body

\* Every step.
LEMMA SniffStep == TypeOK /\ SniffInv /\ [Next]_vars => SniffInv'
<1> SUFFICES ASSUME TypeOK, SniffInv, [Next]_vars PROVE SniffInv'
  OBVIOUS
<1>1. CASE Arm
  <2>1. sniffing' = TRUE /\ \E n \in {{}, {"duplexUnavailable"}} : notes' = notes \cup n
    BY <1>1 DEF Arm
  <2>2. "held" \in notes' => "held" \in notes
    BY <2>1
  <2>3. UNCHANGED <<field, arrived>>
    BY <1>1 DEF Arm
  <2> QED BY <2>1, <2>2, <2>3 DEF SniffInv
<1>2. CASE ReadField
  BY <1>2 DEF ReadField, SniffInv
<1>3. CASE Install
  <2>1. CASE closed \/ preflushed
    BY <1>3, <2>1 DEF Install, SniffInv
  <2>2. CASE ~(closed \/ preflushed)
    <3>1. field = "other" /\ UNCHANGED <<field, arrived, notes>>
      BY <1>3, <2>2 DEF Install, RuledStreaming
    <3> QED BY <3>1 DEF SniffInv
  <2> QED BY <2>1, <2>2
<1>4. ASSUME NEW t \in Timers, Expire(t) \/ Callback(t) PROVE SniffInv'
  <2>1. timer[t] \in {"armed", "firing"} /\ UNCHANGED body
    BY <1>4 DEF Expire, Callback, FlushTooLate, FlushHeld, FlushPreamble
  <2>2. sniffing \/ field = "other"
    BY <2>1 DEF SniffInv
  <2>3. "held" \in notes' => arrived /\ field = "false"
    <3>1. CASE FlushHeld(t)
      BY <2>2, <3>1 DEF FlushHeld, FlushVerdict, Verdict
    <3>2. CASE ~FlushHeld(t)
      BY <1>4, <3>2 DEF Expire, Callback, FlushTooLate, FlushPreamble, SniffInv
    <3> QED BY <3>1, <3>2
  <2> QED BY <2>1, <2>2, <2>3 DEF SniffInv, body
<1>5. CASE \/ Before /\ ~Arm /\ ~ReadField /\ ~Install
           \/ Heartbeat \/ Handler \/ After \/ HangUp \/ Finished \/ UNCHANGED vars
  <2>1. UNCHANGED body /\ timer' \in {timer, StopTimer}
    BY <1>5 DEF Before, Skip, ReadEOF, ReadError, Disarm, TryDisarm, UploadFailed,
       Heartbeat, HeartbeatStop,
       HeartbeatRetire, HeartbeatBeat, HeartbeatTimeout, HeartbeatCancel, HeartbeatNote, Handler,
       HandlerCall, WriteHeader, Write, FlushCall, BypassCall, HandlerReturn, HandlerPanic, After,
       FinishClose, FinishJoin, FinishConclude, FinishCancel, Recover, Recovered, HangUp, Finished,
       vars
  <2>2. "held" \in notes' => "held" \in notes
    BY <1>5 DEF Before, Skip, ReadEOF, ReadError, Disarm, TryDisarm, UploadFailed,
       Heartbeat, HeartbeatStop,
       HeartbeatRetire, HeartbeatBeat, HeartbeatTimeout, HeartbeatCancel, HeartbeatNote, Handler,
       HandlerCall, BypassCall, HandlerReturn, HandlerPanic, After,
       FinishClose, FinishJoin, FinishConclude, FinishCancel, Recover, Recovered, HangUp, Finished,
       vars
  <2> QED BY <2>1, <2>2, SniffStutter
<1> QED BY <1>1, <1>2, <1>3, <1>4, <1>5 DEF Next, Before

\* The preamble (flushNow) is never committed over a body known to say
\* stream:false, nor for a request it was held back from for that reason.
THEOREM PreambleOnlyOverStreams == Spec => NoPreambleOverJSON
<1>1. Init => TypeOK /\ SniffInv
  BY TypeInit DEF Init, SniffInv
<1>2. TypeOK /\ SniffInv /\ [Next]_vars => TypeOK' /\ SniffInv'
  BY TypeStep, SniffStep
<1>3. TypeOK /\ SniffInv /\ [Next]_vars =>
        [preflushed' /\ ~preflushed => ~(arrived /\ field = "false") /\ "held" \notin notes']_vars
  <2> SUFFICES ASSUME SniffInv, [Next]_vars, preflushed', ~preflushed
               PROVE  ~(arrived /\ field = "false") /\ "held" \notin notes'
    OBVIOUS
  <2>1. PICK t \in Timers : FlushPreamble(t)
    BY PreambleStep
  <2>2. /\ timer[t] = "firing" /\ FlushVerdict # "nonstreaming" /\ notes' = notes \cup {"flushed"}
    BY <2>1 DEF FlushPreamble
  <2>3. sniffing \/ field = "other"
    BY <2>2 DEF SniffInv
  <2>4. ~(arrived /\ field = "false")
    BY <2>2, <2>3 DEF FlushVerdict, Verdict
  <2> QED BY <2>2, <2>4 DEF SniffInv
<1> QED BY <1>1, <1>2, <1>3, PTL DEF Spec, NoPreambleOverJSON
=============================================================================
