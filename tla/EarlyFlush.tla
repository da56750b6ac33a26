----------------------------- MODULE EarlyFlush -----------------------------
(***************************************************************************)
(* proxy/earlyflush.go: one POST /v1/messages request under the            *)
(* early-flush middleware.  Three goroutines meet in earlyFlushWriter and  *)
(* serialise on its mutex, so each critical section is one action:         *)
(*   - the request goroutine: reads the body, rules on it, runs the        *)
(*     handler and finally finish();                                       *)
(*   - timer callbacks (flushNow): the desperation timer armed before the  *)
(*     upload, and the threshold timer rearm() puts in its place.  A       *)
(*     callback that has started but not yet taken the lock is "firing":   *)
(*     Stop no longer reaches it;                                          *)
(*   - the heartbeat goroutine the preamble starts, which is also the      *)
(*     silence watchdog.                                                   *)
(* The environment decides what the body says and when, when the client    *)
(* hangs up, and which writer calls the handler makes.                     *)
(***************************************************************************)
EXTENDS Naturals, Sequences

CONSTANTS
  Codes,     \* statuses a handler may write
  Failures,  \* those of Codes that are >= 400
  MaxOps,    \* bound: writer calls one handler makes
  MaxBeats   \* bound: keep-alives before the silence deadline (16 in the code)

BadGateway     == 502
GatewayTimeout == 504
InternalError  == 500   \* what gin's recovery answers a panic with

ASSUME CodesAssumption ==
  /\ Codes \subseteq Nat \ {0}
  /\ Failures \subseteq Codes
  /\ InternalError \in Failures
  /\ MaxOps \in Nat
  /\ MaxBeats \in Nat

VARIABLES
  pc,          \* where the request goroutine is
  field,       \* what the whole body says of "stream"
  arrived,     \* that field is in the prefix read so far
  timer,       \* the two AfterFunc timers
  sniffing,    \* w.sniffVerdict # nil
  decided, preflushed, streamed, translating, terminated, closed,
  intended,    \* w.intended; 0 is "none"
  uploadErr,   \* w.uploadErr # nil
  hb,          \* the heartbeat goroutine
  hbStopped,   \* hbStop has been closed
  beats,       \* keep-alives sent
  clientGone,  \* reqCtx.Err() # nil
  cancelled,   \* the derived context the handler runs under has ended
  panicked,    \* the handler left by a panic
  ops,         \* writer calls the handler has made
  wire,        \* frames that reached the writer underneath
  notes        \* self-reports made to the journal

flags == <<decided, preflushed, streamed, translating, terminated, closed,
           intended, uploadErr>>
body  == <<field, arrived, sniffing>>
beat  == <<hb, hbStopped, beats>>
ctx   == <<clientGone, cancelled>>
vars  == <<pc, timer, body, flags, beat, ctx, panicked, ops, wire, notes>>

Timers == {"desperation", "threshold"}

Contract == INSTANCE StreamContract
              WITH Status   <- Codes \cup {BadGateway, GatewayTimeout},
                   released <- pc = "done"

Send(f) == wire' = Append(wire, f)

-----------------------------------------------------------------------------
(***************************************************************************)
(* Shared pieces of the writer.                                            *)
(***************************************************************************)

\* sniffStreamField on whatever prefix has arrived.
Verdict == IF ~arrived THEN "unknown"
           ELSE IF field = "false" THEN "nonstreaming" ELSE "streaming"

\* The middleware's predicate on the complete body: present and not false.
RuledStreaming == field = "other"

\* w.timer is the timer armed last.
Current == IF timer["threshold"] = "unarmed" THEN "desperation" ELSE "threshold"

\* w.timer.Stop(): reaches a pending timer, not a callback already running.
StopTimer == [timer EXCEPT ![Current] = IF @ = "armed" THEN "stopped" ELSE @]

\* Whether a handler call in this state still goes straight to the wire.
Untouched == ~preflushed
\* Whether the stream has been ended under the handler.
Ended == terminated \/ closed

\* The underlying writer sends its status line once, before anything else.
SendStatusLine == wire' = IF wire = <<>> THEN <<Contract!StatusLine>> ELSE wire

\* tryDisarm(): retire a writer that was never installed.  The caller's cancel()
\* belongs to the successful branch of every call.
TryDisarm ==
  /\ ~preflushed
  /\ closed' = TRUE
  /\ timer' = StopTimer
  /\ cancelled' = TRUE
  /\ UNCHANGED <<decided, preflushed, streamed, translating, terminated,
                 intended, uploadErr, clientGone>>

-----------------------------------------------------------------------------
(***************************************************************************)
(* The request goroutine, up to the handler.                               *)
(***************************************************************************)

\* Wrong method, path or length: the handler gets gin's own writer.
Skip ==
  /\ pc = "enter"
  /\ pc' = "bypass"
  /\ UNCHANGED <<timer, body, flags, beat, ctx, panicked, ops, wire, notes>>

\* The writer is built, the duplex switch is thrown and the desperation timer
\* starts.  A failed switch only adds a note and changes when an upload fails.
Arm ==
  /\ pc = "enter"
  /\ pc' = "upload"
  /\ sniffing' = TRUE
  /\ timer' = [timer EXCEPT !["desperation"] = "armed"]
  /\ \E n \in {{}, {"duplexUnavailable"}} : notes' = notes \cup n
  /\ UNCHANGED <<field, arrived, flags, beat, ctx, panicked, ops, wire>>

\* The chunk that carries the stream field is appended to the sniffer's buffer.
ReadField ==
  /\ pc = "upload"
  /\ field # "absent"
  /\ ~arrived
  /\ arrived' = TRUE
  /\ UNCHANGED <<pc, timer, field, sniffing, flags, beat, ctx, panicked, ops,
                 wire, notes>>

\* readAll reaches EOF with the complete body.
ReadEOF ==
  /\ pc = "upload"
  /\ arrived = (field # "absent")
  /\ pc' = "ruling"
  /\ UNCHANGED <<timer, body, flags, beat, ctx, panicked, ops, wire, notes>>

\* The body stops arriving (connection cut, or closed under a half-duplex
\* response).
ReadError ==
  /\ pc = "upload"
  /\ pc' = "broken"
  /\ UNCHANGED <<timer, body, flags, beat, ctx, panicked, ops, wire, notes>>

\* A broken upload, or a complete non-streaming body, while no preamble is out:
\* the request goes on without the wrapper.
Disarm ==
  /\ \/ pc = "broken"
     \/ pc = "ruling" /\ ~RuledStreaming
  /\ TryDisarm
  /\ pc' = "bypass"
  /\ UNCHANGED <<body, beat, panicked, ops, wire, notes>>

\* The preamble went out for a body that never finished arriving: uploadFailed,
\* then finish; the handler never runs.
UploadFailed ==
  /\ pc = "broken"
  /\ preflushed
  /\ uploadErr' = TRUE
  /\ pc' = "finish"
  /\ UNCHANGED <<timer, body, decided, preflushed, streamed, translating,
                 terminated, closed, intended, beat, ctx, panicked, ops, wire,
                 notes>>

\* The body streams, or the preamble is already out for one that does not: the
\* wrapper is installed.  rearm() is a no-op once the preamble is out.
Install ==
  /\ pc = "ruling"
  /\ RuledStreaming \/ preflushed
  /\ pc' = "handler"
  /\ IF closed \/ preflushed
     THEN UNCHANGED <<timer, sniffing>>
     ELSE /\ sniffing' = FALSE
          /\ timer' = [StopTimer EXCEPT !["threshold"] = "armed"]
  /\ UNCHANGED <<field, arrived, flags, beat, ctx, panicked, ops, wire, notes>>

-----------------------------------------------------------------------------
(***************************************************************************)
(* The timer callbacks.                                                    *)
(***************************************************************************)

\* The runtime starts the callback; from here Stop is too late.
Expire(t) ==
  /\ timer[t] = "armed"
  /\ timer' = [timer EXCEPT ![t] = "firing"]
  /\ UNCHANGED <<pc, body, flags, beat, ctx, panicked, ops, wire, notes>>

\* Mutant of FlushLost: no tombstone check.
FlushLostNoTombstone == decided \/ preflushed

\* flushNow's first test: the request is over, decided or already flushed.
FlushLost == closed \/ decided \/ preflushed

FlushTooLate(t) ==
  /\ timer[t] = "firing"
  /\ FlushLost
  /\ timer' = [timer EXCEPT ![t] = "spent"]
  /\ UNCHANGED <<pc, body, flags, beat, ctx, panicked, ops, wire, notes>>

\* Mutant of FlushVerdict: the bet that every large body streams.
FlushVerdictBlind == "streaming"

\* What flushNow knows of the body: the prefix while it is being sniffed, and
\* "streaming" once rearm has dropped the sniffer.
FlushVerdict == IF sniffing THEN Verdict ELSE "streaming"

\* flushNow holds fire on a proven stream:false.
FlushHeld(t) ==
  /\ timer[t] = "firing"
  /\ ~FlushLost
  /\ FlushVerdict = "nonstreaming"
  /\ timer' = [timer EXCEPT ![t] = "spent"]
  /\ notes' = notes \cup {"held"}
  /\ UNCHANGED <<pc, body, flags, beat, ctx, panicked, ops, wire>>

\* flushNow commits the preamble and starts the heartbeat.
FlushPreamble(t) ==
  /\ timer[t] = "firing"
  /\ ~FlushLost
  /\ FlushVerdict # "nonstreaming"
  /\ timer' = [timer EXCEPT ![t] = "spent"]
  /\ preflushed' = TRUE
  /\ Send(Contract!Preamble)
  /\ notes' = notes \cup {"flushed"}
  /\ hb' = "beating"
  /\ UNCHANGED <<pc, body, decided, streamed, translating, terminated, closed,
                 intended, uploadErr, hbStopped, beats, ctx, panicked, ops>>

-----------------------------------------------------------------------------
(***************************************************************************)
(* The heartbeat goroutine.                                                *)
(***************************************************************************)

\* Mutant of SilenceOver: the goroutine gives up once its beats are spent.
SilenceOverWhenSpent == closed \/ decided \/ terminated \/ beats = MaxBeats

\* The test every tick makes first.
SilenceOver == closed \/ decided \/ terminated

\* select takes the closed stop channel.
HeartbeatStop ==
  /\ hb = "beating"
  /\ hbStopped
  /\ hb' = "exited"
  /\ UNCHANGED <<pc, timer, body, flags, hbStopped, beats, ctx, panicked, ops,
                 wire, notes>>

\* A tick finds the silence over.
HeartbeatRetire ==
  /\ hb = "beating"
  /\ SilenceOver
  /\ hb' = "exited"
  /\ UNCHANGED <<pc, timer, body, flags, hbStopped, beats, ctx, panicked, ops,
                 wire, notes>>

\* A tick inside the deadline.
HeartbeatBeat ==
  /\ hb = "beating"
  /\ ~SilenceOver
  /\ beats < MaxBeats
  /\ beats' = beats + 1
  /\ Send(Contract!KeepAlive)
  /\ UNCHANGED <<pc, timer, body, flags, hb, hbStopped, ctx, panicked, ops,
                 notes>>

\* A tick past the deadline; a slow ticker may have delivered fewer beats.
HeartbeatTimeout ==
  /\ hb = "beating"
  /\ ~SilenceOver
  /\ terminated' = TRUE
  /\ intended' = GatewayTimeout
  /\ Send(Contract!Error(GatewayTimeout))
  /\ hb' = "cancelling"
  /\ UNCHANGED <<pc, timer, body, decided, preflushed, streamed, translating,
                 closed, uploadErr, hbStopped, beats, ctx, panicked, ops, notes>>

\* cancelHandler(), outside the lock.
HeartbeatCancel ==
  /\ hb = "cancelling"
  /\ hb' = "noting"
  /\ cancelled' = TRUE
  /\ UNCHANGED <<pc, timer, body, flags, hbStopped, beats, clientGone, panicked,
                 ops, wire, notes>>

\* notes.timedOut; the deferred close(done) follows.
HeartbeatNote ==
  /\ hb = "noting"
  /\ hb' = "exited"
  /\ notes' = notes \cup {"timedOut"}
  /\ UNCHANGED <<pc, timer, body, flags, hbStopped, beats, ctx, panicked, ops,
                 wire>>

-----------------------------------------------------------------------------
(***************************************************************************)
(* The writer methods the handler, or gin's recovery after it, calls.      *)
(***************************************************************************)

\* WriteHeader(code).
WriteHeader(code) ==
  /\ timer' = StopTimer
  /\ \/ /\ Untouched
        /\ decided' = TRUE
        /\ SendStatusLine
        /\ UNCHANGED <<intended, translating>>
     \/ /\ ~Untouched
        /\ Ended
        /\ UNCHANGED <<decided, intended, translating, wire>>
     \/ /\ ~Untouched
        /\ ~Ended
        /\ decided' = TRUE
        /\ intended' = code
        /\ translating' = (translating \/ (code \in Failures /\ ~streamed))
        /\ UNCHANGED wire
  /\ UNCHANGED <<preflushed, streamed, terminated, closed, uploadErr>>

\* Write(b).  What a translated failure's body says stays in errBuf, out of
\* the model: only that it does not reach the wire matters here.
Write ==
  /\ timer' = StopTimer
  /\ \/ /\ Untouched
        /\ decided' = TRUE
        /\ Send(Contract!Bytes)
        /\ UNCHANGED streamed
     \/ /\ ~Untouched
        /\ Ended
        /\ UNCHANGED <<decided, streamed, wire>>
     \/ /\ ~Untouched
        /\ ~Ended
        /\ decided' = TRUE
        /\ IF translating
           THEN UNCHANGED <<streamed, wire>>
           ELSE streamed' = TRUE /\ Send(Contract!Bytes)
  /\ UNCHANGED <<preflushed, translating, terminated, closed, intended,
                 uploadErr>>

\* Flush(): a bare flush is the handler speaking, unless it is translating.
FlushCall ==
  /\ \/ /\ Untouched
        /\ timer' = StopTimer
        /\ decided' = TRUE
        /\ SendStatusLine
     \/ /\ ~Untouched
        /\ decided' = (decided \/ ~(Ended \/ translating))
        /\ UNCHANGED <<timer, wire>>
  /\ UNCHANGED <<preflushed, streamed, translating, terminated, closed,
                 intended, uploadErr>>

HandlerCall ==
  /\ pc = "handler"
  /\ ops < MaxOps
  /\ ops' = ops + 1
  /\ (\E code \in Codes : WriteHeader(code)) \/ Write \/ FlushCall
  /\ UNCHANGED <<pc, body, beat, ctx, panicked, notes>>

\* The handler on gin's own writer, after the wrapper was skipped or retired.
BypassCall ==
  /\ pc = "bypass"
  /\ ops < MaxOps
  /\ ops' = ops + 1
  /\ SendStatusLine \/ Send(Contract!Bytes)
  /\ UNCHANGED <<pc, timer, body, flags, beat, ctx, panicked, notes>>

HandlerReturn ==
  /\ pc \in {"handler", "bypass"}
  /\ pc' = IF pc = "handler" THEN "finish" ELSE "done"
  /\ UNCHANGED <<timer, body, flags, beat, ctx, panicked, ops, wire, notes>>

\* The deferred finish runs all the same.
HandlerPanic ==
  /\ pc = "handler"
  /\ pc' = "finish"
  /\ panicked' = TRUE
  /\ UNCHANGED <<timer, body, flags, beat, ctx, ops, wire, notes>>

-----------------------------------------------------------------------------
(***************************************************************************)
(* finish().                                                               *)
(***************************************************************************)

\* The tombstone; then, unlocked, close(stop).
FinishClose ==
  /\ pc = "finish"
  /\ pc' = "join"
  /\ closed' = TRUE
  /\ timer' = StopTimer
  /\ hbStopped' = (hb # "none")
  /\ UNCHANGED <<body, decided, preflushed, streamed, translating, terminated,
                 intended, uploadErr, hb, beats, ctx, panicked, ops, wire,
                 notes>>

\* Mutant of Joined: <-done outside the nil check.
JoinedNil == hb = "exited"

\* <-done: the heartbeat has exited, or there never was one.
Joined == hb \in {"none", "exited"}

FinishJoin ==
  /\ pc = "join"
  /\ Joined
  /\ pc' = "conclude"
  /\ UNCHANGED <<timer, body, flags, beat, ctx, panicked, ops, wire, notes>>

\* Mutant of NeedsError: a handler that wrote nothing is taken for a success.
NeedsErrorTranslatedOnly ==
  preflushed /\ ~terminated /\ ~streamed /\ translating /\ ~clientGone

\* The stream needs the proxy's closing error event.
NeedsError ==
  /\ preflushed
  /\ ~terminated
  /\ ~streamed
  /\ ~decided \/ translating
  /\ ~clientGone

ClosingStatus == IF intended = 0 THEN BadGateway ELSE intended

\* The second critical section.
FinishConclude ==
  /\ pc = "conclude"
  /\ IF NeedsError
     THEN /\ intended' = ClosingStatus
          /\ Send(Contract!Error(ClosingStatus))
          /\ notes' = notes \cup {IF uploadErr THEN "uploadCut" ELSE "translated"}
     ELSE UNCHANGED <<intended, wire, notes>>
  /\ pc' = "cancel"
  /\ UNCHANGED <<timer, body, decided, preflushed, streamed, translating,
                 terminated, closed, uploadErr, beat, ctx, panicked, ops>>

\* The middleware's cancel() after finish; a panic travels on to the recovery.
FinishCancel ==
  /\ pc = "cancel"
  /\ cancelled' = TRUE
  /\ pc' = IF panicked THEN "recover" ELSE "done"
  /\ UNCHANGED <<timer, body, flags, beat, clientGone, panicked, ops, wire,
                 notes>>

\* gin's recovery answers the panic through c.Writer, still the wrapper.
Recover ==
  /\ pc = "recover"
  /\ pc' = "recovered"
  /\ WriteHeader(InternalError)
  /\ UNCHANGED <<body, beat, ctx, panicked, ops, notes>>

Recovered ==
  /\ pc = "recovered"
  /\ pc' = "done"
  /\ UNCHANGED <<timer, body, flags, beat, ctx, panicked, ops, wire, notes>>

-----------------------------------------------------------------------------
\* The client goes away: net/http ends reqCtx, and the derived one with it.
HangUp ==
  /\ pc # "done"
  /\ ~clientGone
  /\ clientGone' = TRUE
  /\ cancelled' = TRUE
  /\ UNCHANGED <<pc, timer, body, flags, beat, panicked, ops, wire, notes>>

Init ==
  /\ pc = "enter"
  /\ field \in {"absent", "false", "other"}
  /\ arrived = FALSE
  /\ timer = [t \in Timers |-> "unarmed"]
  /\ sniffing = FALSE
  /\ decided = FALSE /\ preflushed = FALSE /\ streamed = FALSE
  /\ translating = FALSE /\ terminated = FALSE /\ closed = FALSE
  /\ intended = 0
  /\ uploadErr = FALSE
  /\ hb = "none" /\ hbStopped = FALSE /\ beats = 0
  /\ clientGone = FALSE /\ cancelled = FALSE
  /\ panicked = FALSE
  /\ ops = 0
  /\ wire = <<>>
  /\ notes = {}

Callback(t) == FlushTooLate(t) \/ FlushHeld(t) \/ FlushPreamble(t)

Heartbeat == \/ HeartbeatStop \/ HeartbeatRetire \/ HeartbeatBeat
             \/ HeartbeatTimeout \/ HeartbeatCancel \/ HeartbeatNote

Before == Skip \/ Arm \/ ReadField \/ ReadEOF \/ ReadError \/ Disarm
          \/ UploadFailed \/ Install

Handler == HandlerCall \/ BypassCall \/ HandlerReturn \/ HandlerPanic

After == \/ FinishClose \/ FinishJoin \/ FinishConclude \/ FinishCancel
         \/ Recover \/ Recovered

\* The request is over and so are its goroutines.
Finished == pc = "done" /\ hb \in {"none", "exited"} /\ UNCHANGED vars

Next ==
  \/ Before
  \/ \E t \in Timers : Expire(t) \/ Callback(t)
  \/ Heartbeat
  \/ Handler
  \/ After
  \/ HangUp
  \/ Finished

(***************************************************************************)
(* Goroutines that can run do run.  The upload has no such promise (a      *)
(* client may stall for ever), and neither has a handler, except that one  *)
(* whose context has ended unwinds: that is the contract of the executors  *)
(* the watchdog's cancel() relies on.                                      *)
(***************************************************************************)
Fairness ==
  /\ WF_vars(Disarm) /\ WF_vars(UploadFailed) /\ WF_vars(Install)
  /\ \A t \in Timers : WF_vars(Callback(t))
  /\ WF_vars(Heartbeat)
  /\ WF_vars(cancelled /\ HandlerReturn)
  /\ WF_vars(After)

Spec == Init /\ [][Next]_vars /\ Fairness

-----------------------------------------------------------------------------
(***************************************************************************)
(* Properties.                                                             *)
(***************************************************************************)

PhasesOK ==
  /\ pc \in {"enter", "bypass", "upload", "ruling", "broken", "handler",
             "finish", "join", "conclude", "cancel", "recover", "recovered",
             "done"}
  /\ field \in {"absent", "false", "other"}
  /\ timer \in [Timers -> {"unarmed", "armed", "stopped", "firing", "spent"}]
  /\ hb \in {"none", "beating", "cancelling", "noting", "exited"}
  /\ notes \subseteq {"duplexUnavailable", "flushed", "held", "timedOut",
                      "uploadCut", "translated"}

WriterFlagsOK ==
  /\ decided \in BOOLEAN /\ preflushed \in BOOLEAN /\ streamed \in BOOLEAN
  /\ translating \in BOOLEAN /\ terminated \in BOOLEAN /\ closed \in BOOLEAN
  /\ uploadErr \in BOOLEAN

RequestFlagsOK ==
  /\ arrived \in BOOLEAN /\ sniffing \in BOOLEAN /\ hbStopped \in BOOLEAN
  /\ clientGone \in BOOLEAN /\ cancelled \in BOOLEAN /\ panicked \in BOOLEAN

CountsOK ==
  /\ intended \in Codes \cup {0, BadGateway, GatewayTimeout}
  /\ beats \in 0..MaxBeats
  /\ ops \in 0..MaxOps

TypeOK ==
  /\ PhasesOK
  /\ WriterFlagsOK
  /\ RequestFlagsOK
  /\ CountsOK
  /\ wire \in Seq(Contract!Frames)

\* The middleware as a whole keeps the contract of StreamContract: one opening,
\* no keep-alive inside the handler's bytes, no proxy error after them, one
\* closing error at most, and nothing at all once gin owns the writer again,
\* whatever timer callback or heartbeat is still running.
ImplementsContract == Contract!Spec

\* A stream that was committed by the preamble and that nobody has spoken on,
\* ended or torn down always has a heartbeat to keep it warm and to end it.
SilenceCovered ==
  preflushed /\ ~(decided \/ terminated \/ closed) => hb = "beating"

\* The preamble is never committed over a body known to say stream:false, and
\* a request whose preamble was held back for that reason never gets one.
NoPreambleOverJSON ==
  [][preflushed' /\ ~preflushed
       => ~(arrived /\ field = "false") /\ "held" \notin notes']_vars

\* When the request goroutine leaves, a committed stream has been ended for
\* the client: by the handler, by one error event, or by the client's leaving.
EndedExplicitly ==
  pc = "done" /\ preflushed =>
    \/ Contract!Errored
    \/ streamed
    \/ decided /\ ~translating
    \/ clientGone

\* The record agrees with the wire: a request that ended in the proxy's error
\* event leaves exactly one note saying why, any other leaves none, and
\* Status() reports the status that event carried.
OutcomeRecorded ==
  pc = "done" =>
    LET why == notes \cap {"timedOut", "uploadCut", "translated"}
    IN  IF Contract!Errored
        THEN /\ \E w \in why : why = {w}
             /\ uploadErr /\ ~terminated => why = {"uploadCut"}
             /\ intended = wire[Len(wire)].status
        ELSE why = {}

\* A committed stream ends once, in a way that can be told, and the record of
\* it is true (finish, the watchdog and the notes).
EndedAsRecorded == EndedExplicitly /\ OutcomeRecorded

\* The watchdog bounds the silence: after the preamble the handler speaks, the
\* stream is ended, or the request is over.
SilenceBounded == preflushed ~> (decided \/ terminated \/ pc = "done")

\* A handler whose context has ended leads to the end of the request: finish
\* never waits for a heartbeat that waits for it.
Unwinds == (pc = "handler" /\ cancelled) ~> pc = "done"

\* Neither the client, by silence, nor the request, by a context that has ended
\* under it, is left hanging.
NobodyHangs == SilenceBounded /\ Unwinds

=============================================================================
