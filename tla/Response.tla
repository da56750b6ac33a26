------------------------------ MODULE Response ------------------------------
(***************************************************************************)
(* One request through the middleware that judges its answer: the error    *)
(* envelope (proxy/errorenvelope.go) around the access journal             *)
(* (proxy/access.go), around a handler.  The envelope holds back a failure *)
(* until the handler is done with it, and replaces what was built from a   *)
(* local error; the journal files what was refused.                        *)
(*                                                                         *)
(* A body is a sequence of pieces; a piece is what the envelope can tell   *)
(* of it: whether it is a whole error document, of which type, and what    *)
(* its text mentions.  The handler, gin's own writer, its recovery and the *)
(* end of its chain are external.  No other goroutine touches the writer,  *)
(* so one request is enough.                                               *)
(***************************************************************************)
EXTENDS Integers, Sequences

CONSTANTS Pieces,          \* the pieces a handler may write
          Codes,           \* the statuses it may give
          maxEnvelopeBody, \* how many pieces are held
          MaxWrites        \* bound on the pieces

CauseMarks  == {"dns", "tls", "canceled", "timeout", "connect"}
UnsafeMarks == {"empty", "long", "address", "path", "unprintable"}
upstreamErrorTypes ==
    {"invalid_request_error", "authentication_error", "permission_error",
     "not_found_error", "request_too_large", "rate_limit_error", "api_error",
     "overloaded_error", "billing_error"}

ASSUME ResponseAssumption ==
    /\ \A p \in Pieces :
          /\ p.form \in {"error", "other", "text"}
          /\ p.type \in upstreamErrorTypes \cup {"none"}
          /\ p.marks \subseteq CauseMarks \cup UnsafeMarks
    /\ Codes \subseteq 200 .. 599
    /\ maxEnvelopeBody \in Nat /\ MaxWrites \in Nat

VARIABLES
    place,    \* where the request is in the chain
    sse,      \* the Content-Type is an event stream's
    env,      \* the envelopeWriter
    gin,      \* the writer underneath: its status, and whether it is on the wire
    wire,     \* the body the client has
    filed,    \* the status in the access journal, 0 for none
    spoke,    \* history: the status that decided, and whether of a stream
    written,  \* history: what the handler wrote
    bare      \* history: a status line was sent around the envelope

respVars == <<place, sse, env, gin, wire, filed, spoke, written, bare>>

Undecided == [code |-> 0, stream |-> FALSE]
Lines     == CauseMarks \cup {"authentication failed", "permission denied", "not found",
                 "rate limited", "upstream unavailable", "upstream request failed"}

----------------------------------------------------------------------------
(* What a body says.                                                       *)

MarksOf(body) == UNION {body[i].marks : i \in DOMAIN body}

\* The first row of the table that matches.
CauseFromText(marks) ==
    IF "dns" \in marks THEN "dns"
    ELSE IF "tls" \in marks THEN "tls"
    ELSE IF "canceled" \in marks THEN "canceled"
    ELSE IF "timeout" \in marks THEN "timeout"
    ELSE IF "connect" \in marks THEN "connect" ELSE "other"

safeMessage(marks) == marks \cap UnsafeMarks = {}

\* Mutant of isUpstreamFailure: the type alone is taken for a signature.
isUpstreamByType(body) ==
    /\ Len(body) = 1 /\ body[1].form = "error" /\ body[1].type \in upstreamErrorTypes

\* Two documents in a row, or none, do not parse.
isUpstreamFailure(body) ==
    /\ Len(body) = 1
    /\ body[1].form = "error"
    /\ body[1].type \in upstreamErrorTypes
    /\ safeMessage(body[1].marks)

errorTypeFor(status) ==
    CASE status = 401 -> "authentication_error"
      [] status = 403 -> "permission_error"
      [] status = 404 -> "not_found_error"
      [] status = 429 -> "rate_limit_error"
      [] OTHER        -> "api_error"

classifyFailure(status, marks) ==
    IF CauseFromText(marks) # "other" THEN CauseFromText(marks)
    ELSE CASE status = 401 -> "authentication failed"
           [] status = 403 -> "permission denied"
           [] status = 404 -> "not found"
           [] status = 429 -> "rate limited"
           [] status \in {502, 503} -> "upstream unavailable"
           [] OTHER        -> "upstream request failed"

replacementEnvelope(status, body) ==
    [form |-> "replaced", type |-> errorTypeFor(status),
     line |-> classifyFailure(status, MarksOf(body))]

----------------------------------------------------------------------------
(* gin's writer: a status is only noted until the first byte, or until it  *)
(* is told to send it.                                                     *)

GinWriteHeader(g, code) == IF g.sent THEN g ELSE [g EXCEPT !.status = code]
GinWriteHeaderNow(g)    == [g EXCEPT !.sent = TRUE]

(* The envelopeWriter's methods.                                           *)

\* What deciding on a status makes of the writer.
decide(code) ==
    IF env.decided THEN env
    ELSE [env EXCEPT !.decided = TRUE, !.status = code,
                     !.buffering = code >= 400 /\ ~sse]

\* The header is held with the body.
WriteHeader(code) ==
    /\ env' = decide(code)
    /\ gin' = IF env'.buffering THEN gin ELSE GinWriteHeader(gin, code)
    /\ spoke' = IF env.decided THEN spoke ELSE [code |-> code, stream |-> sse]

\* Mutant of Overflows: what was held is kept for finish when the rest leaves.
OverflowsTwice(p) ==
    /\ env' = [decide(200) EXCEPT !.overflowed = FALSE, !.buffering = FALSE]
    /\ gin' = GinWriteHeaderNow(GinWriteHeader(gin, env.status))
    /\ wire' = Append(wire, p)

\* A body too large to be a failure's is released, and the rest let through.
Overflows(p) ==
    /\ env' = [env EXCEPT !.buffering = FALSE, !.overflowed = TRUE, !.buf = << >>]
    /\ gin' = GinWriteHeaderNow(GinWriteHeader(gin, env.status))
    /\ wire' = Append(wire \o env.buf, p)

Write(p) ==
    /\ IF ~decide(200).buffering
       THEN /\ env' = decide(200)
            /\ gin' = GinWriteHeaderNow(gin)
            /\ wire' = Append(wire, p)
       ELSE IF Len(env.buf) + 1 > maxEnvelopeBody
            THEN Overflows(p)
            ELSE /\ env' = [decide(200) EXCEPT !.buf = Append(@, p)]
                 /\ UNCHANGED <<gin, wire>>
    /\ spoke' = IF env.decided THEN spoke ELSE [code |-> 200, stream |-> sse]
    /\ written' = Append(written, p)

Flush == gin' = IF env.buffering THEN gin ELSE GinWriteHeaderNow(gin)

\* Mutant of Status: what is on the wire so far.
StatusOfWire == gin.status

Status == IF env.decided THEN env.status ELSE gin.status

\* What finish gives the client of a held failure.
Judged == IF isUpstreamFailure(env.buf) THEN env.buf
          ELSE <<replacementEnvelope(env.status, env.buf)>>

----------------------------------------------------------------------------
(* The handler: a plain answer gives its status once, if at all; a stream   *)
(* sets its type first, and gives a status with the frame that ends it in  *)
(* failure.  (A preamble of the early flush is EarlyFlush's.)              *)

Speaking == place = "handler" /\ Len(written) < MaxWrites

SetSSEHeaders ==
    /\ Speaking /\ ~env.decided /\ ~sse
    /\ sse' = TRUE
    /\ UNCHANGED <<place, env, gin, wire, filed, spoke, written, bare>>

HandlerStatus(code) ==
    /\ Speaking /\ ~env.decided /\ ~sse
    /\ WriteHeader(code)
    /\ UNCHANGED <<place, sse, wire, filed, written, bare>>

StreamFails(code) ==
    /\ Speaking /\ sse /\ code >= 400
    /\ WriteHeader(code)
    /\ place' = "failing"
    /\ UNCHANGED <<sse, wire, filed, written, bare>>

HandlerWrite(p) ==
    /\ Speaking \/ place = "failing"
    /\ Write(p)
    /\ place' = "handler"
    /\ UNCHANGED <<sse, filed, bare>>

HandlerFlush ==
    /\ place = "handler" /\ (env.decided \/ sse)
    /\ Flush
    /\ UNCHANGED <<place, sse, env, wire, filed, spoke, written, bare>>

\* gin's AbortWithStatus: the status line goes out by a method the envelope
\* does not have.
AbortWithStatus(code) ==
    /\ env' = decide(code)
    /\ gin' = GinWriteHeaderNow(IF env'.buffering THEN gin ELSE GinWriteHeader(gin, code))
    /\ spoke' = IF env.decided THEN spoke ELSE [code |-> code, stream |-> sse]
    /\ bare' = TRUE

HandlerAbort(code) ==
    /\ Speaking /\ ~env.decided
    /\ AbortWithStatus(code)
    /\ UNCHANGED <<place, sse, wire, filed, written>>

HandlerReturns ==
    /\ place = "handler"
    /\ place' = "unwound"
    /\ UNCHANGED <<sse, env, gin, wire, filed, spoke, written, bare>>

\* A panic unwinds past everything that is not deferred; ErrAbortHandler past
\* the recovery, too, and net/http closes the connection.
HandlerPanics ==
    /\ place = "handler"
    /\ place' \in {"panicking", "aborted"}
    /\ UNCHANGED <<sse, env, gin, wire, filed, spoke, written, bare>>

\* AccessJournalMiddleware, after the handler.
AccessJournal ==
    /\ place = "unwound"
    /\ filed' = IF Status \in 200 .. 299 THEN 0 ELSE Status
    /\ place' = "filed"
    /\ UNCHANGED <<sse, env, gin, wire, spoke, written, bare>>

\* ErrorEnvelopeMiddleware, after everything inside it.
Finish ==
    /\ place = "filed"
    /\ place' = "answered"
    /\ IF env.buffering /\ ~env.overflowed
       THEN /\ env' = [env EXCEPT !.buffering = FALSE]
            /\ gin' = GinWriteHeaderNow(GinWriteHeader(gin, env.status))
            /\ wire' = wire \o Judged
       ELSE UNCHANGED <<env, gin, wire>>
    /\ UNCHANGED <<sse, filed, spoke, written, bare>>

\* The engine's recovery: it aborts with 500, through the writer it finds.
Recovery ==
    /\ place = "panicking"
    /\ AbortWithStatus(500)
    /\ place' = "recovered"
    /\ UNCHANGED <<sse, wire, filed, written>>

\* The end of gin's chain, for a handler that returned and for one that did not,
\* sends the status of an answer without a body.
EndOfChain ==
    /\ \/ place = "answered" /\ place' = "over"
       \/ place = "recovered" /\ place' = "broken"
    /\ gin' = GinWriteHeaderNow(gin)
    /\ UNCHANGED <<sse, env, wire, filed, spoke, written, bare>>

RespInit ==
    /\ place = "handler" /\ sse = FALSE
    /\ env = [decided |-> FALSE, status |-> 0, buffering |-> FALSE, buf |-> << >>,
              overflowed |-> FALSE]
    /\ gin = [status |-> 200, sent |-> FALSE]
    /\ wire = << >> /\ written = << >>
    /\ filed = 0 /\ spoke = Undecided /\ bare = FALSE

RespNext ==
    \/ SetSSEHeaders
    \/ \E code \in Codes : HandlerStatus(code) \/ StreamFails(code) \/ HandlerAbort(code)
    \/ \E p \in Pieces : HandlerWrite(p)
    \/ HandlerFlush \/ HandlerReturns \/ HandlerPanics
    \/ AccessJournal \/ Finish \/ Recovery \/ EndOfChain

RespSpec == RespInit /\ [][RespNext]_respVars

----------------------------------------------------------------------------
(* The promise, told from what the handler did.                            *)

Given      == IF spoke = Undecided THEN 200 ELSE spoke.code
Failed     == spoke.code >= 400 /\ ~spoke.stream
Held       == Failed /\ Len(written) <= maxEnvelopeBody
Unsafe(p)  == p.marks \cap UnsafeMarks # {}
Recognised == Len(written) = 1 /\ written[1].form = "error" /\ written[1].type # "none"
              /\ ~Unsafe(written[1])

\* An answer is sent once and whole.  What is not a held failure is on the
\* wire as soon as it is written, in order: a stream is never delayed.  A
\* failure that fits is one document, the upstream's own or one in its place,
\* once its handler has returned and whichever way its status went out (which
\* status that is, FiledAsSent says); nothing of it is there before it is
\* judged, nor ever, if the handler panics.
SentWhole ==
    /\ ~Held => wire = written
    /\ Held /\ place \notin {"answered", "over"} => wire = << >>
    /\ Held /\ place \in {"answered", "over"} =>
          /\ Len(wire) = 1
          /\ Recognised => wire = written
          /\ ~Recognised => wire[1].form = "replaced"

\* No caller learns of this machine from a failure: whatever the handler wrote
\* of it, in however many pieces, flushed or not, and if it panics: unless it
\* outgrew what is held, no piece that names an address, a path or anything
\* else local reaches the wire, and a line in its place says no more than a
\* cause its text gave, the handshake before the timeout it may be, too.
NothingLocal ==
    Held => \A i \in DOMAIN wire :
        IF wire[i].form # "replaced" THEN ~Unsafe(wire[i])
        ELSE LET line == wire[i].line  marks == UNION {written[j].marks : j \in DOMAIN written}
             IN /\ line \in Lines
                /\ line \in CauseMarks => line \in marks
                /\ line = "timeout" => "tls" \notin marks

\* A request whose handler returned is filed exactly when the handler gave no
\* success, under the status it gave.  Its client was sent that status, too, but
\* in two cases: of a stream that fails it may have the 200 the stream began
\* with; and of a failure whose status line went around the envelope it has a
\* 200, whatever is filed.
FiledAsSent ==
    place = "over" =>
        /\ filed = IF Given \in 200 .. 299 THEN 0 ELSE Given
        /\ spoke.stream => gin.status \in {200, Given}
        /\ ~spoke.stream => gin.status = IF Failed /\ bare THEN 200 ELSE Given

\* A panic is answered: when it has unwound and nothing had been sent before,
\* the client has a 500.
PanicAnswered ==
    [][Recovery /\ ~gin.sent => gin'.status = 500]_respVars
=============================================================================
