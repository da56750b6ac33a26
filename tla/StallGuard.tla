----------------------------- MODULE StallGuard -----------------------------
(***************************************************************************)
(* One guarded upstream stream (proxy/stallguard.go): stallGuard wraps the *)
(* claude executor's ExecuteStream, and its pump goroutine forwards the    *)
(* chunks of the inner executor's channel to the reader of its own.  The   *)
(* pump severs a stream whose upstream stays silent for the idle window,   *)
(* and keeps the ledger of how the stream ended: armed by the claude       *)
(* message_start, accounted for by a usage line or an error.               *)
(*                                                                         *)
(* Chunks are told apart by what the ledger sees of them.  Time passes in  *)
(* ticks of which the window has Idle; a tick never passes while the pump  *)
(* could run, that is, scheduling is instantaneous next to the window.     *)
(***************************************************************************)
EXTENDS Integers, Sequences

CONSTANTS Idle,       \* the idle window, in ticks
          MaxChunks   \* bound: chunks an upstream produces

ASSUME StallAssumption == Idle \in Nat \ {0} /\ MaxChunks \in Nat

VARIABLES
    dialect,    \* claude, or a translated route whose chunks never arm
    inner,      \* the inner executor's stream goroutine
    offer,      \* the chunk it is sending on its channel
    produced,   \* history: the chunks it has offered
    published,  \* history: it has published a usage or failure record
    pump,       \* the pump goroutine
    held,       \* the chunk the pump is forwarding
    timer,      \* ticks since the last Reset; the timer has fired at Idle
    armed,      \* the ledger
    accounted,
    severed,    \* cancelUpstream has been called
    hungUp,     \* the request context is done
    delivered,  \* what the reader has received
    starved,    \* history: ticks spent waiting for the upstream in this receive
    notes       \* history: the reports of this stream

streamVars == <<dialect, inner, offer, produced, published>>
pumpVars   == <<pump, held, timer, armed, accounted, severed, delivered, starved, notes>>
vars == <<streamVars, pumpVars, hungUp>>

Dialects == {"claude", "translated"}
Chunks   == {"open", "data", "tail", "error"}
NoChunk  == "none"
Reports  == {"stalled", "notail", "clientdrop", "clientdropAccounted"}

\* The upstream context is a child of the request's.
Cancelled == severed \/ hungUp

----------------------------------------------------------------------------
(* The inner executor: it publishes what it scans before it offers it, and *)
(* a select with its context ends every offer.                             *)

\* The events of a claude stream: message_start first and only there, the
\* usage line once and later.  A translated stream may carry a usage field.
MayFollow(k) ==
    \/ k = "open" /\ dialect = "claude" /\ produced = <<>>
    \/ k = "data" /\ (dialect = "translated" \/ produced # <<>>)
    \/ k = "tail" /\ produced # <<>> /\ \A i \in DOMAIN produced : produced[i] # "tail"
    \/ k = "error"

Offering(k) ==
    /\ inner' = "offering"
    /\ offer' = k
    /\ produced' = Append(produced, k)

Produce(k) ==
    /\ inner = "reading"
    /\ k # "error"
    /\ Len(produced) < MaxChunks
    /\ MayFollow(k)
    /\ Offering(k)
    /\ published' = (published \/ k = "tail")
    /\ UNCHANGED <<dialect, pumpVars, hungUp>>

\* The scanner fails: the connection broke, or the context was cancelled.
ReadFails ==
    /\ inner = "reading"
    /\ Offering("error")
    /\ published' = TRUE
    /\ UNCHANGED <<dialect, pumpVars, hungUp>>

UpstreamEnds ==
    /\ inner = "reading"
    /\ inner' = "closed"
    /\ UNCHANGED <<dialect, offer, produced, published, pumpVars, hungUp>>

\* ctx.Done in the select of the send.
OfferAbandoned ==
    /\ inner = "offering"
    /\ Cancelled
    /\ inner' = "closed"
    /\ offer' = NoChunk
    /\ UNCHANGED <<dialect, produced, published, pumpVars, hungUp>>

\* The pump receives the offer: an error is the inner goroutine's last send.
OfferTaken ==
    /\ inner = "offering"
    /\ inner' = IF offer = "error" THEN "closed" ELSE "reading"
    /\ offer' = NoChunk
    /\ UNCHANGED <<dialect, produced, published>>

----------------------------------------------------------------------------
(* The pump.                                                               *)

Report(r) == notes' = Append(notes, r)

DropReport == IF accounted THEN "clientdropAccounted" ELSE "clientdrop"

\* Every return runs the deferred cancelUpstream and close(out).
Return == pump' = "done" /\ severed' = TRUE

\* Mutant of ReArm: the timer is set once, when the pump starts.
ReArmNever == starved' = 0 /\ timer' = timer

\* The top of the loop: Stop, drain a stale firing, Reset.
ReArm == starved' = 0 /\ timer' = 0

\* scanLedgerSignals on one chunk, and the chunk's error.
Opens(k) == k = "open"
Settles(k) == k \in {"tail", "error"}

\* pump, case chunk := <-in.
Receive ==
    /\ pump = "receive"
    /\ OfferTaken
    /\ held' = offer
    /\ armed' = (armed \/ Opens(offer))
    /\ accounted' = (accounted \/ Settles(offer))
    /\ pump' = "forward"
    /\ UNCHANGED <<timer, severed, delivered, starved, notes, hungUp>>

\* Mutant of CloseReport: the request context is not consulted.
CloseReportBlind ==
    IF armed /\ ~accounted THEN Report("notail") ELSE UNCHANGED notes

\* pump, the inner channel is closed: whose ending was it?
CloseReport ==
    CASE ~armed                         -> UNCHANGED notes
      [] armed /\ hungUp                -> Report(DropReport)
      [] armed /\ ~hungUp /\ ~accounted -> Report("notail")
      [] armed /\ ~hungUp /\ accounted  -> UNCHANGED notes

CloseSeen ==
    /\ pump = "receive"
    /\ inner = "closed"
    /\ CloseReport
    /\ Return
    /\ UNCHANGED <<streamVars, held, timer, armed, accounted, delivered, starved, hungUp>>

\* pump, case <-timer.C: the select may prefer it to an offer that has just
\* arrived, or to the end of the request.
Fire ==
    /\ pump = "receive"
    /\ timer = Idle
    /\ Report("stalled")
    /\ pump' = "reporting"
    /\ UNCHANGED <<streamVars, held, timer, armed, accounted, severed, delivered, starved, hungUp>>

\* pump, case <-reqCtx.Done() of any of the three selects.
GiveUp ==
    /\ hungUp
    /\ \/ /\ pump \in {"receive", "forward"}
          /\ IF armed THEN Report(DropReport) ELSE UNCHANGED notes
          /\ Return
          /\ held' = NoChunk
       \/ /\ pump = "reporting"
          /\ pump' = "draining"
          /\ severed' = TRUE
          /\ UNCHANGED <<held, notes>>
    /\ UNCHANGED <<streamVars, timer, armed, accounted, delivered, starved, hungUp>>

\* Mutant of DrainStep: what a severed upstream still sends is forwarded.
DrainStepForward ==
    /\ pump = "draining"
    /\ \/ /\ OfferTaken
          /\ delivered' = Append(delivered, offer)
          /\ UNCHANGED <<pump, severed>>
       \/ inner = "closed" /\ Return /\ UNCHANGED <<streamVars, delivered>>
    /\ UNCHANGED <<held, timer, armed, accounted, starved, notes, hungUp>>

\* pump, for range in: what a severed upstream still sends is discarded.
DrainStep ==
    /\ pump = "draining"
    /\ \/ OfferTaken /\ UNCHANGED <<pump, severed>>
       \/ inner = "closed" /\ Return /\ UNCHANGED streamVars
    /\ UNCHANGED <<held, timer, armed, accounted, delivered, starved, notes, hungUp>>

----------------------------------------------------------------------------
(* The reader of the guarded stream and the clock.                         *)

\* The reader takes the chunk: the pump goes back to the top of its loop.
Read ==
    /\ pump = "forward"
    /\ delivered' = Append(delivered, held)
    /\ held' = NoChunk
    /\ pump' = "receive"
    /\ ReArm
    /\ UNCHANGED <<streamVars, armed, accounted, severed, notes, hungUp>>

\* Mutant of ReadStall: the upstream is not cancelled.
ReadStallUnsevered ==
    /\ pump = "reporting"
    /\ delivered' = Append(delivered, "stall")
    /\ pump' = "draining"
    /\ UNCHANGED <<streamVars, held, timer, armed, accounted, severed, starved, notes, hungUp>>

\* The reader takes the error of a severed stream: pump cancels the upstream.
ReadStall ==
    /\ pump = "reporting"
    /\ delivered' = Append(delivered, "stall")
    /\ severed' = TRUE
    /\ pump' = "draining"
    /\ UNCHANGED <<streamVars, held, timer, armed, accounted, starved, notes, hungUp>>

HangUp ==
    /\ ~hungUp
    /\ hungUp' = TRUE
    /\ UNCHANGED <<streamVars, pumpVars>>

PumpReady ==
    \/ pump = "receive" /\ (inner # "reading" \/ timer = Idle \/ hungUp)
    \/ pump \in {"forward", "reporting"} /\ hungUp
    \/ pump = "draining" /\ inner # "reading"

Tick ==
    /\ ~PumpReady
    /\ pump \in {"receive", "forward"}
    /\ timer < Idle
    /\ timer' = timer + 1
    /\ starved' = IF pump = "receive" THEN starved + 1 ELSE starved
    /\ UNCHANGED <<streamVars, pump, held, armed, accounted, severed, hungUp, delivered, notes>>

Init ==
    /\ dialect \in Dialects
    /\ inner = "reading" /\ offer = NoChunk /\ produced = <<>> /\ published = FALSE
    /\ pump = "receive" /\ held = NoChunk /\ timer = 0
    /\ armed = FALSE /\ accounted = FALSE
    /\ severed = FALSE /\ hungUp = FALSE
    /\ delivered = <<>> /\ starved = 0 /\ notes = <<>>

PumpNext == Receive \/ CloseSeen \/ Fire \/ GiveUp \/ DrainStep

\* A cancelled upstream ends: its read fails, its sends are abandoned.
CancelNext == Cancelled /\ (ReadFails \/ OfferAbandoned)

Next ==
    \/ \E k \in Chunks : Produce(k)
    \/ ReadFails \/ UpstreamEnds \/ OfferAbandoned
    \/ PumpNext
    \/ Read \/ ReadStall \/ HangUp \/ Tick

\* The pump runs, the clock ticks and a cancelled upstream lets go.  Neither
\* the upstream nor the reader owes the stream anything.
Fairness == WF_vars(PumpNext) /\ WF_vars(CancelNext) /\ WF_vars(Tick)

Spec == Init /\ [][Next]_vars /\ Fairness

----------------------------------------------------------------------------
(* Properties.                                                             *)

StreamOK ==
    /\ dialect \in Dialects
    /\ inner \in {"reading", "offering", "closed"}
    /\ offer \in Chunks \cup {NoChunk}
    /\ inner = "offering" => offer \in Chunks
    /\ produced \in Seq(Chunks)
    /\ published \in BOOLEAN
    /\ hungUp \in BOOLEAN

LedgerOK ==
    /\ armed \in BOOLEAN
    /\ accounted \in BOOLEAN
    /\ severed \in BOOLEAN
    /\ notes \in Seq(Reports)

PumpOK ==
    /\ pump \in {"receive", "forward", "reporting", "draining", "done"}
    /\ held \in Chunks \cup {NoChunk}
    /\ pump = "forward" => held \in Chunks
    /\ timer \in 0 .. Idle
    /\ starved \in Nat
    /\ delivered \in Seq(Chunks \cup {"stall"})

\* Every variable has its type; the timer never runs past the window.
TypeOK == StreamOK /\ LedgerOK /\ PumpOK

Said(r) == \E i \in DOMAIN notes : notes[i] = r

\* The guard is transparent: the reader receives the upstream's chunks in
\* order, none twice and none left out, then at most the stall error; and all
\* of them when neither the reader nor the guard ended the stream (pump).
Transparent ==
    /\ \A i \in DOMAIN delivered :
          \/ i \in DOMAIN produced /\ delivered[i] = produced[i]
          \/ i = Len(delivered) /\ delivered[i] = "stall"
    /\ pump = "done" /\ ~hungUp /\ ~Said("stalled") => delivered = produced

\* "A slow reader must not trip the guard" (stallguard.go:30): a stream is
\* severed only when the pump spent the whole window waiting for an upstream
\* that offered nothing.
SlowReaderSpared == Said("stalled") => starved = Idle

\* How a stream ended is said once and truly (stallGuardNotes): an armed stream
\* without an account is reported, "notail" only when the request was alive and
\* its reader got everything the upstream sent and the SDK published nothing,
\* a drop only after the request ended, an accounted drop only when there is a
\* record; a translated stream reports nothing but a stall.
EndingNamed ==
    /\ Len(notes) <= 1
    /\ pump = "done" /\ armed /\ ~accounted => Len(notes) = 1
    /\ Said("notail") => armed /\ ~published /\ delivered = produced
    /\ Said("clientdrop") => armed /\ hungUp
    /\ Said("clientdropAccounted") => armed /\ hungUp /\ published
    /\ dialect = "translated" => \A i \in DOMAIN notes : notes[i] = "stalled"

\* A stream ends, unless its reader neither reads nor hangs up for ever; and
\* when the guard is done with it the upstream goroutine ends too (the sever in
\* pump, the deferred cancelUpstream).
Ends ==
    /\ <>(pump = "done") \/ <>[](pump \in {"forward", "reporting"} /\ ~hungUp)
    /\ pump = "done" ~> inner = "closed"
=============================================================================
