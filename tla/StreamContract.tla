--------------------------- MODULE StreamContract ---------------------------
(***************************************************************************)
(* What one response of the early-flush writer promises to the client and  *)
(* to gin: the abstract specification that EarlyFlush implements.          *)
(*                                                                         *)
(* A response is a sequence of frames.  It is opened once, either by the   *)
(* SSE preamble (200 + text/event-stream) or by the handler's own head.    *)
(* Keep-alives only pad a preamble nobody has added anything to, so they   *)
(* can never split an event of the handler.  An error frame written by     *)
(* the proxy is only ever the last frame, and only after a silence: it     *)
(* never interrupts the handler's bytes.  Once the response is released    *)
(* (the request goroutine has returned and gin may recycle the writer)     *)
(* nothing is written to it.                                               *)
(***************************************************************************)
EXTENDS Naturals, Sequences

CONSTANT Status     \* the HTTP statuses a handler or the proxy may report

VARIABLES wire,     \* the frames transmitted so far
          released  \* the writer has been handed back to gin

vars == <<wire, released>>

Frame(k, s) == [kind |-> k, status |-> s]
NoStatus == 0

\* SSE headers committed by the timer.
Preamble  == Frame("preamble", NoStatus)
\* One heartbeat comment.
KeepAlive == Frame("keepalive", NoStatus)
\* The handler's own status line and headers.
StatusLine == Frame("head", NoStatus)
\* The handler's own body bytes (sent first, they bring an implicit 200).
Bytes     == Frame("bytes", NoStatus)
\* A closing SSE error event.
Error(s)  == Frame("error", s)

Frames == {Preamble, KeepAlive, Bytes, StatusLine} \cup {Error(s) : s \in Status}

\* The preamble is out and nothing but heartbeats followed it.
Silent == /\ wire # <<>>
          /\ \A i \in DOMAIN wire : wire[i] \in {Preamble, KeepAlive}

\* The proxy has closed the stream with an error event.
Errored == \E i \in DOMAIN wire : wire[i].kind = "error"

-----------------------------------------------------------------------------
Init == /\ wire = <<>>
        /\ released = FALSE

Send(f) == /\ ~released
           /\ wire' = Append(wire, f)
           /\ UNCHANGED released

Open       == wire = <<>> /\ \E f \in {Preamble, StatusLine, Bytes} : Send(f)
Beat       == Silent /\ Send(KeepAlive)
Speak      == wire # <<>> /\ ~Errored /\ Send(Bytes)
CloseError == Silent /\ \E s \in Status : Send(Error(s))
Release    == ~released /\ released' = TRUE /\ UNCHANGED wire

Next == Open \/ Beat \/ Speak \/ CloseError \/ Release

Spec == Init /\ [][Next]_vars
=============================================================================
