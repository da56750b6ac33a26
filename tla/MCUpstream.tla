----------------------------- MODULE MCUpstream -----------------------------
(***************************************************************************)
(* A request upstream, for TLC: how it comes to its connection             *)
(* (ConnSetup), and how its stream is guarded (StallGuard).  The two share *)
(* no state: a behaviour follows the one or the other.                     *)
(*                                                                         *)
(* Of the setup, two requests go all the way; with a third, which may find *)
(* one creator gone and another at work, none is sent or tries again, no   *)
(* connection dies, and only the first may fail.  A stream that is over,   *)
(* on both sides, may stay so.                                             *)
(***************************************************************************)
EXTENDS StallGuard, ConnSetup
CONSTANTS r1, r2, r3

VARIABLE machine
mcVars == <<machine, vars, setupVars>>

Over == pump = "done" /\ inner = "closed" /\ hungUp /\ UNCHANGED vars

Third ==
    /\ place'[r2] # "away"
    /\ \A r \in Requests : sent'[r] = 0 /\ place'[r] # "pause"
    /\ dead' = {}
    /\ \A r \in Requests \ {r1} : r \notin ended' /\ (attempt'[r].cut => uses'[r] = r)

\* Requests are interchangeable: they arrive in this order.
SetupStep ==
    /\ SetupNext
    /\ place'[r2] # "away" => place'[r1] # "away"
    /\ place'[r3] # "away" => Third

MCInit == machine \in {"stream", "setup"} /\ Init /\ SetupInit
MCNext ==
    /\ UNCHANGED machine
    /\ \/ machine = "stream" /\ (Next \/ Over) /\ UNCHANGED setupVars
       \/ machine = "setup" /\ (SetupStep \/ UNCHANGED setupVars) /\ UNCHANGED vars

\* Each machine under the fairness of its own: no request is there in a behaviour
\* that follows the stream.
MCSpec ==
    /\ MCInit /\ [][MCNext]_mcVars
    /\ machine = "stream" => Fairness
    /\ SetupFairness

\* The stream ends (Ends), where a behaviour follows it.
StreamEnds == machine = "stream" => Ends
=============================================================================
