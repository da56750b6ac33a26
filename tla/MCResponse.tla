----------------------------- MODULE MCResponse -----------------------------
(***************************************************************************)
(* The answer of one request (Response), the traffic of several (Traffic,  *)
(* with Health) and the refusals two of them may meet (Refusals) for TLC.  *)
(* The three share no state: a behaviour follows one of them, so that      *)
(* their states add up.  The contexts of refusals are interchangeable.     *)
(***************************************************************************)
EXTENDS Traffic, Refusals, TLC

Interchangeable == Permutations(Requests)

P(f, t, m) == [form |-> f, type |-> t, marks |-> m]
HandlersPieces ==
    {P("error", "overloaded_error", {}), P("error", "api_error", {"connect", "address"}),
     P("other", "none", {"tls", "timeout"}), P("text", "none", {})}

Plain == [source |-> [email |-> TRUE, name |-> "a"], provider |-> "claude", model |-> "m", ttft |-> 2,
          failed |-> FALSE, status |-> 0, marks |-> {}, valid |-> TRUE, complete |-> TRUE,
          input |-> 3, read |-> 2, quota |-> [set |-> TRUE, value |-> 40]]

\* A success, one whose accounting cannot be trusted, and four failures.
UsageRecords ==
    {Plain,
     [Plain EXCEPT !.complete = FALSE, !.read = 9, !.quota = [set |-> TRUE, value |-> 4300],
                   !.source = [email |-> FALSE, name |-> "k"]],
     [Plain EXCEPT !.failed = TRUE, !.status = 429, !.source.name = "", !.ttft = 0],
     [Plain EXCEPT !.failed = TRUE, !.provider = "", !.ttft = 0, !.input = 0, !.read = 0,
                   !.marks = {"tls", "timeout"}, !.quota = [set |-> FALSE, value |-> 0]],
     [Plain EXCEPT !.failed = TRUE, !.marks = {"canceled"}, !.quota = [set |-> TRUE, value |-> -5]]}

VARIABLE machine

mcVars == <<machine, respVars, trafficVars, vars, refVars>>

MCInit ==
    /\ machine \in {"response", "rows", "meter", "numbers", "refusals"}
    /\ RespInit /\ TrafficInit /\ RefInit

\* Of the traffic: several requests that only run; all that one request does;
\* or what several records do to the numbers.
MCNext ==
    /\ UNCHANGED machine
    /\ \/ machine = "response" /\ RespNext /\ UNCHANGED <<trafficVars, vars, refVars>>
       \/ machine = "rows" /\ UNCHANGED <<respVars, queue, out, firstEnd, refVars>> /\ TrafficNext
       \/ machine = "meter" /\ UNCHANGED <<respVars, refVars>> /\ TrafficNext
          /\ \A c, d \in Clients : stage'[c] # "away" /\ stage'[d] # "away" => c = d
       \/ machine = "numbers" /\ UNCHANGED <<respVars, inflight, firstEnd, out, refVars>>
          /\ TrafficNext
       \/ machine = "refusals" /\ RefNext /\ UNCHANGED <<respVars, trafficVars, vars>>

MCSpec == MCInit /\ [][MCNext]_mcVars
=============================================================================
