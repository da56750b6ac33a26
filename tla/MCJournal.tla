----------------------------- MODULE MCJournal -----------------------------
(***************************************************************************)
(* The journal as it is written (Journal), on one kind of reject and three *)
(* days, and as it is asked (JournalLog), for TLC.  The two share no       *)
(* state: a behaviour follows the one or the other.  A process that has    *)
(* crashed, or whose Run has returned, may stop; no other may.             *)
(***************************************************************************)
EXTENDS Journal, JournalLog

Request(ok) == [kind |-> "req", ok |-> ok, canceled |-> FALSE, status |-> 0, count |-> 0,
                src |-> "", slow |-> FALSE, named |-> TRUE, cached |-> FALSE]
Refusal(s, from, n) == [Request("") EXCEPT !.kind = "rej", !.status = s, !.src = from, !.count = n,
                                           !.named = FALSE]

\* A success, a refusal by the upstream, a request given up; a scan, an answer of
\* the proxy's own that failed; and a change of the tunnel.
Said == {Request("yes"), [Request("no") EXCEPT !.status = 429, !.slow = TRUE],
         [Request("no") EXCEPT !.canceled = TRUE],
         Refusal(429, "tunnel", 2), Refusal(502, "tunnel", 0),
         [Request("") EXCEPT !.kind = "tunnel"]}

\* The last hours, the last day, every filter, and a period that is over.
Usual == [Everything EXCEPT !.since = 1, !.limit = 1]
Asks == {Usual, [Usual EXCEPT !.since = 2, !.limit = 0], [Usual EXCEPT !.includeNoise = TRUE],
         [Usual EXCEPT !.status = 429], [Usual EXCEPT !.failedOnly = TRUE, !.limit = 2],
         [Usual EXCEPT !.slow = TRUE, !.named = TRUE],
         [Everything EXCEPT !.since = 5, !.until = 2]}

\* The command is run on the last day, and the third line is of two kinds; a
\* request began at most a moment ago; only a second line follows a part of one,
\* and a third is written while the files are read.
AskedStep ==
    /\ LogNext
    /\ scan.step \in {"idle", "scanning"} /\ (scan'.step # "idle" => moment = LogHorizon)
    /\ ragged' # {} => Cardinality(Written(lines)) = 1
    /\ \A l \in Written(lines') \ Written(lines) :
          /\ l.at >= moment - 1
          /\ scan.step = "scanning" <=> l.id = 3
          /\ l.id = 3 => l.says \in {Request("yes"), Refusal(429, "tunnel", 2)}

VARIABLE machine
mcVars == <<machine, vars, logVars>>

ProcessEnds == (crashed \/ main = "returned") /\ UNCHANGED vars

MCInit == machine \in {"written", "asked"} /\ Init /\ LogInit
MCNext ==
    /\ UNCHANGED machine
    /\ \/ machine = "written" /\ (Next \/ ProcessEnds) /\ UNCHANGED logVars
       \/ machine = "asked" /\ (AskedStep \/ UNCHANGED logVars) /\ UNCHANGED vars

MCSpec ==
    /\ MCInit /\ [][MCNext]_mcVars
    /\ machine = "written" => Fairness
=============================================================================
