----------------------------- MODULE Diagnosis -----------------------------
(***************************************************************************)
(* The diagnosis (diag/, cmd/slimproxy/diagnose.go): checks that run one   *)
(* after the other, each against a deadline, and may be interrupted; the   *)
(* level each comes to from what it finds; what the whole report comes to. *)
(* And the cause that is named when a tunnel does not connect (tunnel/     *)
(* connectivity.go), from a log that is still growing.                     *)
(***************************************************************************)
EXTENDS Credentials, SequencesExt

CONSTANTS Facts,     \* what there is to find
          LogLines,   \* what cloudflared may say of a start
          MaxLog

Edges     == {"region1", "region2"}
FileKinds == {"absent", "unreadable", "garbled", "mistyped", "unknown", "fine"}

FactSet ==
    [port : {"free", "slimproxy", "invalid", "silent", "reserved", "deaf", "other"},
     dir : {"listed", "unresolved", "unreadable", "absent"}, config : FileKinds,
     dns : {"fails", "empty", "fake", "real"}, proxied : BOOLEAN, reach : {"connects", "refused"},
     tunnel : {"absent", "named", "unreadable", "garbled", "nameless", "flag"},
     edge : [Edges -> {"fails", "empty", "fake", "real"}],
     info : [answer : {"missing", "nonesuch", "fails", "foreign", "idle", "table"},
             rows : Seq(Nat \cup {-1}), fake : BOOLEAN],
     untranslated : BOOLEAN, journal : {"off", "failing", "dropping", "writing"}]

ASSUME DiagAssumption == Facts \subseteq FactSet

VARIABLES facts,   \* what the checks look at
          exam,    \* the diagnosis under way
          log      \* what a launch has logged, and whether its child lives

examVars == <<poolVars, facts, exam, log>>

----------------------------------------------------------------------------
(* Levels.                                                                 *)

\* Mutant of LevelsBySeverity: an open question is less than a warning.
LevelsDeclared == <<"FAIL", "WARN", "UNKNOWN", "PASS">>

LevelsBySeverity == <<"FAIL", "UNKNOWN", "WARN", "PASS">>

Worst(report) ==
    LET levels == ToSet(report) \cup {"PASS"}
    IN LevelsBySeverity[CHOOSE i \in DOMAIN LevelsBySeverity :
                           /\ LevelsBySeverity[i] \in levels
                           /\ \A j \in 1 .. i - 1 : LevelsBySeverity[j] \notin levels]

----------------------------------------------------------------------------
(* The checks.  "over" says that the context had ended when one began.     *)

\* A configuration that is absent, or whose port is no number, is loaded with port 0.
checkListenPort(over) ==
    IF exam.loaded \in {"absent", "mistyped"} \/ over \/ facts.port = "silent" THEN "UNKNOWN"
    ELSE IF facts.port \in {"free", "slimproxy"} THEN "PASS" ELSE "FAIL"

\* A file counts when it is an object that does not say it is disabled.
checkCredentials ==
    LET ok == {f \in List(pool) : pool[f].form \in {"good", "mistyped"} /\ ~pool[f].disabled}
    IN IF facts.dir \in {"unresolved", "unreadable"} THEN "UNKNOWN"
       ELSE IF facts.dir = "absent" \/ ok = {} THEN "FAIL"
       ELSE IF ok # List(pool) THEN "WARN" ELSE "PASS"

\* The file is read again: it need not be as it was when it was loaded.
checkConfigFields ==
    IF exam.loaded \in {"fine", "unknown"} /\ facts.config \in {"fine", "mistyped"} THEN "PASS" ELSE "FAIL"

checkUpstreamDNS(over) ==
    IF over \/ facts.dns \in {"fails", "empty"} THEN "UNKNOWN"
    ELSE IF facts.dns = "fake" /\ ~facts.proxied THEN "WARN" ELSE "PASS"

checkUpstreamReach(over) ==
    IF over \/ facts.dns \in {"fails", "empty"} THEN "UNKNOWN"
    ELSE IF facts.reach = "connects" THEN "PASS" ELSE "FAIL"

\* The configuration of cloudflared: none, one that names a tunnel, or neither.
ReadConfig ==
    CASE facts.tunnel = "absent" -> "none"
      [] facts.tunnel = "named"  -> "found"
      [] facts.tunnel \in {"unreadable", "garbled", "nameless", "flag"} -> "error"

checkTunnelEdgeDNS(over) ==
    LET seen == {facts.edge[h] : h \in IF over THEN {} ELSE Edges}
    IN CASE ReadConfig = "error" -> "UNKNOWN"
         [] ReadConfig = "none"  -> "PASS"
         [] ReadConfig = "found" ->
              IF "fake" \in seen THEN "WARN" ELSE IF "real" \in seen THEN "PASS" ELSE "UNKNOWN"

\* The connections of each connector, -1 where a row is not understood; of
\* their sum, whether it is more than none.
ParseTunnelInfo(info) ==
    LET parsed == info.answer = "idle" \/ (info.answer = "table" /\ -1 \notin ToSet(info.rows))
    IN [parsed |-> parsed,
        some   |-> parsed /\ info.answer = "table" /\ \E i \in DOMAIN info.rows : info.rows[i] > 0,
        fake   |-> parsed /\ info.fake]

levelForConnectors(some, parsed) ==
    IF ~parsed THEN "UNKNOWN" ELSE IF some THEN "PASS" ELSE "FAIL"

checkTunnel(over) ==
    LET info == facts.info  conn == ParseTunnelInfo(info)
        level == levelForConnectors(conn.some, conn.parsed)
    IN IF ReadConfig = "none" THEN "PASS"
       ELSE IF ReadConfig = "error" \/ over \/ info.answer \in {"missing", "fails"} THEN "UNKNOWN"
       ELSE IF info.answer = "nonesuch" THEN "FAIL"
       ELSE IF level = "PASS" /\ conn.fake THEN "WARN" ELSE level

checkTranslator == IF facts.untranslated THEN "FAIL" ELSE "PASS"

checkJournal ==
    CASE facts.journal = "failing" -> "FAIL"
      [] facts.journal \in {"off", "dropping"} -> "WARN"
      [] facts.journal = "writing" -> "PASS"

Common == <<"listen-port", "credentials", "config-fields", "upstream-dns", "upstream-reach",
            "tunnel-edge-dns", "tunnel">>

\* Only the process that serves can answer for its translators and its journal.
Checks == Common \o IF exam.by = "panel" THEN <<"translator", "journal">> ELSE << >>

Finding(name, over) ==
    CASE name = "listen-port"     -> checkListenPort(over)
      [] name = "credentials"     -> checkCredentials
      [] name = "config-fields"   -> checkConfigFields
      [] name = "upstream-dns"    -> checkUpstreamDNS(over)
      [] name = "upstream-reach"  -> checkUpstreamReach(over)
      [] name = "tunnel-edge-dns" -> checkTunnelEdgeDNS(over)
      [] name = "tunnel"          -> checkTunnel(over)
      [] name = "translator"      -> checkTranslator
      [] name = "journal"         -> checkJournal

----------------------------------------------------------------------------
(* A diagnosis.                                                            *)

Unasked == [stage |-> "none", by |-> "nobody", loaded |-> "none", begun |-> "no", report |-> << >>,
            cancelled |-> FALSE, cut |-> FALSE, exit |-> 0]

\* From a terminal, a configuration that cannot be read at all is refused; the
\* panel goes on with the one it serves with, and reports the other.
Load(by) ==
    /\ exam.stage = "none"
    /\ LET fatal == facts.config \in {"unreadable", "garbled"}
       IN exam' = IF fatal /\ by # "panel" THEN [Unasked EXCEPT !.stage = "refused", !.exit = 1]
                  ELSE [Unasked EXCEPT !.stage = "running", !.by = by, !.loaded = facts.config]
    /\ UNCHANGED <<poolVars, facts, log>>

Begin ==
    /\ exam.stage = "running" /\ exam.begun = "no" /\ Len(exam.report) < Len(Checks)
    /\ exam' = [exam EXCEPT !.begun = IF exam.cancelled THEN "over" ELSE "live"]
    /\ UNCHANGED <<poolVars, facts, log>>

\* An interrupted run answers for what it did not come to.
Enter(level, cut) ==
    LET done == Append(exam.report, level)
        rest == [i \in 1 .. Len(Checks) - Len(done) |-> "UNKNOWN"]
    IN /\ exam' = [exam EXCEPT !.begun = "no", !.cut = @ \/ cut,
                               !.report = IF exam.cancelled THEN done \o rest ELSE done]
       /\ UNCHANGED <<poolVars, facts, log>>

Conclude ==
    exam.begun # "no" /\ Enter(Finding(Checks[Len(exam.report) + 1], exam.begun = "over"), FALSE)

\* The check's deadline, the interrupt, or a panic.
Overrun == exam.begun # "no" /\ Enter("UNKNOWN", TRUE)

Cancel ==
    /\ exam.stage = "running" /\ ~exam.cancelled
    /\ exam' = [exam EXCEPT !.cancelled = TRUE]
    /\ UNCHANGED <<poolVars, facts, log>>

exitForReport(report) == IF Worst(report) \in {"FAIL", "UNKNOWN"} THEN 1 ELSE 0

\* `status` tells and does not judge; the panel notes the verdict.
Tell ==
    /\ exam.stage = "running" /\ exam.begun = "no" /\ Len(exam.report) = Len(Checks)
    /\ exam' = [exam EXCEPT !.stage = "told",
                            !.exit = IF exam.by = "doctor" THEN exitForReport(exam.report) ELSE 0]
    /\ UNCHANGED <<poolVars, facts, log>>

\* The configuration is written while the diagnosis runs.
Rewritten(kind) ==
    /\ exam.stage = "running" /\ kind # facts.config
    /\ facts' = [facts EXCEPT !.config = kind]
    /\ UNCHANGED <<poolVars, exam, log>>

----------------------------------------------------------------------------
(* The cause of a failed launch.  A line is the set of what it says: that  *)
(* a connection is registered, an edge address that is no real one, a      *)
(* pre-check that failed, a shortfall of edges, a dial that failed.  One   *)
(* that is reworded or not whole, or that only quotes them, says nothing.  *)

\* The first of these that there is evidence of: the most specific explains the others.
classifyStartupLog(lines, alive) ==
    LET says == UNION ToSet(lines)
    IN IF "registered" \in says THEN "unknown"
       ELSE IF "fakeEdge" \in says THEN "fakeIPEdge"
       ELSE IF "precheckFails" \in says THEN "precheckFailed"
       ELSE IF "shortfall" \in says THEN "edgePoolCollapsed"
       ELSE IF "dialFails" \in says /\ alive THEN "stillRetrying" ELSE "unknown"

Causes == <<"unknown", "stillRetrying", "edgePoolCollapsed", "precheckFailed", "fakeIPEdge">>

LogGrows(line) ==
    /\ log.alive /\ Len(log.lines) < MaxLog
    /\ log' = [log EXCEPT !.lines = Append(@, line)]
    /\ UNCHANGED <<poolVars, facts, exam>>

ChildDies == log.alive /\ log' = [log EXCEPT !.alive = FALSE] /\ UNCHANGED <<poolVars, facts, exam>>

----------------------------------------------------------------------------
DiagInit ==
    /\ PoolInit /\ facts \in Facts /\ exam = Unasked
    /\ log = [lines |-> << >>, alive |-> TRUE]

DiagNext ==
    \/ PoolNext /\ UNCHANGED <<facts, exam, log>>
    \/ \E by \in {"status", "doctor", "panel"} : Load(by)
    \/ Begin \/ Conclude \/ Overrun \/ Cancel \/ Tell
    \/ \E kind \in FileKinds : Rewritten(kind)
    \/ (\E line \in LogLines : LogGrows(line)) \/ ChildDies

----------------------------------------------------------------------------
\* What a deployment needs to serve, told of what there is.
Healthy ==
    /\ facts.port \in {"free", "slimproxy"}
    /\ facts.dir = "listed" /\ \E f \in Files : pool[f].form \in {"good", "mistyped"} /\ ~pool[f].disabled
    /\ facts.dns \in {"fake", "real"} /\ facts.reach = "connects"
    /\ \/ facts.tunnel = "absent"
       \/ /\ facts.tunnel = "named" /\ \E h \in Edges : facts.edge[h] \in {"fake", "real"}
          /\ facts.info.answer = "table" /\ -1 \notin ToSet(facts.info.rows)
          /\ \E i \in DOMAIN facts.info.rows : facts.info.rows[i] > 0

Sick == exam.by = "panel" /\ (facts.untranslated \/ facts.journal = "failing")

\* A diagnosis that has ended answers for every check, wherever it was cut
\* short: doctor succeeds only for a deployment that works, with nothing left
\* open; it does for every one that works, if it was not cut short, from the
\* inside as from the outside; and it calls nothing broken for lack of time, nor
\* the upstream for a name that does not resolve.
DoctorTrue ==
    exam.stage = "told" =>
        /\ Len(exam.report) = Len(Checks)
        /\ exam.by = "doctor" /\ exam.exit = 0 =>
              Healthy /\ ~exam.cut /\ exam.loaded \in {"fine", "unknown"}
        /\ Healthy /\ ~Sick /\ ~exam.cut /\ ~exam.cancelled /\ exam.loaded = "fine" /\ exam.report[3] = "PASS" =>
              exam.exit = 0 /\ Worst(exam.report) \in {"PASS", "WARN"}
        /\ \A i \in DOMAIN exam.report : exam.report[i] = "FAIL" =>
              /\ Checks[i] # "config-fields" => Finding(Checks[i], FALSE) = "FAIL"
              /\ Checks[i] = "upstream-reach" => facts.dns \notin {"fails", "empty"}

\* Whatever becomes of the pool, doctor and `auth list` call it empty of
\* credentials at the same time (but for a file whose fields have other types).
PoolAgreed ==
    facts.dir = "listed" /\ (\A f \in Files : pool[f].form # "mistyped") =>
        /\ checkCredentials = "FAIL" <=> Alarm(pool, clock) = "none loadable"
        /\ checkCredentials = "PASS" => \A f \in List(pool) : Recoverable(pool[f], clock)

\* The cause that is named while the log grows: none of a tunnel that has
\* registered, never one less specific than before, and no retrying of a child
\* that has died.
CauseTrue ==
    LET cause(n) == classifyStartupLog(SubSeq(log.lines, 1, n), log.alive)
        rank(c)  == CHOOSE i \in DOMAIN Causes : Causes[i] = c
        now      == cause(Len(log.lines))
    IN IF \E i \in DOMAIN log.lines : "registered" \in log.lines[i] THEN now = "unknown"
       ELSE /\ \A n \in 0 .. Len(log.lines) : rank(cause(n)) <= rank(now)
            /\ now = "stillRetrying" => log.alive

\* No verdict is better, or worse, than what it was come to by.
Evidenced == DoctorTrue /\ PoolAgreed /\ CauseTrue
=============================================================================
