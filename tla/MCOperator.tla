----------------------------- MODULE MCOperator -----------------------------
(***************************************************************************)
(* The panel (Panel), the process it runs in (Service), and the commands   *)
(* on credentials and for diagnosis (Diagnosis) for TLC.  They share no    *)
(* state: a behaviour follows one of them, and of the panel the prompt and *)
(* the actions, the output on the screen, the polling, or the end, from a  *)
(* state the panel comes to by keys alone; of the service one process,     *)
(* two, or one whose file is edited; of the rest the pool of credentials,  *)
(* a diagnosis, or the log of a tunnel that starts.                        *)
(***************************************************************************)
EXTENDS Panel, Service, Diagnosis
CONSTANTS p, q, fileA, fileB

Proper == [port |-> 8080, keys |-> {"secret"}, allow |-> FALSE, host |-> "", lang |-> "",
           cacheTTL |-> "", models |-> 0, retry |-> 0, interval |-> 0,
           proxy |-> [scheme |-> "none", host |-> ""], fallback |-> FALSE, env |-> {},
           logToFile |-> FALSE, panel |-> FALSE, journalDays |-> 7]
Relayed == [Proper EXCEPT !.proxy = [scheme |-> "http", host |-> "localhost"], !.fallback = TRUE]
Local   == [Proper EXCEPT !.keys = {}, !.allow = TRUE, !.host = "127.0.0.1", !.panel = TRUE]

\* One thing amiss, or the inbound and the outbound settings in every way.
Single ==
    {[Proper EXCEPT !.port = n] : n \in {0, 65536}} \cup
    {[Proper EXCEPT !.lang = "fr"], [Proper EXCEPT !.cacheTTL = "2h"], [Proper EXCEPT !.models = 1],
     [Proper EXCEPT !.retry = -1], [Proper EXCEPT !.interval = -1],
     [Proper EXCEPT !.env = {"MANAGEMENT_PASSWORD"}], [Proper EXCEPT !.env = {"PGSTORE_DSN"}],
     [Proper EXCEPT !.journalDays = -1, !.logToFile = TRUE]}
Inbound ==
    {[Proper EXCEPT !.keys = ks, !.allow = allowed, !.host = h] :
        ks \in SUBSET {"secret", "blank", "placeholder"}, allowed \in BOOLEAN,
        h \in {"", "0.0.0.0", "127.0.0.1", "localhost"}}
Outbound ==
    {[Proper EXCEPT !.proxy = [scheme |-> s, host |-> h], !.fallback = falls] :
        s \in {"none", "bare", "http", "socks5"}, h \in {"", "localhost", "192.0.2.1"}, falls \in BOOLEAN}
Asked == Single \cup Inbound \cup Outbound \cup {Relayed, Local}

\* What there is for a diagnosis to find: nothing amiss, or one thing; some
\* of it also by a diagnosis that is cut short.
Table(rows, fake) == [answer |-> "table", rows |-> rows, fake |-> fake]
Answer(s) == [answer |-> s, rows |-> << >>, fake |-> FALSE]
Sound == [port |-> "free", dir |-> "listed", config |-> "fine", dns |-> "real", proxied |-> FALSE,
          reach |-> "connects", tunnel |-> "named", edge |-> [h \in Edges |-> "real"],
          info |-> Table(<<2, 1>>, FALSE), untranslated |-> FALSE, journal |-> "writing"]
Brief == {Sound, [Sound EXCEPT !.dns = "fails"], [Sound EXCEPT !.edge = [h \in Edges |-> "fake"]]}
Amiss == Brief \cup
    {[Sound EXCEPT !.dns = "fake"], [Sound EXCEPT !.info = Answer("idle")]} \cup
    {[Sound EXCEPT !.port = s] : s \in {"slimproxy", "invalid", "silent", "reserved", "deaf", "other"}} \cup
    {[Sound EXCEPT !.dir = s] : s \in {"unresolved", "unreadable", "absent"}} \cup
    {[Sound EXCEPT !.config = s] : s \in FileKinds} \cup
    {[Sound EXCEPT !.journal = s] : s \in {"off", "failing", "dropping"}} \cup
    {[Sound EXCEPT !.untranslated = TRUE]} \cup
    {[Sound EXCEPT !.dns = s, !.proxied = via, !.reach = r] :
        s \in {"empty", "fake", "real"}, via \in BOOLEAN, r \in {"connects", "refused"}} \cup
    {[Sound EXCEPT !.tunnel = s] : s \in {"absent", "unreadable", "garbled", "nameless", "flag"}} \cup
    {[Sound EXCEPT !.edge = e] : e \in [Edges -> {"fails", "empty", "real"}]} \cup
    {[Sound EXCEPT !.info = i] : i \in {Answer(s) : s \in {"missing", "nonesuch", "fails", "foreign"}} \cup
        {Table(<<0>>, FALSE), Table(<<0, 1>>, TRUE), Table(<<1, -1>>, FALSE)}}
Says == {{}, {"registered"}, {"fakeEdge"}, {"precheckFails"}, {"shortfall"}, {"dialFails"},
         {"dialFails", "fakeEdge"}}

OneOwner == [f \in Files |-> "owner"]
Alone    == [f \in Files |-> IF f = fileA THEN Good(FALSE, 1) ELSE Absent]

VARIABLE machine
mcVars == <<machine, panelVars, svcVars, examVars>>

Asking == [Prompt(<<"auth", "rm", "x">>) EXCEPT !.mode = "confirming", !.cmd = <<"auth", "rm">>]
Typed  == Prompt(<<"tunnel", "up">>)

PanelStarts ==
    \/ machine = "keys" /\ At(Idle, -1, Sources) /\ result.height = 16
    \/ machine = "host" /\ At(Typed, -1, Sources) /\ result.height = 16
    \/ machine = "screen" /\ \E n \in Outputs : At(Idle, n, Sources)
    \/ machine \in Sources /\ (\E e \in {Typed, Asking} : At(e, -1, Sources \ {machine}))
       /\ result.height = 16

ServiceStarts == machine \in {"starts", "pair", "edits"} /\ SvcInit

ExamStarts ==
    \/ machine = "pool" /\ facts = Sound
       /\ pool \in {Alone, [Alone EXCEPT ![fileB] = Good(FALSE, 0)]}
    \/ machine = "doctor" /\ pool = Alone
    \/ machine = "doctor" /\ facts = Sound
       /\ pool \in {[Alone EXCEPT ![fileA] = c] : c \in {Absent, Garbled, Mistyped, Good(TRUE, 0)}}
    \/ machine = "log" /\ facts = Sound /\ pool = Alone

Rests == pool = Alone /\ facts = Sound

MCInit ==
    /\ DiagInit
    /\ \/ PanelStarts /\ SvcInit /\ Rests
       \/ ServiceStarts /\ At(Idle, -1, {}) /\ result.height = 16 /\ Rests
       \/ ExamStarts /\ SvcInit /\ At(Idle, -1, {}) /\ result.height = 16

Quiet == UNCHANGED <<timers, world, proxy, cancelled>> /\ \A f \in fetches' : f.seen = -1
Fixed == entry'.sel = 1 /\ entry' \in {entry, Idle} /\ result'.height = result.height

\* Of the polling one source at a time: the others rest.
PanelSteps ==
    \/ machine = "keys" /\ ui = "up" /\ PanelNext /\ Quiet
       /\ (Busy' \/ Busy \/ UNCHANGED fetches) /\ ui' \in (IF entry' = entry THEN {"up"} ELSE {"up", "quitting"})
       /\ result'.height = 16 /\ result'.top = 0 /\ result'.lines < 12
       /\ \A i \in DOMAIN workers' : workers'[i].cmd[1] = "tunnel"
    \/ machine = "screen" /\ PanelNext /\ Quiet /\ UNCHANGED <<fetches, workers, ui>>
    \/ machine \in Sources /\ PanelNext /\ Fixed /\ UNCHANGED <<proxy, cancelled, quitArmed, ui>>
       /\ result'.top = 0 /\ result'.lines < 12
       /\ \A s \in Sources \ {machine} :
             timers'[s] = 1 /\ world'[s] = 0 /\ \A f \in fetches' : f.source = s => f.seen = -1
    \/ machine = "host" /\ PanelNext /\ Fixed /\ UNCHANGED <<timers, world>>
       /\ \A f \in fetches' : f.seen = -1

Uses(cs) == \A i \in Processes : stage'[i] # "off" => config'[i] \in cs
ServiceSteps ==
    \/ machine = "starts" /\ SvcNext /\ edits' = 0 /\ \A i \in Processes \ {p} : stage'[i] = "off"
    \/ machine = "pair" /\ SvcNext /\ edits' = 0 /\ Uses({Relayed, Local})
    \/ machine = "edits" /\ SvcNext /\ Uses({Proper}) /\ \A i \in Processes \ {p} : stage'[i] = "off"

\* Only a terminal forces a removal, and an edit comes when time has passed; a
\* diagnosis is cut short in one way.
ExamSteps ==
    \/ /\ machine = "pool" /\ DiagNext /\ UNCHANGED <<facts, exam, log>>
       /\ \A t \in Callers : ask'[t].step = "shown" /\ ask'[t].force => t = "terminal"
       /\ touched' = 1 => UNCHANGED clock
    \/ /\ machine = "doctor" /\ DiagNext /\ UNCHANGED <<poolVars, log>>
       /\ exam'.by = "status" => facts = Sound /\ pool = Alone
       /\ facts'.config # facts.config =>
             facts.config = exam.loaded /\ exam.by = "doctor" /\ [facts EXCEPT !.config = "fine"] = Sound
             /\ pool = Alone /\ Len(exam.report) = 2
       /\ exam'.cancelled \/ exam'.cut =>
             facts \in Brief /\ pool = Alone /\ ~(exam'.cancelled /\ exam'.cut /\ ~exam.cancelled)
    \/ machine = "log" /\ DiagNext /\ UNCHANGED <<poolVars, exam, facts>>

MCNext ==
    /\ UNCHANGED machine
    /\ \/ PanelSteps /\ UNCHANGED <<svcVars, examVars>>
       \/ ServiceSteps /\ UNCHANGED <<panelVars, examVars>>
       \/ ExamSteps /\ UNCHANGED <<panelVars, svcVars>>
MCSpec == MCInit /\ [][MCNext]_mcVars /\ PanelFairness /\ SvcFairness
=============================================================================
