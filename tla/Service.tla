-------------------------------- MODULE Service --------------------------------
(***************************************************************************)
(* The life of a slimproxy process: what it refuses to start with          *)
(* (proxy/config.go), how it is built and run (proxy/proxy.go, logging.go, *)
(* cmd/slimproxy/main.go), and what it puts back or gives up when its      *)
(* settings change under it (proxy.go, logpin.go, and the fork's           *)
(* internal/watcher/config_reload.go).                                     *)
(*                                                                         *)
(* Processes of one machine and one state directory share the number of a  *)
(* port, though not the host they listen on, and under that number the     *)
(* file that holds the settings in force: it is written by every process   *)
(* that starts, by the operator, and read by the watcher and the guard of  *)
(* the processes that serve.  A write empties the file first.  Of the      *)
(* settings in the file only the keys and the log are told apart.          *)
(***************************************************************************)
EXTENDS Integers, FiniteSets

CONSTANTS Processes,
          Configs,    \* the configurations they may be started with
          Nobody,     \* no process
          WildcardAlone, \* the system refuses a host beside every interface
          MaxEdits    \* bound on the operator's changes of the file

ASSUME ServiceAssumption ==
    /\ Nobody \notin Processes /\ MaxEdits \in Nat /\ WildcardAlone \in BOOLEAN
    /\ \A c \in Configs : c.keys \subseteq {"secret", "blank", "placeholder"}

VARIABLES
    stage,    \* where each process is
    config,   \* what it was started with
    open,     \* what it has open: of "relay" and "journal"
    file,     \* the settings in force, and who wrote them
    live,     \* the settings each engine runs with, once it serves
    event,    \* the watcher has a change to look at
    loading,  \* what a reload is applying
    known,    \* what the watcher takes for the file's last content
    guarded,  \* guardInboundAuth runs
    displaced,\* of "hooks" and "log": what a reload has put elsewhere
    edits,
    before    \* history: who served when the process was started, and does still

svcVars == <<stage, config, open, file, live, event, loading, known, guarded,
             displaced, edits, before>>
engineVars == <<live, loading, known, guarded, displaced>>

----------------------------------------------------------------------------
(* The configuration.                                                      *)

maxPort == 65535

isLoopbackHost(host) == host \in {"localhost", "127.0.0.1", "::1", "[::1]"}

fallbackProxyIsLoopback(proxy) == proxy.scheme # "none" /\ isLoopbackHost(proxy.host)

\* What the environment must not ask for.
checkManagementPasswordEnv(env) == "MANAGEMENT_PASSWORD" \notin env
checkStorageBackendEnv(env)     == env \subseteq {"MANAGEMENT_PASSWORD"}

\* Keys that are told to nobody; none, only where this machine alone can ask.
InboundValid(c) ==
    /\ c.keys = {} => c.allow /\ isLoopbackHost(c.host)
    /\ c.keys \cap {"blank", "placeholder"} = {}

\* Mutant of OutboundValid: a fallback is taken with any proxy.
OutboundAnyProxy(c) == c.proxy.scheme # "bare"

\* A fallback needs a proxy that the relay can judge.
OutboundValid(c) ==
    /\ c.proxy.scheme # "bare"
    /\ c.fallback => c.proxy.scheme = "http" /\ fallbackProxyIsLoopback(c.proxy)

Validate(c) ==
    /\ c.port \in 1 .. maxPort
    /\ InboundValid(c) /\ OutboundValid(c)
    /\ c.lang \in {"", "zh", "en"} /\ c.cacheTTL \in {"", "5m", "1h"}
    /\ c.models = 0
    /\ c.retry >= 0 /\ c.interval >= 0
    /\ checkManagementPasswordEnv(c.env) /\ checkStorageBackendEnv(c.env)

\* The panel owns the terminal: its process logs to a file whatever it is told.
LogsToFile(c) == c.logToFile \/ c.panel

resolvedJournalDir(c) == c.journalDays > -1

\* The empty host is every interface.
Addr(c) == IF c.host = "" THEN "0.0.0.0" ELSE c.host

\* The settings as they are written.
build(c) == [form |-> "whole", keys |-> Cardinality(c.keys), logToFile |-> LogsToFile(c)]

Empty == [form |-> "empty", keys |-> 0, logToFile |-> FALSE]

----------------------------------------------------------------------------
(* Listening: net.Listen, on a host of the port.                           *)

Resolved(host) == IF host = "localhost" THEN "127.0.0.1" ELSE host

Clash(h, g) ==
    \/ Resolved(h) = Resolved(g)
    \/ WildcardAlone /\ "0.0.0.0" \in {h, g}

Listening == {j \in Processes : stage[j] \in {"probing", "serving"}}

\* An address with colons needs brackets.  (Whatever else may be wrong with the
\* address, or hold it, is a failure at any time.)
CanListen(i) ==
    /\ Addr(config[i]) # "::1"
    /\ \A j \in Listening : ~Clash(Addr(config[i]), Addr(config[j]))

----------------------------------------------------------------------------
(* Build.                                                                  *)

Goes(i, from, to) == stage[i] = from /\ stage' = [stage EXCEPT ![i] = to]

Start(i, c) ==
    /\ Goes(i, "off", IF Validate(c) THEN "logging" ELSE "failed")
    /\ config' = [config EXCEPT ![i] = c]
    /\ before' = [before EXCEPT ![i] = {j \in Processes : stage[j] = "serving"}]
    /\ UNCHANGED <<open, file, event, edits, engineVars>>

setupLogging(i) ==
    /\ \/ Goes(i, "logging", "directories")
       \/ LogsToFile(config[i]) /\ Goes(i, "logging", "failed")
    /\ UNCHANGED <<config, before, open, file, event, edits, engineVars>>

\* The credentials' directory, and the request log's if there is to be one: it
\* must exist and take a write.
MakeDirectories(i) ==
    /\ Goes(i, "directories", "binding") \/ Goes(i, "directories", "failed")
    /\ UNCHANGED <<config, before, open, file, event, edits, engineVars>>

\* Mutant of ensureCanBind: it is left to the bind proper.
ensureCanBindLater(i) ==
    /\ Goes(i, "binding", "probing")
    /\ UNCHANGED <<config, before, open, file, event, edits, engineVars>>

\* It listens, which may come in the way of another's bind, and gives it up.
ensureCanBind(i) ==
    /\ \/ CanListen(i) /\ Goes(i, "binding", "probing")
       \/ Goes(i, "binding", "failed")
    /\ UNCHANGED <<config, before, open, file, event, edits, engineVars>>

CloseProbe(i) ==
    /\ Goes(i, "probing", "relaying")
    /\ UNCHANGED <<config, before, open, file, event, edits, engineVars>>

StartRelay(i) ==
    /\ IF config[i].proxy.scheme # "none" /\ config[i].fallback
       THEN \/ Goes(i, "relaying", "materializing") /\ open' = [open EXCEPT ![i] = {"relay"}]
            \/ Goes(i, "relaying", "failed") /\ UNCHANGED open
       ELSE Goes(i, "relaying", "materializing") /\ UNCHANGED open
    /\ UNCHANGED <<config, before, file, event, edits, engineVars>>

\* Who serves is told of every change.
Written(text, by) ==
    /\ file' = [text |-> text, by |-> by]
    /\ event' = [i \in Processes |-> event[i] \/ stage[i] = "serving"]

\* materialize, in the two steps of a write.
Truncate(i) ==
    /\ Goes(i, "materializing", "writing")
    /\ Written(Empty, i)
    /\ UNCHANGED <<config, before, open, edits, engineVars>>

materialize(i) ==
    /\ Goes(i, "writing", "journalling")
    /\ Written(build(config[i]), i)
    /\ UNCHANGED <<config, before, open, edits, engineVars>>

closeRelay(i) == open' = [open EXCEPT ![i] = @ \ {"relay"}]

MaterializeFails(i) ==
    /\ Goes(i, "materializing", "failed") \/ Goes(i, "writing", "failed")
    /\ closeRelay(i)
    /\ UNCHANGED <<config, before, file, event, edits, engineVars>>

\* Without a journal the process goes on.
OpenJournal(i) ==
    /\ Goes(i, "journalling", "assembling")
    /\ \/ UNCHANGED open
       \/ resolvedJournalDir(config[i]) /\ open' = [open EXCEPT ![i] = @ \cup {"journal"}]
    /\ UNCHANGED <<config, before, file, event, edits, engineVars>>

BuildEngine(i) ==
    /\ \/ Goes(i, "assembling", "built") /\ UNCHANGED open
       \/ Goes(i, "assembling", "failed") /\ closeRelay(i)
    /\ UNCHANGED <<config, before, file, event, edits, engineVars>>

----------------------------------------------------------------------------
(* Run.                                                                    *)

Leaves(i) == /\ Goes(i, "serving", "closing")
             /\ before' = [j \in Processes |-> before[j] \ {i}]

\* The guard protects keys that were asked for; the engine binds, or fails to,
\* with the configuration it was given, not the one in the file.
Bind(i) ==
    /\ guarded' = [guarded EXCEPT ![i] = config[i].keys # {}]
    /\ \/ CanListen(i) /\ Goes(i, "built", "serving")
          /\ live' = [live EXCEPT ![i] = build(config[i])]
       \/ Goes(i, "built", "closing") /\ UNCHANGED live
    /\ UNCHANGED <<config, before, open, file, event, edits, loading, known, displaced>>

\* A signal, or the server's end.
Stop(i) ==
    /\ Leaves(i)
    /\ UNCHANGED <<config, open, file, event, edits, engineVars>>

\* What Run defers.
Close(i) ==
    /\ Goes(i, "closing", "stopped")
    /\ open' = [open EXCEPT ![i] = {}]
    /\ guarded' = [guarded EXCEPT ![i] = FALSE]
    /\ UNCHANGED <<config, before, file, event, edits, live, loading, known, displaced>>

\* Mutant of guardInboundAuth: a file it cannot read is the end of it.
guardGivesUp(i) ==
    /\ stage[i] = "serving" /\ guarded[i]
    /\ IF file.text.form = "broken"
       THEN guarded' = [guarded EXCEPT ![i] = FALSE] /\ UNCHANGED <<stage, before>>
       ELSE file.text.keys = 0 /\ Leaves(i) /\ UNCHANGED guarded
    /\ UNCHANGED <<config, open, file, event, edits, live, loading, known, displaced>>

\* A tick that finds a file without keys, which an empty one is, too; what
\* cannot be read or parsed changes nothing.
guardInboundAuth(i) ==
    /\ stage[i] = "serving" /\ guarded[i]
    /\ file.text.form # "broken" /\ file.text.keys = 0
    /\ Leaves(i)
    /\ UNCHANGED <<config, open, file, event, edits, engineVars>>

----------------------------------------------------------------------------
(* Hot reload, one at a time.                                              *)

\* An empty file is one being written, and a content that is known is no
\* change; otherwise what loads is applied, and the log set up anew if its
\* setting is another than the one applied last.
reloadConfig(i) ==
    /\ stage[i] = "serving" /\ event[i] /\ loading[i] = Empty
    /\ event' = [event EXCEPT ![i] = FALSE]
    /\ IF file.text.form # "whole" \/ file.text = known[i]
       THEN UNCHANGED <<live, loading, displaced>>
       ELSE /\ live' = [live EXCEPT ![i] = file.text]
            /\ loading' = [loading EXCEPT ![i] = file.text]
            /\ displaced' = [displaced EXCEPT ![i] = @ \cup {"hooks"} \cup
                   IF file.text.logToFile = live[i].logToFile THEN {} ELSE {"log"}]
    /\ UNCHANGED <<stage, config, before, open, file, edits, known, guarded>>

\* When it is done the watcher notes the content it finds then.
reloadConfigIfChanged(i) ==
    /\ loading[i] # Empty
    /\ known' = [known EXCEPT ![i] = IF file.text = Empty THEN loading[i] ELSE file.text]
    /\ loading' = [loading EXCEPT ![i] = Empty]
    /\ UNCHANGED <<stage, config, before, open, file, event, edits, live, guarded, displaced>>

keepRefusalHooksInstalled(i) ==
    /\ stage[i] = "serving" /\ "hooks" \in displaced[i]
    /\ displaced' = [displaced EXCEPT ![i] = @ \ {"hooks"}]
    /\ UNCHANGED <<stage, config, before, open, file, event, edits, live, loading, known, guarded>>

keepLogOutputPinned(i) ==
    /\ stage[i] = "serving" /\ "log" \in displaced[i]
    /\ displaced' = [displaced EXCEPT ![i] = @ \ {"log"}]
    /\ UNCHANGED <<stage, config, before, open, file, event, edits, live, loading, known, guarded>>

\* The operator edits the file: whole, or with a mistake in it.
EditBegins ==
    /\ edits < MaxEdits /\ file.text.form \in {"whole", "broken"}
    /\ edits' = edits + 1
    /\ Written(Empty, Nobody)
    /\ UNCHANGED <<stage, config, before, open, engineVars>>

EditEnds ==
    /\ file.by = Nobody /\ file.text = Empty /\ edits > 0
    /\ \E k \in 0 .. 1, l \in BOOLEAN, f \in {"whole", "broken"} :
          Written([form |-> f, keys |-> k, logToFile |-> l], Nobody)
    /\ UNCHANGED <<stage, config, before, open, edits, engineVars>>

----------------------------------------------------------------------------
SvcInit ==
    /\ stage = [i \in Processes |-> "off"]
    /\ config \in [Processes -> {CHOOSE c \in Configs : TRUE}]
    /\ open = [i \in Processes |-> {}]
    /\ file = [text |-> [Empty EXCEPT !.form = "broken"], by |-> Nobody]
    /\ live = [i \in Processes |-> Empty] /\ event = [i \in Processes |-> FALSE]
    /\ loading = [i \in Processes |-> Empty] /\ known = [i \in Processes |-> Empty]
    /\ guarded = [i \in Processes |-> FALSE] /\ displaced = [i \in Processes |-> {}]
    /\ edits = 0 /\ before = [i \in Processes |-> {}]

Builds(i) ==
    \/ setupLogging(i) \/ MakeDirectories(i) \/ ensureCanBind(i) \/ CloseProbe(i) \/ StartRelay(i)
    \/ Truncate(i) \/ materialize(i) \/ MaterializeFails(i) \/ OpenJournal(i) \/ BuildEngine(i)

Serves(i) ==
    \/ Bind(i) \/ Stop(i) \/ Close(i) \/ guardInboundAuth(i)
    \/ reloadConfig(i) \/ reloadConfigIfChanged(i)
    \/ keepRefusalHooksInstalled(i) \/ keepLogOutputPinned(i)

SvcNext ==
    \/ \E i \in Processes : (\E c \in Configs : Start(i, c)) \/ Builds(i) \/ Serves(i)
    \/ EditBegins \/ EditEnds

\* The three tickers.
SvcFairness ==
    \A i \in Processes :
       /\ WF_svcVars(guardInboundAuth(i))
       /\ WF_svcVars(keepRefusalHooksInstalled(i)) /\ WF_svcVars(keepLogOutputPinned(i))

SvcSpec == SvcInit /\ [][SvcNext]_svcVars /\ SvcFairness

----------------------------------------------------------------------------
\* A process that is started on an address another serves on leaves that one
\* alone: as long as the other serves, it has not touched the file both would
\* share, nor begun a relay.  (On another host of the same port it may:
\* FileHeld.)
Undisturbed ==
    \A i, j \in Processes :
        j \in before[i] /\ Clash(Addr(config[i]), Addr(config[j])) =>
            file.by # i /\ open[i] = {}

\* Nobody writes the file somebody was serving from already: per port it is
\* named, a port is served once, and the bind is checked before it is written.
FileHeld == \A i \in Processes : before[i] # {} => file.by # i

\* A process leaves no relay behind wherever its start ends, and nothing when
\* its run does (a start that fails at its last step leaves its journal open);
\* and what serves was fit to: with secret keys or for this machine only, and
\* with a relay only before a proxy it can judge.
Released ==
    \A i \in Processes :
        /\ stage[i] = "failed" => "relay" \notin open[i]
        /\ stage[i] = "stopped" => open[i] = {}
        /\ stage[i] = "serving" =>
              LET c == config[i]
              IN /\ c.keys = {"secret"} \/ (c.keys = {} /\ isLoopbackHost(c.host))
                 /\ c.env = {}
                 /\ "relay" \in open[i] => /\ c.proxy.scheme = "http"
                                           /\ isLoopbackHost(c.proxy.host)

\* A process that asks for keys does not go on serving over a file that has
\* lost them, whatever the file has been through before and whoever wrote it;
\* and what a reload puts elsewhere comes back.  (The guard reads the file: of
\* the keys the engine has loaded nothing is said.)
Kept ==
    \A i \in Processes :
        /\ (stage[i] = "serving" /\ config[i].keys # {} /\ file.text.form = "whole"
              /\ file.text.keys = 0)
           ~> (stage[i] # "serving" \/ file.text.form # "whole" \/ file.text.keys > 0)
        /\ (stage[i] = "serving" /\ displaced[i] # {}) ~> (stage[i] # "serving" \/ displaced[i] = {})
=============================================================================
