# slimproxy: verification project

TLA+ models of slimproxy (a local proxy in front of a forked AI-API engine), model-checked
with TLC and, for the safety properties that matter most, proved with TLAPS. Every definition
is a translation of the Go source under `src/`; `PROJECT.json` maps each one to its lines.

Contents: 1 the system, 2 what is modelled, 3 runs and bounds, 4 fairness, 5 proofs,
6 findings, 7 what is only checked and what is not modelled, 8 plan.

## 1. The system

slimproxy embeds CLIProxyAPI (`third_party/`, forked) as an engine, wraps its HTTP handlers in
middleware, its upstream executor in a guard and its outbound connections in a relay, keeps an
event journal, and manages a `cloudflared` child that publishes the proxy. A full-screen panel
and a set of commands operate it.

| Component | State it keeps | Operations | What is hard | What makes it correct |
|---|---|---|---|---|
| Early flush (`proxy/earlyflush.go`) | per request: two timers, the sniffed body, the writer's flags, the heartbeat | arm, upload, timer callbacks, heartbeat, every writer call, `finish` | timers that have fired but not run, a writer gin recycles, a watchdog racing the handler, panics | one well-formed response; a committed silence is always covered and ended; one truthful note |
| Error envelope and access journal (`proxy/errorenvelope.go`, `access.go`) | per request: what the handler wrote, the status it held back | `WriteHeader`, `Write`, `Flush`, overflow, `finish`, filing | panics that skip `finish`, methods of gin's writer that are promoted past the wrapper, a buffer at its limit | a failure is sent once and whole, names nothing of this machine, and is filed as it was given |
| In-flight list, meter, collector (`proxy/inflight.go`, `netmeter.go`, `metrics/`) | rows of running requests, a meter per request, a window of samples | `Begin`/`End`, reads and writes of the body, `HandleUsage`, `Snapshot` | samples that end out of order, a meter read while a write blocks, records the accounting cannot trust | the numbers are those of the requests of the window; a row and a meter belong to their request |
| Health alarm (`metrics/health.go`) | a streak of failures of one class, whether it was announced | `Observe`, called by the collector for every sample | class changes inside a streak, streams abandoned in an outage | an alert for every sustained failure and only for one |
| Stall guard (`proxy/stallguard.go`) | per stream: the pump's timer, the ledger of its ending | receive, forward, fire, drain, report | a stale timer firing during a slow write, `select` choosing at random | transparent; only a silent upstream is severed; the ending is named once and truly |
| Connection setup (the fork's `slimproxy_utls_setup.go`, `utls_client.go`) | per round tripper: the connection of a host, who sets it up, a channel that is closed when that ends | look, wait, create in bounded attempts, pause, hand over, evict | a creator that fails, panics or goes away with others waiting; a guard that fires as the setup completes | one setup at a time; nobody waits for good or fails by another's end; what is handed out stays open |
| Refusal hooks (`proxy/refusal.go`) | findings keyed by the request's context, a counter beside the map | the two hooks of the translator registry, `track`, `forget`, the emergency clear | contexts reused by retries, two atomics for one fact, hooks that a reload displaces | a mark belongs to the attempt that was refused; a refusal is marked; nothing piles up |
| Journal (`journal/`) | a bounded channel, the day's file, the folded rejects | `Append`, the writer loop, rotation, prune, `Add`, `flush`, `Close` | events out of date order, a full queue, disk errors, a shutdown racing late callers | nothing lost unsaid, order and retention kept, rejects counted once, Close drains |
| Outbound relay (`outbound/`) | one verdict on the proxy under a mutex, per-connection progress | accept, `viaProxy`, `chain`, `direct`, `record`, `Close` | a probe in flight while a handshake fails, notifications across goroutines, close racing a notification | no flapping, changes told in order, connections sent on evidence and served |
| Tunnel manager (`tunnel/`) | a record file, a process, a log; no daemon | `up`, `down`, `status` | several commands at once, pids reused, a crash or failure after every step | a living child is never forgotten; success and removal are reported truly |
| Service lifecycle, configuration (`proxy/proxy.go`, `config.go`, `logging.go`, `logpin.go`) | what is open, the file of the settings in force, the guards' timers | `Validate`, `Build`, `Run`, guards, reloads, shutdown | a second process on the port, on the same host or on another, a start that fails half-way, a configuration read while it is being written | fail-closed inbound authentication; no relay left behind; no file touched that another serves from |
| Credentials (`credentials/`, `cmd/slimproxy/authcmd.go`) | a directory of files | list, remove, log in | a pool that changes while a question waits | the last credential is not taken unforced |
| Diagnosis (`diag/`, `cmd/slimproxy/diagnose.go`, `tunnel/connectivity.go`) | a report | checks under deadlines, the verdict, the exit status, the cause of a failed start | "unknown" taken for "fine", an interruption between two checks, a log still growing | verdicts no better than the evidence |
| Panel and supervision (`tui/`, `cmd/slimproxy/dashboard.go`) | polling chains, the prompt, one running action, confirmations, an output and its position | keys, ticks, readings, actions, quitting, `supervise`, drawing | a timed-out action that goes on, chains that stop or double, rows counted in five places | one chain per source, nothing runs that was not chosen, the view fits, the exit happens and is told |
| Reading the journal (`journal/reader.go`, `cmd/slimproxy/logcmd.go`) | none: a ring of rows and a count while it reads | list the days, scan them, filter, summarise | files that grow, shrink and are torn while they are read; days and limits at their edges | nothing asked for is passed over unsaid, nothing is shown twice, no refused request is in two counts |
| Translation by hand, permissions, wording, the engine | - | - | - | not modelled, or external |

How they interact. A request passes error envelope, refusal, net meter, access and fidelity,
in-flight and early flush, in this order, to the engine's handler; the engine's executor runs
under the stall guard and dials through the relay. All of them call `Runtime.Note`, which
appends to the journal; the relay's `OnFlip` and the guards do so from goroutines with no
recovery. `Runtime.Run`, when the service has stopped, notes the stop, closes the relay, the
reject folder and the journal, in this order, while such goroutines may still run. The tunnel
manager shares nothing with the proxy but the machine: its instances meet in one record file.

The hazards of each part, with their lines and the properties that cover them, are listed in
`PROJECT.json`; a hazard no property covers says why in its note.

## 2. What is modelled

**StreamContract** is the abstract promise of one response of the early-flush writer: frames
are opened once, keep-alives only pad a preamble nobody has added to, an error of the proxy
is only ever the last frame after a silence, and nothing is written once gin owns the writer
again. **EarlyFlush** implements it. Its actions are the critical sections of
`earlyFlushWriter`: the upload goroutine (`ReadField`, `Disarm`, `UploadFailed`, `Install`),
the callbacks of the desperation and threshold timers (`FlushLost`, `FlushHeld`,
`FlushPreamble`), where "firing" is a callback that `Stop` no longer reaches, the heartbeat
(`HeartbeatBeat`, `HeartbeatTimeout`, ...), the writer calls (`WriteHeader`, `Write`,
`FlushCall`) and `finish` (`FinishClose`, `FinishJoin`, `FinishConclude`). The handler, its
panics, gin's recovery and the client's hang-up are external actions.

**Journal** has the event channel, the writer goroutine (`Take`, `FlushTick`, `Prune`,
`WriterExit`), rotation by the event's own day, the reject folder with its ticker goroutine
(`FoldTick`, `FoldEmit`) and the shutdown of `Run` (`NoteStop`, `CloseFolder`, `CloseSwap`,
`CloseEmit`, `CloseChannel`, `CloseFile`). A send on the closed channel is a panic: recovered
in handlers and in the usage manager, the end of the process anywhere else. A write or an open
may fail at any time. **JournalLog** is the other side: the log command lists the days and reads
their files line by line (`OpenDay`, `ReadLine`), pushing what the query is about into a ring of
the latest rows or, when it is noise the query leaves out, into a count; meanwhile the writer
appends, prunes, and may leave a part of a line, behind which the next line is unreadable.
`present` is history: the lines there were to be found when the command began.

**StallGuard** has the inner executor, which publishes what it scans before it offers it, the
pump with its timer and ledger, and the reader. Chunks are told apart by what the ledger sees
of them: the opening event, data, the usage line, an error. Time passes in ticks and only when
the pump cannot run, that is, scheduling is instantaneous next to the window of a minute.

**Relay** has the accept loop, the verdict (`probed`, `up`, `age` for `lastProbe`, `hold` for
`brokenUntil`) with the mutex that is held across the probe and the notification, the
progress of each connection, and the owner's shutdown. `record` is split where the mutex does
not protect it: the flag `closed` is read in one step and `OnFlip` called in the next.

**Tunnel** has several callers, each a command or the panel, over one record file, the process
table and the log. A file is an inode under a path, so what is written to a claim that was
unlinked is lost; processes carry their order of birth for their start times, and a pid may be
given to something else. Each access to what is shared is a step; each may fail; a caller may
die between any two. `identityOf` may fail at any time, lists a dead child only on Unix, and
compares what `verifyRecord` compares. Bounded waits (`confirmStarted`, `killAndConfirm`) end
by their poll or by their timeout, whichever comes first.

**Refusals** has the map of findings (`pending`, the contexts with one), the counter `live`
beside it, and each request's way through the hooks. A request makes attempts under one
context; an attempt is a sequence of upstream lines: those before its `message_delta`, that
line, which alone may carry a refusal, and those after it; an answer that does not stream is
one body. `Clean` and `Refused` are `NormalizeResponseBefore`, `After` and `Spend`
`NormalizeResponseAfter`, and every atomic operation of `track` and `forget` is a step of its
own, the clear's `Range` key by key: it meets what was in the map throughout, and may or may
not meet what is stored meanwhile. The registry takes its hooks when a line enters it, so a
reload (`Reload`) replaces them between two lines. Retries, endings, the order of lines and
what the translators make of them are external.

**ConnSetup** has the requests of one round tripper on their way to a connection for one host:
who finds one (`Reuse`), waits (`Wait`, `Wake`, `LeaveWait`) or sets up (`Create`), the phases of
an attempt with its deadline (`TimesOut`), the guard that closes a connection from a goroutine of
its own (`GuardCloses`) and the hand-over that must first stop it (`HandOver`), the pause between
attempts, and the creator's deferred function in its two steps, under the mutex (`Settle`) and
after it (`Announce`). A connection is named by the request that set it up. As the program
stands every request builds its own round tripper; the type promises as much to several.

**Response** is one request through the error envelope around the access journal. A body is a
sequence of pieces, and a piece is what the envelope can tell of it: whether it is an error
document, of which type, and what its text mentions. What was built from a local error is
replaced, or passed if `safeMessage` finds nothing in it; overflow, a swallowed flush, streams and panics are steps of
the handler. gin's own writer, its recovery and the end of its chain are external. A request is
"over" when its handler returned and "broken" when it panicked: the journal and the envelope's
`finish` are run in the first case only.
**Health** folds samples into a streak. A sample is what the tracker reads of it: success or
failure, the status, and whether the client cancelled, before or after the upstream's first
byte. `told` and `seen` are history: the operator's last word, and the latest samples that say
anything. **Traffic** puts both into the requests of several clients: rows that begin and end,
the meter on the two network legs, the usage records an engine queues for one goroutine, and the
collector, which turns a record into a sample, keeps the window and hands the sample to the
alarm under its lock. A panel that looks prunes the window, too (`Look`); what it is shown is an
operator of the state it finds (`Snapshot`), whose loop is a recursive function over the samples
and whose two sorts are any of the orders `sort.Slice` may give.

**Screen** has the rows of the panel as functions: the frame, the sections of the stream, an
output's window and its indicator, the completion list. **Panel** has every message of `Update`:
keys in the three modes, resizing, ticks, readings and the end or the timeout of an action, the
matching of commands to the text, and `supervise` with its two goroutines and the grace period.
A reading says how many changes it has seen, so that a stale one can be told.

**Service** is a machine with several processes that share the number of a port and, under it, the
file of the settings in force. What a process listens on is a host of that port (`Addr`), for the
moment of `ensureCanBind` (until `CloseProbe`) or as long as it serves; two hosts exclude one
another if they are the same address, and one and every interface if the system has it so
(`WildcardAlone`, as on Linux). What else may hold an address is a failure at any time. `Validate` is a conjunction with one conjunct per complaint; every step
of `Build` and `Run` may fail, and what is open is a set; a write empties the file before it fills
it; the watcher, the guard of inbound authentication, and the tickers that put the hooks and
the log back are steps of their own. **Credentials** is the directory: what a file is worth, the
listing, a removal with its question, the login's file, and renewals and edits meanwhile.
**Diagnosis** gives each check its level from what there is to find, runs the checks under
deadlines, panics and interruption, and turns the report into a verdict and an exit status; and it
names the cause of a failed tunnel start from a log that is still being written.

The `Proofs` modules hold the theorems, the `MC` modules what only TLC needs. Four MC modules
check several machines in one run: `MCJournal` (Journal, JournalLog), `MCUpstream` (ConnSetup,
StallGuard), `MCResponse` (Response, Traffic in three ways, Refusals) and `MCOperator` (Panel in four ways, Service in three, Credentials,
Diagnosis, the log of a start). These share no state; a variable `machine`, chosen at the start,
says which of them a behaviour follows, so that their states add up and do not multiply.

## 3. Runs, and what they show

| Run | Instance | Shows |
|---|---|---|
| `early_flush` | one request, 3 writer calls, 2 keep-alives, statuses 200/429/500 | the response is well formed (`ImplementsContract`), a silent committed stream has a live heartbeat (`SilenceCovered`) and an end, and no request is left hanging (`NobodyHangs`), no preamble over a body that says stream:false, every stream is ended, and as the notes say (`EndedAsRecorded`) |
| `journal` | one kind of reject, a queue of two, three days, retention of one; three lines of six kinds on days of two moments, seven questions | accounting (`Accounted`), order and retention (`FilesKept`), conservation of rejects, draining; the log command's listing and counts are true of the files (`AnswerTrue`) |
| `upstream` | a window of 3 ticks, up to 5 chunks and an error; three requests of two attempts | transparency, the spared slow reader, the named ending, the end of both goroutines (`StreamEnds`); what sharing a setup must not cost (`Shared`), and that nobody waits for good (`Attended`) |
| `tunnel` | 2 callers, 2 pids, 3 inodes, 3 births | no orphan, and no empty claim but a crash's (`NothingLost`); `up` and `down` tell what is so (`CommandsTell`) |
| `tunnel_one_child` | the same, smaller | finding 1 |
| `relay` | 2 connections, verdict of 1 tick, backoff of 2 | no flapping, notifications, evidence and answers (`Justified`), service |
| `relay_flips` | 1 connection | finding 2 |
| `response` | codes 200, 204, 302, 401, 500, 502, four kinds of piece, 2 held, 3 writes; two clients, five kinds of usage record, a window of 2, a clock up to 3; 2 requests of 2 attempts, a map that holds one finding | an answer is sent once and whole and says nothing local (`SentWhole`, `NothingLocal`); it is filed as it was given, and where the client has another status (`FiledAsSent`); rows and meters belong to their request and the panel's numbers are those of the window (`MetricsTrue`); alarms rest on what was seen and outages are announced (`AlarmTrue`); the counter of refusals does not drift before a clear and ended requests leave nothing (`Bounded`), marks are scoped to their attempt (`Scoped`), refusals are marked unless something took the finding or the hooks (`Marked`) |
| `panic_answered` | the same, one request | finding 3 |
| `health_alarm` | rungs at 2 and 4, a streak and a memory of 4 | finding 4 |
| `operator` | three commands, texts of two words, heights 16 and 17, outputs of 4 and 12 rows, 3 readings, 2 actions; two processes, two edits; two credential files of one account, a clock up to 2, a terminal and the panel; a diagnosis with one thing amiss, logs of three lines | polling neither stops nor doubles; what runs was asked for; the view fits; actions and the process end, and on what is true; a second process on an address that is served disturbs nobody (`Undisturbed`); a start that fails leaves no relay and a run that ends leaves nothing (`Released`); nothing that was to have keys is served from a file without, and hooks and log come back (`Kept`); the last credential is kept; verdicts rest on evidence |
| `file_held` | two processes, on two hosts of a port | finding 5 |

Why the bounds are enough. *EarlyFlush*: three writer calls let a handler open, write and fail
in any order, two keep-alives separate the first, a further one and the deadline. *Journal*: a
queue of two is full, half full and empty; three days with a retention of one contain a day
that expires, one that is on the edge and one that is kept; two rejects meet in one batch or
in two. *JournalLog*: the command runs on the last day, when the first may be pruned; the periods
begin in the middle of a day, between days, and end at midnight; two lines are there and a third
is written while the files are read, so a limit of one is reached both ways. *StallGuard*: five chunks hold an opening, data, the tail, something after it, and an
error; three ticks let a timer be re-armed in the middle. *ConnSetup*: two requests go all the
way, with every failure and death; a third, which may find one creator gone and another at work,
is checked up to the connection, and only the first may fail beside it; two attempts are one and
its retry. *Tunnel*: two callers are the race the record file is for; three births let a pid be
used again while another process lives; three inodes are one per caller and one more. *Relay*:
two connections are the losers and the winner of a probe; the backoff outlasts the verdict's
life, as in the code (30 s, 2 s). *Refusals*: with a limit of one, two refused requests cross it,
and the clear of the one meets the storing, counting and forgetting of the other; two attempts
are a refusal and its retry. *Response*: a limit of two with three writes is within, at and
beyond it; the pieces are an upstream's document, the proxy's own with a local text, another
document and plain text. *Traffic*: two requests end in the other order than they began, and a
window of two on a clock of three has a sample fall out; the records are a success, one whose
accounting cannot be trusted, and failures with and without a status, a provider and a first
byte. *Panel*: 16 is the least height the frame is drawn at and 17 leaves one row more, 4 rows of
output fit and 12 do not; three readings are the tick's, one by hand and one by an action.
*Service*: the configurations have one thing amiss each, or the inbound and the outbound settings
in every combination; two edits take the keys and give them back. Of the two processes of a pair either may take
every interface or this machine's own, and they may serve side by side (`WildcardAlone` is false in
the `operator` run), share the file and reload one another's settings. *Credentials*: two files of one
account are the last and the last but one, and two callers may ask at once. *Diagnosis*: the
levels are decided check by check, so one thing amiss at a time meets every branch.

Callers, pids, inodes and contexts are interchangeable, and the `tunnel` and `response` runs use
that symmetry; they check no liveness. Deadlock checking is off where the system may stop: a closed
relay, a process that has ended, a request or a diagnosis that is over. In `journal` and
`upstream` the MC module adds the stuttering step of a process that is over, and deadlock is
checked.

## 4. Fairness, and why the code justifies it

Weak fairness on goroutines that are runnable: the writer, the pump, `finish`, the heartbeat,
the accept loop, the steps of a connection; on timers, which the runtime fires; and on time
itself in `StallGuard`. Handlers are assumed to return only once their context has ended.
`Relay` assumes strong fairness of the mutex (Go's `sync.Mutex` hands over to a waiter after
1 ms) and of accepting (shortages are "transient by nature", `outbound.go`: an attempt
succeeds now and then). `ConnSetup` assumes that a dial or a handshake whose context has ended
comes back (the dialers and `HandshakeContext` take the context, and the guard closes the
connection under the preface), that the deadline of an attempt fires, and that goroutines with
something to do run. Of the panel (`PanelFairness`): an action ends or its deadline passes, a
proxy and a panel that were told to stop do so or the grace period ends, and `supervise` runs; the
operator and what is asked of the disk or of Cloudflare owe nothing. Of the service
(`SvcFairness`): its three tickers tick. Nothing is assumed of clients, of an upstream before it
is cut, of the proxy's port, of the tunnel's callers, of editors or of the owner's decision to
stop.

## 5. Proofs

Eight `Proofs` modules prove their theorems for all values of the constants, under the named
assumptions of the modules they are about. These say that capacities and durations are positive,
requests finitely many, placeholders distinct from members, keys of the three kinds; and of what
comes from outside:

- `TrafficAssumption`: of the usage records, that a success is published with an empty failure
  (`usage_helpers.go:96`; `causeOf` and the alarm would otherwise read two things of one sample),
  and that in an accounting that is vouched for and has input the cache reads are a part of it
  (`Valid` of `accounting.go:52`; where there is no input the reads may be anything, and
  `Snapshot` counts neither);
- `LogAssumption`: that a refused request came from one of the three sources of `requestSource`,
  and that counts are natural numbers;
- `DiagAssumption`: that what there is to find is in `FactSet`, field by field.

Every run evaluates the assumptions of its modules. Each argument starts from the type invariant
(a theorem of its own for the older modules, a conjunct of the invariant for the others) and an
inductive strengthening.

- `EarlyFlushProofs`: `Lifecycle` says who may still run at each point of the request (a
  heartbeat only between the preamble and the join, a firing callback at any time), `WireInv`
  what the flags say of the frames already sent. They give `SilenceCovered`, and the step
  simulation that `EarlyFlush` implements `StreamContract` (`Implements`). Neither property is
  inductive alone: that nothing is written after release rests on `closed` being set under the
  lock before the heartbeat is joined, which only `Lifecycle` states. `EndInv` ties the notes and
  the status to the event a stream ended in, for the watchdog's ending (noted when its goroutine
  is over) and for that of `finish`; it gives `EndedAsRecorded`. `SniffInv` (while the sniffer
  may still say false, no timer is armed) gives `NoPreambleOverJSON`.
- `JournalProofs`: `RejectsInv` (a swap finds the flusher's batch empty) gives the
  conservation of rejects; `LogInv` orders the numbers in the files, the log and the queue,
  and says of an open file that was pruned that its day had expired; it gives `Accounted`,
  and `FilesKept` (`InOrder` and `RetentionKept`). Of the log command, `ListInv` divides the lines
  into those the scan is past and those ahead: the ring holds wanted lines of the first kind in
  the order of the files, and a wanted line that was there at the start is ahead, in the ring, or
  before all of a full ring. `HiddenOK` says of the count of noise that it is the weight of a set
  of hidden lines the scan is past, with all that were there and are not ahead. Both are kept by
  whatever the proxy appends and prunes between two steps, and give `AnswerTrue`. The weight of
  lines is the number of requests they stand for (`Requests`), so that it adds up by the theorems
  about finite sets.
- `UpstreamProofs`, of the stall guard: `FlowInv` splits what was produced into delivered, held
  and offered; `StarvedInv` ties the timer to the wait while the pump waits; `LedgerInv` says where
  a published record is on its way to the ledger. They give `Transparent`, `SlowReaderSpared`
  and `EndingNamed`. Of the setup: `Own` says what a request has at each place, its connection and
  that one's guard among it; `OneSetsUp` ties the creator to its place, and `KeptOK` adds that
  nothing usable is kept while somebody sets up, without which a setup might displace a connection
  in use. They give `Shared`.
- `TunnelProofs`: `TunnelInv` says for each place of a caller what it holds (`PlaceOK`), what the
  file it knows contains if the path still names it (`FileOK`), of whom the record is removed at
  the end of a `down` (`EndOK`) and whose markers the launch has read (`MarksOK`); of the records,
  that each names one process, by its birth and for ever, and no two callers own one file. As long
  as no record was removed on older evidence, each caller's file is the path's (`Kept`). With it
  `NothingLost` and `CommandsTell` are kept by every step of every caller, by crashes and by the
  reuse of pids.
- `RelayProofs`: `VerdictInv` adds to the properties that a probe is only in flight with no
  backoff running, which the mutex keeps true, and that a backoff has a verdict; it gives
  `NoFlapping`, `Told` and `Evidence`. `AnswerInv` says for each place of a connection what
  has been tried and answered; it gives `AnswerEarned`, and both together `Justified`.
- `RefusalsProofs`: the invariant is a conjunction over the requests, since a step of one can
  do nothing to another but take its finding (`Others`). For each it says where the frame is,
  that inside the hooks a finding means the current attempt was refused (`FindingOK`: the
  clean lines before the `message_delta` have cleared what an earlier attempt left), and what
  the end of an attempt may leave (`LeftOver`). It gives `Scoped`, `Marked` and `Cleaned`;
  for `Counted` only that no clear runs before the first alarm is needed; `Bounded` is both.
- `TrafficProofs`. The alarm: the streak is the length of a suffix of what was seen, all of its
  class, and no longer suffix is (`RunMaximal`), and a run past a rung is the operator's last word
  (`RunTold`). They give `AlarmsTrue` and `OutageTold`, which are `AlarmTrue`. A response:
  `RespInv` says for each place of the request what is held, what gin's writer and the wire have of
  it and what the journal was told; it gives `SentWhole`, `FiledAsSent` and `NothingLocal`. The
  traffic: `MeterInv` bounds a meter by the clock and a sample by the meter it was read from, with
  a write that is still blocked counted from its start, which gives `MeterTrue`; `RowsInv` keeps
  tokens apart and gives `RowsMatch`; `WindowInv` says that the samples held are those, each once,
  of all that were handed over that began within the window as it was at some earlier time
  (`Shows`, a bijection of places). A look prunes that to the window of now (`PruneKeeps`,
  `ShowsThrough`), the loop over it has an invariant for each number (`TallyOK`), and a finite set
  has an order in which its keys ascend (`SortedIs`): together they give `NumbersTrue` and
  `RowsSorted`, and with the others `MetricsTrue`. That a loop ends with what it should is proved
  by a least counterexample (`CountsUp`), since the theorems of induction take a predicate.
  `TrafficDrivesAlarm` is a refinement: every step of the
  traffic is a step of `Health`, on a sample it admits, or none.
- `OperatorProofs`. The panel: `ExitInv` for `ExitTold`; `AskInv` (a question is about the
  selected command, and no action is in flight under it) for `AskedFor`; `PollInv`, with the
  question's invariant and `RefreshOK` (what an action will want read is a set of sources), for
  `ChainsKept`; and lemmas about the arithmetic of the rows (`BelowFits`, `OutputFits`,
  `StreamFits`), for any height and length, with the types of the output shown (`ResultOK`) for
  `ScreenTrue`. The pool: every question stays about a file that was listed (`PoolOK`), which with
  the fact that the listing's guard counts only files worth keeping gives `LastKept` as a property
  of every step. The service: `SvcInv` says which places a process can be in with what open:
  nothing before the relay or after an end, and one that was started on an address another serves on
  no further than the bind; it gives `Undisturbed`, whichever hosts exclude one another (`Clash`
  stays closed in the proof), and `Released`. The diagnosis: `ExamInv` says of every
  entry of the report that it is what its check finds, or that the check was cut short, and the
  log of a failed start is read with `LogInv`; they give `Evidenced`. It is stated over `ExamSpec`,
  in which the pool is left alone once a diagnosis has begun (as in the run), since
  the property compares the report with the pool as it is.

Some definitions are written so that they can be reasoned about: the prover knows nothing of
`SelectSeq`, `SortSeq` and the folds, so the commands that match a text are those in certain places
(`InPlaces`), the worst level is chosen by its rank (`Worst`), and weights are cardinalities.

## 6. Findings

Each is a run that TLC ends with a counterexample, told in `PROJECT.json`.

1. `tunnel_one_child`: `claimRecord` promises mutual exclusion between two `up` calls.
   `localStatus` removes the record by name on the evidence of an earlier read, and may remove
   the claim of another `up`; both launch.
2. `relay_flips`: `Close` promises to silence `OnFlip`. `record` reads the flag and calls
   `OnFlip` without `Close` being excluded in between, which leads to the panic the flag was
   introduced against.
3. `panic_answered`: gin's recovery is to answer a panic with a 500. The envelope holds the 500
   back for a `finish` that the panic skips, and `WriteHeaderNow` is promoted past it: the client
   reads an empty 200. A handler that calls `AbortWithStatus` with a failure and returns
   (`openai_images_handlers.go:582`, `server_management.go:189`) lets `finish` write: the client reads
   a 200 with the error document, and the access journal files the failure. That much `FiledAsSent`
   says, of every request whose handler returned.
4. `health_alarm`: the tests of the alarm say that one which never clears leaves the operator
   believing the outage is still running. A failure of another class after an announced outage
   resets the announcement and says nothing; the successes that follow announce no recovery.
5. `file_held`: the comment of `ensureCanBind` says that a collision on the file "is exactly the case
   that cannot bind" (`proxy.go:661-663`). The bind is checked on host and port (`proxy.go:406`,
   `config.go:619`), the file is named by the port (`proxy.go:48`): a process on another host of the
   port passes the check and rewrites the file the first one serves from, which reloads it. If the
   newcomer has no keys, the guard of the first one stops it at its next tick (`Kept`). On a host
   that excludes the first one's, the comment is right: `Undisturbed`.

Disagreements met while reading, which no run shows by itself; the models follow the code.

- *Journal*: the comment at `proxy.go:196` says the folder is closed first so that it flushes into
  the writer. The folder's ticker goroutine is not waited for: it may hold a batch it has swapped
  out (`rejects.go:81`), and emits it to the closed channel. `Journal` has these steps (`FoldEmit`
  after `CloseChannel`), and `Accounted` allows for them.
- *Journal reading*: `Read` is to return events "in chronological order" and to keep "the most
  recent" (`reader.go:125-130`), but the order is that of the file: a request is dated by its start
  and filed at its end, so a slow one stands behind quicker ones that began later, and the limit
  counts from there. `-noise` is advertised "only when it would actually change the answer"
  (`logcmd.go:60-65`), but just when no noise was left out, where it changes nothing. The summary
  says "last 24h: N requests" of the rows listed, at most 50 unless `-n` says otherwise, with
  `-stats` too. `GUIDE.md:472` gives `-since 7d`, which is no duration to Go's flag package. A line
  that follows a part of one is lost with it, though the writer counts it as written.
- *Tunnel*: `process.go:187-193` says that comparing start times closes the reuse of pids. It
  rejects processes older than the launch; one that got the pid later is younger.
- *Panel*: a pressed quit stays armed when its action ends (`model.go:330`), so that the first
  press during a later action quits; the refresh after an action is skipped when an earlier probe
  is still in flight (`model.go:255`), and altogether when the action timed out; `/quit` during an
  action is refused each time, though `model.go:328` says both spellings behave alike; the
  `soonest` of the credentials is "always in the future" only until the clock passes it; a
  reading of the credentials has no deadline of its own, and two that are in flight are shown in
  the order in which they come back; an action that timed out may still be working when the next
  begins (`model.go:45-47`).
- *Service*: the guard takes a truncated file for one without keys and stops a healthy process
  (`proxy.go:274-277`), while the watcher passes over an empty file; the watcher remembers
  what it finds after a reload as what it has applied, so that the second of two quick writes may
  stay unapplied; a failure of `builder.Build` leaves the journal open; `keepRefusalHooksInstalled`
  gives up for good when an installation fails (modelled as always succeeding); the host `::1` is one
  that `Validate` takes for this machine's own (`openrelay_test.go:34`), but `Addr` gives it no
  brackets, so that nothing can listen on it (`CanListen`); the race between the check and the bind
  that `proxy.go:665-667` accepts is in the model, and outside `Undisturbed`, which is about what is
  served already.
- *Metrics*: "a request is in exactly one of the two" (`collector.go:178-179`, `inflight.go:31-33`)
  does not hold between the end of a row and the arrival of its record, nor the other way round.
- *Credentials*: two removals that each listed the pool before either removed may empty it
  unforced, since `RemoveResolved` judges by the listing it is given (`authcmd.go:334-340`,
  `credentials.go:314`); `LastKept` says so in its condition. The number "left" is as old.
- *Diagnosis*: a credential file whose fields have another type passes `checkCredentials`
  (`checks.go:337`) and is broken to `auth list` (`credentials.go:186`); `checkUpstreamReach` dials
  directly even with a `proxy-url`; `-port` is ignored when there is no configuration file
  (`diagnose.go:42-60`); the health check of `checkListenPort` does not ask whether it was
  interrupted.

## 7. What is only checked, and what is not modelled

Model-checked only: liveness (`NobodyHangs`, `CloseDrains`, `StreamEnds`, `Attended`, `Served`,
`Settles`, `Kept`), which is beyond the prover. Every safety property of the passing runs is a
theorem.

Left out of the modelled parts: header maps, frame and message texts, the bytes of a body, a
tunnel or a stream, durations but for their order.

- *Tunnel*: the foreground mode, the remote queries, and the refusal of Windows to remove an
  open file (a file is unlinked as on Unix; `UpTrue` is stated for Unix only, since on Windows a
  failed query next to a foreign marker can pass a dead child for a live one). No
  command recovers from the empty record that a crash leaves (`manager.go:374`), and no comment
  promises that one does.
- *Journal reading*: latencies, throughput, quota and the cache verdict of the summary, columns.
- *StallGuard*: the reinstallation of the wrap. *ConnSetup*: the choice of the dialer and of the
  round tripper; several hosts, which share only the mutex.
- *Refusals*: the streams of the claude dialect, which pass no hook, the details of a finding and
  the warnings. *Health*: how long a run lasted.
- *Middleware*: the fidelity probe and the request log, which decide nothing about a request.
- *Service*: file permissions, the refresh of the model catalog, and two overlapping reloads (one
  is modelled at a time). *Configuration*: paths, sizes, summaries.
- *Panel*: one-line notes, the last diagnosis, colours and columns. *Commands*: the parsing of
  arguments, printing, and the one-shot commands but those above.
- *Diagnosis and connectivity*: details, remedies, the parsing of fields.

Not modelled at all: translation by hand (a file piped through the engine's translators); permissions and
wording (input and output only); the engine, which is external throughout. `PROJECT.json` lists
every component with what is missing.

## 8. Plan

In this order.

1. The reinstallation of hooks and wraps in `Refusals` and `StallGuard`, composed with the
   reloads of `Service`.
