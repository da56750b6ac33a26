-------------------------------- MODULE Panel --------------------------------
(***************************************************************************)
(* The panel (tui/model.go, data.go, action.go, command.go) and the        *)
(* supervisor that runs it beside the proxy (cmd/slimproxy/dashboard.go).  *)
(*                                                                         *)
(* The panel's state changes on one goroutine, one message at a time:      *)
(* keys, ticks, readings, and the end of an action.  What is asked of the  *)
(* disk, of Cloudflare and of cloudflared runs elsewhere and takes as long *)
(* as it likes.  What a reading says is how many changes it has seen.  The *)
(* text of the prompt is a sequence of words.  Left out are the one-line    *)
(* notes, the verdict of the last diagnosis, and what an output says (it   *)
(* has no blank last lines).                                               *)
(***************************************************************************)
EXTENDS Screen, FiniteSets, SequencesExt

CONSTANTS Words,       \* what the operator may type
          MaxText,     \* bound on the words of the prompt
          MaxFetches,  \* bound on the readings under way when r is pressed
          MaxChanges,  \* bound on what changes outside
          MaxActions,  \* bound on the actions of a session
          Heights,     \* of the terminal
          Outputs      \* the lengths of a command's output

ASSUME PanelAssumption ==
    /\ MaxFetches \in Nat
    /\ MaxText \in Nat /\ MaxChanges \in Nat /\ MaxActions \in Nat
    /\ Heights # {} /\ Heights \subseteq Nat /\ Outputs \subseteq Nat

VARIABLES
    entry,      \* the prompt
    running,    \* the command of the action in flight, << >> for none
    quitArmed,
    result,     \* the lines of the output shown (-1: none), the first of them; the height
    timers,     \* how many ticks are to come, of each source
    fetches,    \* the readings under way
    view,       \* what was read last, of each source, and inFlight
    world,      \* how often each source has changed
    workers,    \* the goroutines of actions, in the order they began
    ui,         \* tui.Run: "up", "quitting", "gone"
    proxy,      \* the proxy's goroutine
    cancelled,  \* the context of both
    aborted,    \* the action OnAbort was told of
    exit,       \* how the process ended
    steered     \* history: the selection was moved since the text was edited

panelVars  == <<entry, running, quitArmed, result, timers, fetches, view,
                world, workers, ui, proxy, cancelled, aborted, exit, steered>>
promptVars == <<entry, steered>>
actVars    == <<running, quitArmed, result, workers, aborted>>
pollVars   == <<timers, fetches, view, world>>
hostVars   == <<ui, proxy, cancelled, exit>>

Sources == {"stats", "creds", "tunnel"}
None    == << >>   \* no command

----------------------------------------------------------------------------
(* The commands.                                                           *)

commandSet ==
    << <<"monitor">>, <<"tunnel", "status">>, <<"tunnel", "up">>, <<"tunnel", "down">>,
       <<"auth", "list">>, <<"auth", "rm">>, <<"auth", "add">>, <<"doctor">>, <<"routes">>,
       <<"quit">> >>

Danger      == {<<"tunnel", "down">>, <<"auth", "rm">>}
Consequence == Danger \cup {<<"tunnel", "up">>, <<"quit">>}

Has(name, text) ==
    \E i \in DOMAIN name : IsPrefix(text, SubSeq(name, i, Len(name)))

\* The commands in these places, in the order of the set.
InPlaces(places) ==
    [k \in 1 .. Cardinality(places) |->
        commandSet[CHOOSE i \in places : Cardinality({j \in places : j <= i}) = k]]

\* A name with words after it has arguments; else names that begin with the
\* text, else names that have it anywhere.
match(text) ==
    LET named == InPlaces({i \in DOMAIN commandSet : IsStrictPrefix(commandSet[i], text)})
        begun == InPlaces({i \in DOMAIN commandSet : IsPrefix(text, commandSet[i])})
    IN IF named # << >>
       THEN [hits |-> <<named[1]>>, args |-> SubSeq(text, Len(named[1]) + 1, Len(text))]
       ELSE [hits |-> IF begun # << >> THEN begun
                      ELSE InPlaces({i \in DOMAIN commandSet : Has(commandSet[i], text)}),
             args |-> << >>]

\* What running a command asks for: nothing (with or without dismissing the
\* output), to quit, or work, and then a reading of what the work may change.
Answers     == [does |-> FALSE, quit |-> FALSE, dismiss |-> FALSE, fails |-> FALSE, refresh |-> {}]
Fails       == [Answers EXCEPT !.fails = TRUE]
Does(after) == [Answers EXCEPT !.does = TRUE, !.refresh = after]

runTunnelStatus   == Does({"tunnel"})
runTunnelUp       == Does({"tunnel"})
runTunnelDown     == Does({"tunnel"})
runAuthList       == Does({"creds"})
runAuthRemove(args) == IF Len(args) = 1 THEN Does({"creds"}) ELSE Fails
runAuthAdd(args)  == IF args = << >> \/ args[1] = "claude" THEN Answers ELSE Fails
runDoctor         == Does({"tunnel", "creds"})
runRoutes         == Does({})
runMonitor        == [Answers EXCEPT !.dismiss = result.lines >= 0]
runQuit           == [Answers EXCEPT !.quit = TRUE]

Run(c, args) ==
    CASE c = <<"monitor">>          -> runMonitor
      [] c = <<"tunnel", "status">> -> runTunnelStatus
      [] c = <<"tunnel", "up">>     -> runTunnelUp
      [] c = <<"tunnel", "down">>   -> runTunnelDown
      [] c = <<"auth", "list">>     -> runAuthList
      [] c = <<"auth", "rm">>       -> runAuthRemove(args)
      [] c = <<"auth", "add">>      -> runAuthAdd(args)
      [] c = <<"doctor">>           -> runDoctor
      [] c = <<"routes">>           -> runRoutes
      [] c = <<"quit">>             -> runQuit

\* What a command's work changes outside, if it succeeds.
Changes(c) ==
    CASE c \in {<<"tunnel", "up">>, <<"tunnel", "down">>} -> {"tunnel"}
      [] c = <<"auth", "rm">> -> {"creds"}
      [] c \notin {<<"tunnel", "up">>, <<"tunnel", "down">>, <<"auth", "rm">>} -> {}

----------------------------------------------------------------------------
(* The screen, as it is now.                                               *)

selected == IF entry.sel \in DOMAIN entry.hits THEN entry.hits[entry.sel] ELSE None

Below ==
    LET c == IF entry.mode = "confirming" THEN entry.cmd ELSE selected
    IN belowHeight(result.height, entry.mode, Len(entry.hits), c \in Consequence)

clampScroll(r) ==
    IF r.lines < 0 THEN [r EXCEPT !.top = 0]
    ELSE [r EXCEPT !.top = Greatest(0, Least(@, maxScroll(r.height, Below, r.lines)))]

Shows(lines) == [result EXCEPT !.lines = lines, !.top = 0]
Dismissed    == Shows(-1)

----------------------------------------------------------------------------
(* Polling.                                                                *)

\* A reading is begun by a tick, whose successor its end will arm (renew), or
\* by something else.
Begun(s, renew) ==
    LET used == {f.slot : f \in {g \in fetches : g.source = s}}
    IN [slot |-> CHOOSE n \in 1 .. Cardinality(used) + 1 : n \notin used,
        source |-> s, renew |-> renew, seen |-> -1]

\* A tick that finds a probe out is armed again in its place.
Tick(s) ==
    /\ ui = "up" /\ timers[s] > 0
    /\ IF s = "tunnel" /\ view.inFlight
       THEN UNCHANGED <<timers, fetches, view>>
       ELSE /\ timers' = [timers EXCEPT ![s] = @ - 1]
            /\ fetches' = fetches \cup {Begun(s, TRUE)}
            /\ view' = IF s = "tunnel" THEN [view EXCEPT !.inFlight = TRUE] ELSE view
    /\ UNCHANGED <<world, promptVars, actVars, hostVars>>

\* The reading is taken; its message is still to come.
Observe(f) ==
    /\ f.seen = -1
    /\ fetches' = (fetches \ {f}) \cup {[f EXCEPT !.seen = world[f.source]]}
    /\ UNCHANGED <<timers, view, world, promptVars, actVars, hostVars>>

\* Mutant of renewTick: every reading arms a tick.
renewTickAlways(f) == [timers EXCEPT ![f.source] = @ + 1]

renewTick(f) == IF f.renew THEN [timers EXCEPT ![f.source] = @ + 1] ELSE timers

\* statsMsg, credsMsg, tunnelMsg: in the order they come.
Reading(f) ==
    /\ ui = "up" /\ f.seen >= 0
    /\ fetches' = fetches \ {f}
    /\ timers' = renewTick(f)
    /\ view' = IF f.source = "tunnel" THEN [view EXCEPT !.tunnel = f.seen, !.inFlight = FALSE]
               ELSE [view EXCEPT ![f.source] = f.seen]
    /\ UNCHANGED <<world, promptVars, running, quitArmed, result, workers, aborted,
                   hostVars>>

\* What is read changes by itself, too.
Change(s) ==
    /\ world[s] < MaxChanges
    /\ world' = [world EXCEPT ![s] = @ + 1]
    /\ UNCHANGED <<timers, fetches, view, promptVars, actVars, hostVars>>

\* Readings that are wanted now; a probe that is out stands for another one.
Refreshed(wanted) ==
    /\ LET begin == IF view.inFlight THEN wanted \ {"tunnel"} ELSE wanted
       IN fetches' = fetches \cup {Begun(s, FALSE) : s \in begin}
    /\ view' = IF "tunnel" \in wanted THEN [view EXCEPT !.inFlight = TRUE] ELSE view
    /\ UNCHANGED <<timers, world>>

----------------------------------------------------------------------------
(* Actions.                                                                *)

Busy == running # None

\* requestQuit: refused once while an action is in flight.
requestQuit ==
    IF Busy /\ ~quitArmed
    THEN /\ quitArmed' = TRUE
         /\ UNCHANGED <<ui, aborted>>
    ELSE /\ ui' = "quitting"
         /\ aborted' = IF Busy THEN running ELSE aborted
         /\ UNCHANGED quitArmed

\* The command decides; its work, if any, begins on a goroutine of its own.
execute(c, args) ==
    LET spec == Run(c, args)
    IN CASE spec.quit  -> requestQuit /\ UNCHANGED <<running, result, workers>>
         [] spec.fails -> UNCHANGED <<ui, aborted, quitArmed, running, result, workers>>
         [] spec.does  -> /\ Len(workers) < MaxActions
                          /\ running' = c /\ result' = Dismissed
                          /\ workers' = Append(workers, [cmd |-> c, refresh |-> spec.refresh,
                                                         done |-> FALSE, res |-> "none"])
                          /\ UNCHANGED <<ui, aborted, quitArmed>>
         [] ~spec.quit /\ ~spec.fails /\ ~spec.does ->
                          /\ result' = IF spec.dismiss THEN Dismissed ELSE result
                          /\ UNCHANGED <<ui, aborted, quitArmed, running, workers>>

\* A worker's work, however late, and what it answers.
Works(i) ==
    /\ ~workers[i].done /\ exit = "none"
    /\ \E res \in {"note", "lines", "error"} :
          /\ workers' = [workers EXCEPT ![i].done = TRUE, ![i].res = res]
          /\ world' = IF res = "error" THEN world
                      ELSE [s \in Sources |-> IF s \in Changes(workers[i].cmd)
                                                 /\ world[s] < MaxChanges
                                              THEN world[s] + 1 ELSE world[s]]
    /\ UNCHANGED <<timers, fetches, view, promptVars, running, quitArmed, result,
                   aborted, hostVars>>

Current == workers[Len(workers)]

\* actionDoneMsg of work that is done; if the deadline has passed it is told as
\* late, and has an output.
ActionDone ==
    /\ ui = "up" /\ Busy /\ Current.done
    /\ running' = None
    /\ \E late \in BOOLEAN, n \in Outputs :
          LET res == IF late /\ Current.res = "note" THEN "lines" ELSE Current.res
          IN result' = IF res = "note" THEN result ELSE Shows(n)
    /\ Refreshed(Current.refresh)
    /\ UNCHANGED <<promptVars, quitArmed, workers, aborted, hostVars>>

\* actionDoneMsg of work that is not: it goes on, and nobody waits for it.
TimedOut ==
    /\ ui = "up" /\ Busy /\ ~Current.done
    /\ running' = None
    /\ result' = Shows(1)
    /\ UNCHANGED <<pollVars, promptVars, quitArmed, workers, aborted, hostVars>>

----------------------------------------------------------------------------
(* Keys.                                                                   *)

Mode(m) == ui = "up" /\ entry.mode = m
Idle    == [mode |-> "normal", text |-> << >>, hits |-> << >>, args |-> << >>, sel |-> 1,
            cmd |-> None]

Prompt(text) == [Idle EXCEPT !.mode = "entry", !.text = text, !.hits = match(text).hits,
                             !.args = match(text).args]

\* Mutant of refreshHits: the selection is only pulled into the list.
refreshHitsClamped(text) ==
    [Prompt(text) EXCEPT !.sel = Greatest(1, Least(entry.sel, Len(match(text).hits)))]

\* Another text is another choice.
refreshHits(text) == Prompt(text)

KeySlash ==
    /\ Mode("normal")
    /\ entry' = Prompt(<< >>)
    /\ steered' = FALSE
    /\ UNCHANGED <<actVars, pollVars, hostVars>>

KeyWord(w) ==
    /\ Mode("entry") /\ Len(entry.text) < MaxText
    /\ entry' = refreshHits(Append(entry.text, w))
    /\ steered' = FALSE
    /\ UNCHANGED <<actVars, pollVars, hostVars>>

KeyBackspace ==
    /\ Mode("entry")
    /\ entry' = IF entry.text = << >> THEN Idle ELSE refreshHits(Front(entry.text))
    /\ steered' = FALSE
    /\ UNCHANGED <<actVars, pollVars, hostVars>>

KeyTab ==
    /\ Mode("entry") /\ selected # None
    /\ entry' = refreshHits(selected)
    /\ steered' = FALSE
    /\ UNCHANGED <<actVars, pollVars, hostVars>>

KeyUpDown(d) ==
    /\ Mode("entry") /\ entry.sel + d \in DOMAIN entry.hits
    /\ entry' = [entry EXCEPT !.sel = @ + d]
    /\ steered' = TRUE
    /\ UNCHANGED <<actVars, pollVars, hostVars>>

\* Enter: a command that is dangerous asks first.
submit ==
    /\ Mode("entry")
    /\ UNCHANGED <<pollVars, proxy, cancelled, exit, steered>>
    /\ IF selected = None \/ Busy
       THEN UNCHANGED <<entry, running, quitArmed, result, workers, ui, aborted>>
       ELSE IF selected \in Danger
       THEN /\ entry' = [entry EXCEPT !.mode = "confirming", !.cmd = selected]
            /\ UNCHANGED <<running, quitArmed, result, workers, ui, aborted>>
       ELSE entry' = Idle /\ execute(selected, entry.args)

KeyYes ==
    /\ Mode("confirming")
    /\ entry' = Idle /\ execute(entry.cmd, entry.args)
    /\ UNCHANGED <<pollVars, proxy, cancelled, exit, steered>>

KeyNo ==
    /\ Mode("confirming")
    /\ entry' = Idle
    /\ UNCHANGED <<running, quitArmed, result, workers, aborted, pollVars, hostVars, steered>>

\* Esc leaves the prompt, or closes the output.
KeyEsc ==
    /\ ui = "up" /\ entry.mode # "confirming"
    /\ IF entry.mode = "entry" THEN entry' = Idle /\ UNCHANGED result
       ELSE result' = Dismissed /\ UNCHANGED entry
    /\ UNCHANGED <<running, quitArmed, workers, aborted, pollVars, hostVars, steered>>

KeyQ ==
    /\ Mode("normal")
    /\ requestQuit
    /\ UNCHANGED <<promptVars, running, result, workers, pollVars, proxy, cancelled, exit>>

KeyR ==
    /\ Mode("normal") /\ Cardinality(fetches) < MaxFetches
    /\ Refreshed({"creds", "tunnel"})
    /\ UNCHANGED <<running, quitArmed, result, workers, aborted, promptVars, hostVars>>

CtrlC ==
    /\ ui = "up"
    /\ ui' = "quitting"
    /\ aborted' = IF Busy THEN running ELSE aborted
    /\ UNCHANGED <<running, quitArmed, result, workers, promptVars, pollVars,
                   proxy, cancelled, exit>>

\* Up, down, a page, and the ends of the output.
Scroll ==
    /\ Mode("normal") /\ result.lines >= 0
    /\ LET page == resultViewHeight(result.height, Below, result.lines)
           end  == maxScroll(result.height, Below, result.lines)
       IN result' \in {clampScroll([result EXCEPT !.top = @ + d]) : d \in {-1, 1, -page, page}}
                      \cup {[result EXCEPT !.top = t] : t \in {0, end}}
    /\ UNCHANGED <<running, quitArmed, workers, aborted, promptVars, pollVars, hostVars>>

WindowSize(h) ==
    /\ ui = "up"
    /\ LET resized == [result EXCEPT !.height = h]
           below   == belowHeight(h, entry.mode, Len(entry.hits),
                          (IF entry.mode = "confirming" THEN entry.cmd ELSE selected) \in Consequence)
       IN result' = IF resized.lines < 0 THEN [resized EXCEPT !.top = 0]
                    ELSE [resized EXCEPT !.top = Least(@, maxScroll(h, below, resized.lines))]
    /\ UNCHANGED <<running, quitArmed, workers, aborted, promptVars, pollVars, hostVars>>

----------------------------------------------------------------------------
(* supervise: the panel on this goroutine, the proxy on another.           *)

\* The proxy returns by itself, or because it was told to; its answer is there
\* before the context is cancelled.
ProxyReturns ==
    /\ proxy = "up"
    /\ proxy' \in IF cancelled THEN {"stopped", "failed"} ELSE {"failed"}
    /\ UNCHANGED <<ui, cancelled, exit, promptVars, actVars, pollVars>>

\* Mutant of ProxyOver: the panel is left alone.
ProxyOverAlone == FALSE /\ UNCHANGED panelVars

ProxyOver ==
    /\ proxy \in {"stopped", "failed"} /\ ~cancelled
    /\ cancelled' = TRUE
    /\ UNCHANGED <<ui, proxy, exit, promptVars, actVars, pollVars>>

\* A signal.
Signal ==
    /\ exit = "none" /\ ~cancelled
    /\ cancelled' = TRUE
    /\ UNCHANGED <<ui, proxy, exit, promptVars, actVars, pollVars>>

\* tui.Run returns, and the proxy is told.
PanelOver ==
    /\ ui = "quitting" \/ (ui = "up" /\ cancelled)
    /\ ui' = "gone" /\ cancelled' = TRUE
    /\ UNCHANGED <<proxy, exit, promptVars, actVars, pollVars>>

\* Mutant of supervise: the panel's own end decides.
supervisePanelFirst ==
    /\ ui = "gone" /\ exit = "none"
    /\ exit' = IF proxy = "failed" THEN "clean" ELSE "warned"
    /\ UNCHANGED <<ui, proxy, cancelled, promptVars, actVars, pollVars>>

\* The process ends on what the proxy says, or when the grace is over.
supervise ==
    /\ ui = "gone" /\ exit = "none"
    /\ exit' \in (IF proxy = "up" THEN {} ELSE {IF proxy = "failed" THEN "failed" ELSE "clean"})
                 \cup {"warned"}
    /\ UNCHANGED <<ui, proxy, cancelled, promptVars, actVars, pollVars>>

----------------------------------------------------------------------------
\* Nothing is under way; every tick is to come, and some sources have been read.
At(e, lines, read) ==
    /\ entry = e /\ steered = FALSE
    /\ running = None /\ quitArmed = FALSE /\ workers = << >> /\ aborted = None
    /\ result \in [lines : {lines}, top : {0}, height : Heights]
    /\ timers = [s \in Sources |-> 1] /\ fetches = {}
    /\ view = [s \in Sources \cup {"inFlight"} |->
                   IF s = "inFlight" THEN FALSE ELSE IF s \in read THEN 0 ELSE -1]
    /\ world = [s \in Sources |-> 0]
    /\ ui = "up" /\ proxy = "up" /\ cancelled = FALSE /\ exit = "none"

PanelInit == At(Idle, -1, {})

Keys ==
    \/ KeySlash \/ KeyBackspace \/ KeyTab \/ submit \/ KeyYes \/ KeyNo \/ KeyEsc
    \/ KeyQ \/ KeyR \/ CtrlC \/ Scroll
    \/ \E w \in Words : KeyWord(w)
    \/ \E d \in {-1, 1} : KeyUpDown(d)
    \/ \E h \in Heights : WindowSize(h)

Polls ==
    \/ \E s \in Sources : Tick(s) \/ Change(s)
    \/ \E f \in fetches : Observe(f) \/ Reading(f)

Host == ProxyReturns \/ ProxyOver \/ Signal \/ PanelOver \/ supervise

PanelNext ==
    \/ Keys \/ Polls \/ Host
    \/ \E i \in DOMAIN workers : Works(i)
    \/ ActionDone \/ TimedOut

\* Deadlines pass, and tui.Run returns when it is told to; the work of an
\* action need not end, nor the operator press a key.
PanelFairness ==
    /\ WF_panelVars(ActionDone \/ TimedOut)
    /\ WF_panelVars(ProxyOver) /\ WF_panelVars(PanelOver) /\ WF_panelVars(supervise)

PanelSpec == PanelInit /\ [][PanelNext]_panelVars /\ PanelFairness

----------------------------------------------------------------------------
\* Polling neither stops nor doubles, whatever is refreshed by hand or by an
\* action in between: of each source there is one tick to come or one reading
\* that will arm it; and there is one probe of the tunnel at most, so that its
\* readings are shown in the order in which they were made.
ChainsKept ==
    /\ \A s \in Sources :
          timers[s] + Cardinality({f \in fetches : f.source = s /\ f.renew}) = 1
    /\ Cardinality({f \in fetches : f.source = "tunnel"}) = IF view.inFlight THEN 1 ELSE 0
    /\ \A f \in fetches : f.source = "tunnel" /\ f.seen >= 0 => f.seen >= view.tunnel

\* Nothing runs that the operator did not choose: an action begins only while
\* none is in flight; one that cannot be undone only by a yes to the question
\* about that command with those words; any other is the first of the list for
\* the text, or one the operator moved to after the last change of the text.
AskedFor ==
    [][Len(workers') > Len(workers) =>
          LET c == Last(workers').cmd
          IN /\ running = None
             /\ c \in Danger => entry.mode = "confirming" /\ c = entry.cmd
                                /\ entry.args = match(entry.text).args
             /\ c \notin Danger => entry.mode = "entry" /\ c = selected
             /\ c = match(entry.text).hits[1] \/ steered]_panelVars

\* The view is exactly as high as the terminal in every mode; the end of an
\* output can be reached, a page is what was shown, and no line is skipped.
ScreenTrue ==
    ui = "up" /\ result.height >= minHeight =>
        LET body == bodyRows(result.height, Below)
            page == resultViewHeight(result.height, Below, result.lines)
            Shown(top) == resultSection(top, result.lines, body)
        IN IF result.lines >= 0
           THEN /\ View(result.height, Below, result.top, result.lines, 0, 0, 0) = result.height
                /\ body >= 3 =>
                      /\ Shown(maxScroll(result.height, Below, result.lines)).last = result.lines
                      /\ Shown(result.top + page).first <= Shown(result.top).last + 1
           ELSE \A a, p, r \in {0, 1, 5} :
                   /\ View(result.height, Below, 0, -1, a, p, r) = result.height
                   /\ LET s == streamSections(body, a, p, r)
                      IN p > 0 /\ ~s.labelled => body < 2

\* Nothing holds up the operator or the process: an action is over by its
\* deadline, even if its work never is; a proxy that failed takes the panel
\* with it, a panel that is quit the proxy, and the process ends.
Settles ==
    /\ Busy ~> (~Busy \/ ui # "up")
    /\ (proxy = "failed" \/ ui = "quitting" \/ cancelled) ~> exit # "none"

\* What the process ends on is true: a proxy that failed by itself is not
\* reported as a clean end, and no end is reported while the panel is up; an
\* operator who quit in the middle of an action is told which.
ExitTold ==
    /\ exit # "none" => ui = "gone" /\ cancelled
    /\ exit = "clean" => proxy = "stopped"
    /\ exit = "failed" => proxy = "failed"
    /\ ui = "quitting" => aborted = running
=============================================================================
