--------------------------- MODULE OperatorProofs ---------------------------
(***************************************************************************)
(* Proofs about what an operator works with: the pool of credentials       *)
(* (Credentials), the life of a process (Service), the panel (Panel) and   *)
(* the diagnosis (Diagnosis), for any files, callers, processes,           *)
(* configurations, terminals, words, findings and logs.                    *)
(***************************************************************************)
EXTENDS Service, Diagnosis, Panel, SequenceTheorems, FiniteSetTheorems, WellFoundedInduction,
        TLAPS

----------------------------------------------------------------------------
(* The pool.  Which credential is worth keeping does not depend on the     *)
(* time: what has expired is renewed.                                      *)

FileStates == [form : {"absent", "garbled", "mistyped", "good"}, disabled : BOOLEAN, expires : Nat]

\* What is shown in a question was listed, and the file it is about with it.
AskOK(x) ==
    x.step = "shown" => /\ x.creds \in [Files -> FileStates]
                        /\ x.target \in Files

PoolOK ==
    /\ clock \in Nat
    /\ pool \in [Files -> FileStates]
    /\ DOMAIN ask = Callers /\ \A t \in Callers : AskOK(ask[t])

\* The pools a behaviour may begin with.
PoolSpec == (pool \in [Files -> FileStates] /\ PoolInit) /\ [][PoolNext]_poolVars

\* The states a file may be in.
LEMMA StatesOfFiles ==
    /\ Absent \in FileStates /\ Garbled \in FileStates
    /\ \A off \in BOOLEAN, at \in Nat : Good(off, at) \in FileStates
  BY DEF FileStates, Absent, Garbled, Good

\* Recoverable is worth: good, and not disabled.
LEMMA RecoverableIsWorth ==
    ASSUME NEW c \in FileStates, NEW now \in Nat
    PROVE  Recoverable(c, now) <=> c.form = "good" /\ ~c.disabled
  BY DEF FileStates, Recoverable, Status

\* The others that the guard counts are those worth keeping.
LEMMA OthersAreWorth ==
    ASSUME NEW p \in [Files -> FileStates], NEW f \in Files, NEW now \in Nat
    PROVE  Others(p, f, now) = Worth(p) \ {f}
<1>1. \A g \in Files : Recoverable(p[g], now) <=> p[g].form = "good" /\ ~p[g].disabled
  BY RecoverableIsWorth
<1> QED BY <1>1 DEF Others, Worth, List

\* A file of the pool after a step is again what a file may be.
LEMMA PoolStepFacts ==
    ASSUME PoolOK, PoolNext
    PROVE  clock' \in Nat /\ pool' \in [Files -> FileStates]
<1> USE PoolAssumption DEF PoolOK
<1>1. CASE \E t \in Callers :
              \/ \E id \in Files \cup Accounts, force \in BOOLEAN : AuthRemove(t, id, force)
              \/ Decline(t)
  BY <1>1 DEF AuthRemove, Decline
<1>2. CASE \E t \in Callers : RemoveResolved(t)
  <2>1. PICK t \in Callers : RemoveResolved(t)
    BY <1>2
  <2>2. pool' = pool \/ pool' = [pool EXCEPT ![ask[t].target] = Absent]
    BY <2>1 DEF RemoveResolved
  <2> QED BY <2>1, <2>2, StatesOfFiles DEF RemoveResolved, AskOK
<1>3. CASE \E f \in Files : Login(f)
  <2>1. clock + Lifetime \in Nat
    OBVIOUS
  <2>2. Good(FALSE, clock + Lifetime) \in FileStates
    BY <2>1, StatesOfFiles
  <2> QED BY <1>3, <2>2 DEF Login
<1>4. CASE \E f \in Files : Renew(f)
  BY <1>4 DEF Renew, FileStates
<1>5. CASE \E f \in Files : EditFile(f, Garbled)
  BY <1>5, StatesOfFiles DEF EditFile
<1>6. CASE \E f \in Files : EditFile(f, [pool[f] EXCEPT !.disabled = ~@])
  <2>1. PICK f \in Files : EditFile(f, [pool[f] EXCEPT !.disabled = ~@])
    BY <1>6
  <2>2. [pool[f] EXCEPT !.disabled = ~@] \in FileStates
    BY DEF FileStates
  <2> QED BY <2>1, <2>2 DEF EditFile
<1>7. CASE TimePasses
  BY <1>7 DEF TimePasses
<1> HIDE DEF PoolOK
<1> QED BY <1>1, <1>2, <1>3, <1>4, <1>5, <1>6, <1>7 DEF PoolNext

\* Every step of the pool keeps it.
LEMMA PoolKept == ASSUME PoolOK, [PoolNext]_poolVars PROVE PoolOK'
<1>1. CASE UNCHANGED poolVars
  BY <1>1 DEF PoolOK, poolVars
<1>2. CASE PoolNext
  <2>1. clock' \in Nat /\ pool' \in [Files -> FileStates]
    BY <1>2, PoolStepFacts
  <2>2. DOMAIN ask' = Callers /\ \A t \in Callers : AskOK(ask'[t])
    <3>1. CASE UNCHANGED ask
      BY <3>1 DEF PoolOK
    <3>2. ASSUME NEW t \in Callers, NEW x, ask' = [ask EXCEPT ![t] = x], AskOK(x)
          PROVE  DOMAIN ask' = Callers /\ \A u \in Callers : AskOK(ask'[u])
      BY <3>2 DEF PoolOK
    <3>3. CASE \E t \in Callers : \E id \in Files \cup Accounts, force \in BOOLEAN :
                  AuthRemove(t, id, force)
      <4>1. PICK t \in Callers, force \in BOOLEAN, f \in Files :
               ask' = [ask EXCEPT ![t] =
                  [step |-> "shown", creds |-> pool, target |-> f, force |-> force]]
        BY <3>3 DEF AuthRemove
      <4>2. AskOK([step |-> "shown", creds |-> pool, target |-> f, force |-> force])
        BY DEF AskOK, PoolOK
      <4> QED BY <4>1, <4>2, <3>2
    <3>4. CASE \E t \in Callers : Decline(t)
      <4>1. AskOK(NoAsk)
        BY DEF AskOK, NoAsk
      <4> QED BY <3>4, <4>1, <3>2 DEF Decline
    <3>5. CASE \E t \in Callers : RemoveResolved(t)
      <4>1. AskOK([step |-> "failed"]) /\ \A n : AskOK([step |-> "removed", left |-> n])
        BY DEF AskOK
      <4> QED BY <3>5, <4>1, <3>2 DEF RemoveResolved
    <3> QED BY <1>2, <3>1, <3>3, <3>4, <3>5 DEF PoolNext, Login, Renew, EditFile, TimePasses
  <2> QED BY <2>1, <2>2 DEF PoolOK
<1> QED BY <1>1, <1>2

\* Every question stays about a file that was listed, whoever asks it.
THEOREM PoolTyped == PoolSpec => []PoolOK
<1>1. ASSUME pool \in [Files -> FileStates], PoolInit  PROVE PoolOK
  BY <1>1 DEF PoolOK, PoolInit, AskOK, NoAsk
<1>2. ASSUME PoolOK, [PoolNext]_poolVars  PROVE PoolOK'
  BY <1>2, PoolKept
<1> QED BY <1>1, <1>2, PTL DEF PoolSpec

\* Only the removal of a caller turns its question into a removal.
LEMMA WhoRemoves ==
    ASSUME PoolOK, PoolNext, NEW t \in Callers,
           ask[t].step = "shown", ask'[t].step = "removed"
    PROVE  RemoveResolved(t)
<1> USE DEF PoolOK
<1>1. ~UNCHANGED ask
  OBVIOUS
<1>2. ASSUME NEW u \in Callers, NEW id, NEW force, AuthRemove(u, id, force)  PROVE FALSE
  BY <1>2 DEF AuthRemove
<1>3. ASSUME NEW u \in Callers, Decline(u)  PROVE FALSE
  BY <1>3 DEF Decline, NoAsk
<1>4. ASSUME NEW u \in Callers, RemoveResolved(u)  PROVE u = t
  BY <1>4 DEF RemoveResolved
<1> QED BY <1>1, <1>2, <1>3, <1>4 DEF PoolNext, Login, Renew, EditFile, TimePasses

\* A removal that was not forced leaves something to serve with, and tells how
\* much: whatever has expired, been renewed or been edited while the question
\* waited, so long as the listing it was judged by still held.
THEOREM LastIsKept == PoolSpec => LastKept
<1> DEFINE Judged(t) ==
        LET a == ask[t]
        IN a.step = "shown" /\ ask'[t].step = "removed" /\ Worth(a.creds) = Worth(pool) =>
              /\ a.force \/ Worth(pool') # {} \/ Worth(pool) = {}
              /\ ask'[t].left = Cardinality(Worth(pool'))
<1>1. ASSUME PoolOK, PoolNext, NEW t \in Callers  PROVE Judged(t)
  <2> SUFFICES ASSUME ask[t].step = "shown", ask'[t].step = "removed",
                      Worth(ask[t].creds) = Worth(pool)
               PROVE  /\ ask[t].force \/ Worth(pool') # {} \/ Worth(pool) = {}
                      /\ ask'[t].left = Cardinality(Worth(pool'))
    OBVIOUS
  <2> DEFINE a == ask[t]  f == a.target  left == Others(a.creds, f, clock)
  <2>1. RemoveResolved(t)
    BY <1>1, WhoRemoves
  <2>2. /\ f \in Files /\ a.creds \in [Files -> FileStates]
        /\ clock \in Nat /\ pool \in [Files -> FileStates] /\ DOMAIN ask = Callers
    BY <1>1 DEF PoolOK, AskOK
  <2>3. /\ a.force \/ ~Recoverable(a.creds[f], clock) \/ left # {}
        /\ ask'[t] = [step |-> "removed", left |-> Cardinality(left)]
        /\ pool' = [pool EXCEPT ![f] = Absent]
    BY <2>1, <2>2 DEF RemoveResolved
  <2>4. left = Worth(pool) \ {f}
    BY <2>2, OthersAreWorth
  <2>5. Worth(pool') = Worth(pool) \ {f}
    BY <2>2, <2>3 DEF Worth, Absent
  <2>6. ~Recoverable(a.creds[f], clock) => f \notin Worth(pool)
    BY <2>2, RecoverableIsWorth DEF Worth
  <2>7. a.force \/ Worth(pool') # {} \/ Worth(pool) = {}
    BY <2>3, <2>4, <2>5, <2>6
  <2>8. ask'[t].left = Cardinality(left)
    BY <2>3
  <2> QED BY <2>4, <2>5, <2>7, <2>8
<1>2. PoolOK /\ [PoolNext]_poolVars => [\A t \in Callers : Judged(t)]_poolVars
  BY <1>1
<1> QED BY <1>2, PoolTyped, PTL DEF PoolSpec, LastKept

----------------------------------------------------------------------------
(* A process.                                                              *)

Stages == {"off", "logging", "directories", "binding", "probing", "relaying", "materializing",
           "writing", "journalling", "assembling", "built", "serving", "closing", "failed", "stopped"}

SvcTypes ==
    /\ stage \in [Processes -> Stages]
    /\ DOMAIN config = Processes
    /\ open \in [Processes -> SUBSET {"relay", "journal"}]
    /\ before \in [Processes -> SUBSET Processes]

\* What was asked for has been judged; nothing is open before the relay, or
\* after an end; who was started beside another on an address it cannot listen
\* on as well has come no further than the bind.
ProcessOK(i) ==
    /\ stage[i] \notin {"off", "failed"} => config[i] \in Configs /\ Validate(config[i])
    /\ stage[i] \in {"off", "logging", "directories", "binding", "probing", "relaying", "stopped"} =>
          open[i] = {}
    /\ stage[i] = "failed" => "relay" \notin open[i]
    /\ "relay" \in open[i] => config[i].proxy.scheme # "none" /\ config[i].fallback
    /\ stage[i] \in {"off", "logging", "directories", "binding", "probing", "relaying",
                     "materializing"} => file.by # i
    /\ \A j \in before[i] :
          /\ stage[j] = "serving" /\ stage[i] # "off"
          /\ Clash(Addr(config[i]), Addr(config[j])) =>
                /\ file.by # i /\ open[i] = {}
                /\ stage[i] \in {"logging", "directories", "binding", "failed"}

SvcInv == SvcTypes /\ \A i \in Processes : ProcessOK(i)

\* Every step of a process keeps them, those of the others too.
LEMMA InvStep ==
    ASSUME SvcInv, SvcNext PROVE  SvcInv'
<1> USE ServiceAssumption DEF SvcInv, SvcTypes, ProcessOK, Stages, Goes, engineVars
<1>1. ASSUME NEW i \in Processes, NEW c \in Configs, Start(i, c) PROVE  SvcInv'
  BY <1>1 DEF Start
<1>2. ASSUME NEW i \in Processes, setupLogging(i) PROVE  SvcInv'
  BY <1>2 DEF setupLogging
<1>3. ASSUME NEW i \in Processes, MakeDirectories(i) PROVE  SvcInv'
  BY <1>3 DEF MakeDirectories
<1>4. ASSUME NEW i \in Processes, ensureCanBind(i) PROVE  SvcInv'
  BY <1>4 DEF ensureCanBind, CanListen, Listening
<1>5. ASSUME NEW i \in Processes, CloseProbe(i) PROVE  SvcInv'
  BY <1>5 DEF CloseProbe
<1>6. ASSUME NEW i \in Processes, StartRelay(i) PROVE  SvcInv'
  BY <1>6 DEF StartRelay
<1>7. ASSUME NEW i \in Processes, Truncate(i) \/ materialize(i) PROVE  SvcInv'
  BY <1>7 DEF Truncate, materialize, Written
<1>8. ASSUME NEW i \in Processes, MaterializeFails(i) \/ BuildEngine(i) PROVE  SvcInv'
  BY <1>8 DEF MaterializeFails, BuildEngine, closeRelay
<1>9. ASSUME NEW i \in Processes, OpenJournal(i) PROVE  SvcInv'
  BY <1>9 DEF OpenJournal
<1>10. ASSUME NEW i \in Processes, Bind(i) PROVE  SvcInv'
  BY <1>10 DEF Bind
<1>11. ASSUME NEW i \in Processes, Stop(i) \/ guardInboundAuth(i) PROVE  SvcInv'
  BY <1>11 DEF Stop, guardInboundAuth, Leaves
<1>12. ASSUME NEW i \in Processes, Close(i) PROVE  SvcInv'
  BY <1>12 DEF Close
<1>13. ASSUME NEW i \in Processes,
              \/ reloadConfig(i) \/ reloadConfigIfChanged(i)
              \/ keepRefusalHooksInstalled(i) \/ keepLogOutputPinned(i)
       PROVE  SvcInv'
  BY <1>13 DEF reloadConfig, reloadConfigIfChanged, keepRefusalHooksInstalled,
              keepLogOutputPinned
<1>14. CASE EditBegins \/ EditEnds
  BY <1>14 DEF EditBegins, EditEnds, Written
<1> HIDE DEF SvcInv
<1> QED BY <1>1, <1>2, <1>3, <1>4, <1>5, <1>6, <1>7, <1>8, <1>9, <1>10, <1>11, <1>12, <1>13, <1>14
        DEF SvcNext, Builds, Serves

\* Before anything is started.
LEMMA InvInit == SvcInit => SvcInv
  BY ServiceAssumption DEF SvcInit, SvcInv, SvcTypes, ProcessOK, Stages

\* At all times.
LEMMA InvHolds == SvcSpec => []SvcInv
<1>1. SvcInv /\ UNCHANGED svcVars => SvcInv'
  BY DEF SvcInv, SvcTypes, ProcessOK, svcVars
<1> QED BY <1>1, InvInit, InvStep, PTL DEF SvcSpec

\* Whoever is started on an address that another serves on fails before it has
\* touched anything they share.
THEOREM OthersUndisturbed == SvcSpec => []Undisturbed
<1>1. SvcInv => Undisturbed
  BY DEF SvcInv, ProcessOK, Undisturbed
<1> QED BY <1>1, InvHolds, PTL

\* A configuration that was accepted has secret keys, or serves this machine
\* only, and a relay before a proxy of its own.
LEMMA Accepted ==
    ASSUME NEW c \in Configs, Validate(c)
    PROVE  /\ c.keys = {"secret"} \/ (c.keys = {} /\ isLoopbackHost(c.host))
           /\ c.env = {}
           /\ c.fallback => c.proxy.scheme = "http" /\ isLoopbackHost(c.proxy.host)
<1>1. c.keys = {"secret"} \/ (c.keys = {} /\ isLoopbackHost(c.host))
  BY ServiceAssumption DEF Validate, InboundValid
<1>2. c.env = {}
  BY DEF Validate, checkManagementPasswordEnv, checkStorageBackendEnv
<1>3. c.fallback => c.proxy.scheme = "http" /\ isLoopbackHost(c.proxy.host)
  BY DEF Validate, OutboundValid, fallbackProxyIsLoopback
<1> QED BY <1>1, <1>2, <1>3

\* Wherever a start fails its relay is closed, and where a run ends all it had
\* open; and only what was fit to serve does.
THEOREM AllReleased == SvcSpec => []Released
<1>1. ASSUME SvcInv PROVE Released
  <2>1. ASSUME NEW i \in Processes, stage[i] \in {"failed", "stopped"}
        PROVE  "relay" \notin open[i]
    BY <1>1, <2>1 DEF SvcInv, ProcessOK
  <2>2. ASSUME NEW i \in Processes, stage[i] = "stopped"  PROVE open[i] = {}
    BY <1>1, <2>2 DEF SvcInv, ProcessOK
  <2>3. ASSUME NEW i \in Processes, stage[i] = "serving"
        PROVE  LET c == config[i]
               IN /\ c.keys = {"secret"} \/ (c.keys = {} /\ isLoopbackHost(c.host))
                  /\ c.env = {}
                  /\ "relay" \in open[i] => /\ c.proxy.scheme = "http"
                                            /\ isLoopbackHost(c.proxy.host)
    <3>1. /\ config[i] \in Configs /\ Validate(config[i])
          /\ "relay" \in open[i] => config[i].fallback
      BY <1>1, <2>3 DEF SvcInv, ProcessOK
    <3> QED BY <3>1, Accepted
  <2> QED BY <2>1, <2>2, <2>3 DEF Released
<1> QED BY <1>1, InvHolds, PTL

----------------------------------------------------------------------------
(* How the process ends.                                                   *)

\* Nobody has been told of an action before the panel is quit, and then of the
\* one in flight; the proxy is told before the process ends.
ExitInv ==
    /\ ui \in {"up", "quitting", "gone"} /\ proxy \in {"up", "stopped", "failed"}
    /\ ui = "up" => aborted = None
    /\ ExitTold
    /\ ui = "gone" => cancelled

\* Quitting, at once or at the second time of asking.
LEMMA QuitTells ==
    ASSUME ExitInv, ui = "up", requestQuit
    PROVE  \/ ui' = "up" /\ aborted' = None
           \/ ui' = "quitting" /\ aborted' = running
BY DEF requestQuit, ExitInv, Busy

\* What a command begins: to quit, or something the end does not depend on.
LEMMA ExecuteTells ==
    ASSUME ExitInv, ui = "up", NEW c, NEW args, execute(c, args)
    PROVE  \/ ui' = "up" /\ aborted' = None
           \/ ui' = "quitting" /\ aborted' = running'
<1> DEFINE s == Run(c, args)
<1>1. \/ requestQuit /\ running' = running
      \/ UNCHANGED <<ui, aborted>>
      \/ ~(s.quit \/ s.fails \/ s.does \/ (~s.quit /\ ~s.fails /\ ~s.does))
  BY DEF execute
<1>2. CASE requestQuit /\ running' = running
  BY <1>2, QuitTells
<1>3. CASE UNCHANGED <<ui, aborted>>
  BY <1>3 DEF ExitInv
<1> QED BY <1>1, <1>2, <1>3

\* A key.
LEMMA KeysTell == ASSUME ExitInv, Keys PROVE ExitInv'
<1>1. CASE Mode("normal") /\ KeyQ
  <2>1. UNCHANGED <<running, proxy, cancelled, exit>> /\ ui = "up" /\ requestQuit
    BY <1>1 DEF KeyQ, Mode
  <2> QED BY <2>1, QuitTells DEF ExitInv, ExitTold
<1>2. CASE submit \/ KeyYes
  <2>1. /\ ui = "up" /\ UNCHANGED <<proxy, cancelled, exit>>
        /\ UNCHANGED <<ui, aborted>> \/ \E c, args : execute(c, args)
    BY <1>2 DEF submit, KeyYes, Mode
  <2>2. CASE UNCHANGED <<ui, aborted>>
    BY <2>1, <2>2 DEF ExitInv, ExitTold
  <2>3. ASSUME NEW c, NEW args, execute(c, args) PROVE ExitInv'
    BY <2>1, <2>3, ExecuteTells DEF ExitInv, ExitTold
  <2> QED BY <2>1, <2>2, <2>3
<1>3. CASE CtrlC
  BY <1>3 DEF CtrlC, ExitInv, ExitTold, Busy
<1>4. CASE KeySlash \/ KeyBackspace \/ KeyTab \/ KeyNo \/ KeyEsc \/ KeyR \/ Scroll
           \/ (\E w \in Words : KeyWord(w)) \/ (\E d \in {-1, 1} : KeyUpDown(d))
           \/ (\E h \in Heights : WindowSize(h))
  <2>1. UNCHANGED <<running, aborted, ui, proxy, cancelled, exit>>
    BY <1>4 DEF KeySlash, KeyBackspace, KeyTab, KeyNo, KeyEsc, KeyR, Scroll, KeyWord, KeyUpDown,
                WindowSize, actVars, hostVars
  <2> QED BY <2>1 DEF ExitInv, ExitTold
<1> QED BY <1>1, <1>2, <1>3, <1>4 DEF Keys, KeyQ

\* Every step.
LEMMA ExitStep == ExitInv /\ [PanelNext]_panelVars => ExitInv'
<1> SUFFICES ASSUME ExitInv, [PanelNext]_panelVars PROVE ExitInv'
  OBVIOUS
<1>1. CASE Keys
  BY <1>1, KeysTell
<1>2. CASE Polls \/ (\E i \in DOMAIN workers : Works(i)) \/ UNCHANGED panelVars
  <2>1. UNCHANGED <<running, aborted, ui, proxy, cancelled, exit>>
    BY <1>2 DEF Polls, Tick, Change, Observe, Reading, Works, panelVars, actVars, hostVars
  <2> QED BY <2>1 DEF ExitInv, ExitTold
<1>3. CASE ActionDone \/ TimedOut
  <2>1. UNCHANGED <<aborted, ui, proxy, cancelled, exit>> /\ ui = "up"
    BY <1>3 DEF ActionDone, TimedOut, hostVars
  <2> QED BY <2>1 DEF ExitInv, ExitTold
<1>4. CASE ProxyReturns
  BY <1>4 DEF ProxyReturns, ExitInv, ExitTold, actVars
<1>5. CASE ProxyOver \/ Signal
  BY <1>5 DEF ProxyOver, Signal, ExitInv, ExitTold, actVars
<1>6. CASE PanelOver
  BY <1>6 DEF PanelOver, ExitInv, ExitTold, actVars
<1>7. CASE supervise
  BY <1>7 DEF supervise, ExitInv, ExitTold, actVars
<1> QED BY <1>1, <1>2, <1>3, <1>4, <1>5, <1>6, <1>7 DEF PanelNext, Host

\* The end of the process (supervise, tui.Run): it ends after the panel, on what
\* the proxy came to, and an operator who quits is told of the action in flight.
THEOREM ExitIsTold == PanelSpec => []ExitTold
<1>1. PanelInit => ExitInv
  BY DEF PanelInit, At, ExitInv, ExitTold
<1>2. ExitInv => ExitTold
  BY DEF ExitInv
<1> QED BY <1>1, <1>2, ExitStep, PTL DEF PanelSpec


----------------------------------------------------------------------------
(* What the operator asked for.                                            *)

IsSequence(s) == \E S : s \in Seq(S)

\* An entry has the fields of one.
Fields(e) == e = [mode |-> e.mode, text |-> e.text, hits |-> e.hits, args |-> e.args, sel |-> e.sel,
                  cmd |-> e.cmd]

\* The list is that of the text, and the first of it is selected unless the
\* operator moved; a question is asked about the selected command alone, and
\* while nothing is in flight.
AskInv ==
    /\ IsSequence(workers) /\ Fields(entry) /\ entry.mode \in {"normal", "entry", "confirming"}
    /\ entry.mode # "normal" =>
          /\ entry.hits = match(entry.text).hits /\ entry.args = match(entry.text).args
          /\ ~steered => entry.sel = 1
    /\ entry.mode = "confirming" => /\ entry.cmd = selected /\ entry.cmd \in Danger
                                    /\ running = None

\* A function on the numbers up to some number is a sequence.
LEMMA AnySequence ==
    ASSUME NEW f, NEW n \in Nat, f = [i \in 1 .. n |-> f[i]]
    PROVE  IsSequence(f) /\ Len(f) = n
<1> DEFINE S == {f[i] : i \in 1 .. n}
<1>1. f \in [1 .. n -> S]
  OBVIOUS
<1>2. f \in Seq(S)
  BY <1>1, SeqDef
<1>3. Len(f) = n
  BY <1>1, <1>2, LenProperties
<1> QED BY <1>2, <1>3 DEF IsSequence

\* One action more.
LEMMA OneMore ==
    ASSUME NEW s, IsSequence(s), NEW e
    PROVE  IsSequence(Append(s, e)) /\ Last(Append(s, e)) = e
<1>1. PICK S : s \in Seq(S)
  BY DEF IsSequence
<1> DEFINE T == S \cup {e}
<1>2. s \in Seq(T)
  <2>1. Len(s) \in Nat /\ s \in [1 .. Len(s) -> S]
    BY <1>1, LenProperties
  <2>2. s \in [1 .. Len(s) -> T]
    BY <2>1
  <2> QED BY <2>1, <2>2, SeqDef
<1>3. e \in T
  OBVIOUS
<1> HIDE DEF T
<1>4. Append(s, e) \in Seq(T) /\ Len(Append(s, e)) = Len(s) + 1 /\ Append(s, e)[Len(s) + 1] = e
  BY <1>2, <1>3, AppendProperties
<1> QED BY <1>4 DEF IsSequence, Last

\* The work of an action changes none of the others.
LEMMA WorksKeepsLength ==
    ASSUME IsSequence(workers), NEW i \in DOMAIN workers, Works(i)
    PROVE  IsSequence(workers') /\ Len(workers') = Len(workers)
<1>1. PICK S : workers \in Seq(S)
  BY DEF IsSequence
<1>2. Len(workers) \in Nat /\ DOMAIN workers = 1 .. Len(workers)
  BY <1>1, LenProperties
<1>3. DOMAIN workers' = DOMAIN workers /\ workers' = [j \in DOMAIN workers |-> workers'[j]]
  BY DEF Works
<1>4. PICK w : w = workers'
  OBVIOUS
<1>5. w = [j \in 1 .. Len(workers) |-> w[j]]
  BY <1>2, <1>3, <1>4
<1>6. IsSequence(w) /\ Len(w) = Len(workers)
  BY <1>2, <1>5, AnySequence
<1> QED BY <1>4, <1>6

\* Running a command begins its action, if it has one, and changes nothing else.
LEMMA ExecuteBegins ==
    ASSUME IsSequence(workers), NEW c, NEW args, execute(c, args)
    PROVE  \/ UNCHANGED workers
           \/ IsSequence(workers') /\ Last(workers').cmd = c
<1> DEFINE s == Run(c, args)
           w == [cmd |-> c, refresh |-> s.refresh, done |-> FALSE, res |-> "none"]
<1>1. \/ UNCHANGED workers
      \/ workers' = Append(workers, w)
  BY DEF execute
<1>2. w.cmd = c
  OBVIOUS
<1> HIDE DEF w
<1>3. IsSequence(Append(workers, w)) /\ Last(Append(workers, w)) = w
  BY OneMore
<1> QED BY <1>1, <1>2, <1>3


\* What the entry is after a change of the text, and at rest.
LEMMA EntryFacts ==
    /\ Fields(Idle) /\ Idle.mode = "normal"
    /\ \A t : /\ Fields(Prompt(t)) /\ Prompt(t).mode = "entry" /\ Prompt(t).sel = 1
              /\ Prompt(t).text = t /\ Prompt(t).hits = match(t).hits /\ Prompt(t).args = match(t).args
<1>1. Fields(Idle) /\ Idle.mode = "normal"
  BY DEF Fields, Idle
<1>2. ASSUME NEW t
      PROVE  /\ Fields(Prompt(t)) /\ Prompt(t).mode = "entry" /\ Prompt(t).sel = 1
             /\ Prompt(t).text = t /\ Prompt(t).hits = match(t).hits /\ Prompt(t).args = match(t).args
  <2>1. Prompt(t) = [mode |-> "entry", text |-> t, hits |-> match(t).hits, args |-> match(t).args,
                     sel |-> 1, cmd |-> None]
    <3> DEFINE h == match(t).hits
               a == match(t).args
    <3>1. Prompt(t) = [Idle EXCEPT !.mode = "entry", !.text = t, !.hits = h, !.args = a]
      BY DEF Prompt
    <3> HIDE DEF h, a
    <3>2. Prompt(t) = [mode |-> "entry", text |-> t, hits |-> h, args |-> a, sel |-> 1, cmd |-> None]
      BY <3>1 DEF Idle
    <3> QED BY <3>2 DEF h, a
  <2> QED BY <2>1 DEF Fields
<1> QED BY <1>1, <1>2

\* An entry that is at rest, or has a new text.
LEMMA EntryKeeps ==
    ASSUME IsSequence(workers'),
           \/ entry' = Idle
           \/ \E t : entry' = Prompt(t)
    PROVE  AskInv'
<1>1. CASE entry' = Idle
  BY <1>1, EntryFacts DEF AskInv
<1>2. ASSUME NEW t, entry' = Prompt(t) PROVE AskInv'
  <2>1. /\ Fields(entry') /\ entry'.mode = "entry" /\ entry'.sel = 1
        /\ entry'.text = t /\ entry'.hits = match(t).hits /\ entry'.args = match(t).args
    BY <1>2, EntryFacts
  <2> QED BY <2>1 DEF AskInv
<1> QED BY <1>1, <1>2

\* A step that leaves the entry alone, and begins no action.
LEMMA RestKeeps ==
    ASSUME AskInv, UNCHANGED promptVars, IsSequence(workers'), running' = running \/ running' = None
    PROVE  AskInv'
BY DEF AskInv, promptVars, selected

\* A command is executed, from the prompt or after a yes.
LEMMA RunsAsked ==
    ASSUME AskInv, submit \/ KeyYes
    PROVE  /\ AskInv'
           /\ \/ UNCHANGED workers
              \/ LET c == Last(workers').cmd
                 IN /\ running = None
                    /\ c \in Danger => entry.mode = "confirming" /\ c = entry.cmd
                                       /\ entry.args = match(entry.text).args
                    /\ c \notin Danger => entry.mode = "entry" /\ c = selected
                    /\ c = match(entry.text).hits[1] \/ steered
<1>0. IsSequence(workers) /\ None \notin Danger
  BY DEF AskInv, None, Danger
<1>1. CASE submit /\ (selected = None \/ Busy)
  <2>1. UNCHANGED <<entry, steered, running, workers>>
    BY <1>1 DEF submit
  <2> QED BY <1>0, <2>1, RestKeeps DEF promptVars
<1>2. CASE submit /\ ~(selected = None \/ Busy) /\ selected \in Danger
  <2>1. /\ entry' = [entry EXCEPT !.mode = "confirming", !.cmd = selected]
        /\ UNCHANGED <<steered, running, workers>> /\ running = None
    BY <1>2 DEF submit, Busy
  <2>2. entry.mode = "entry" /\ Fields(entry)
    BY <1>2 DEF submit, Mode, AskInv
  <2>3. /\ Fields(entry)' /\ entry'.mode = "confirming" /\ entry'.cmd = selected
        /\ UNCHANGED <<entry.text, entry.hits, entry.args, entry.sel>>
    BY <2>1, <2>2 DEF Fields
  <2>4. selected' = selected
    BY <2>3 DEF selected
  <2>5. AskInv'
    BY <1>0, <1>2, <2>1, <2>2, <2>3, <2>4 DEF AskInv
  <2> QED BY <2>1, <2>5
<1>3. CASE submit /\ ~(selected = None \/ Busy) /\ selected \notin Danger
  <2>1. entry' = Idle /\ execute(selected, entry.args) /\ running = None /\ entry.mode = "entry"
    BY <1>3 DEF submit, Busy, Mode
  <2>2. \/ UNCHANGED workers
        \/ IsSequence(workers') /\ Last(workers').cmd = selected
    BY <1>0, <2>1, ExecuteBegins
  <2>3. AskInv'
    BY <1>0, <2>1, <2>2, EntryKeeps
  <2>4. selected = match(entry.text).hits[1] \/ steered
    BY <1>3, <2>1 DEF AskInv, selected
  <2> QED BY <1>3, <2>1, <2>2, <2>3, <2>4
<1>4. CASE KeyYes
  <2>1. entry' = Idle /\ execute(entry.cmd, entry.args) /\ entry.mode = "confirming"
    BY <1>4 DEF KeyYes, Mode
  <2>2. \/ UNCHANGED workers
        \/ IsSequence(workers') /\ Last(workers').cmd = entry.cmd
    BY <1>0, <2>1, ExecuteBegins
  <2>3. AskInv'
    BY <1>0, <2>1, <2>2, EntryKeeps
  <2>4. /\ running = None /\ entry.cmd = selected /\ entry.cmd \in Danger
        /\ entry.args = match(entry.text).args /\ entry.hits = match(entry.text).hits
        /\ ~steered => entry.sel = 1
    BY <2>1 DEF AskInv
  <2>5. entry.cmd = match(entry.text).hits[1] \/ steered
    BY <1>0, <2>4 DEF selected
  <2> QED BY <2>1, <2>2, <2>3, <2>4, <2>5
<1> QED BY <1>1, <1>2, <1>3, <1>4

\* Every other step.
LEMMA OthersAsk ==
    ASSUME AskInv, [PanelNext]_panelVars, ~submit, ~KeyYes
    PROVE  AskInv' /\ Len(workers') = Len(workers)
<1>0. IsSequence(workers)
  BY DEF AskInv
<1>1. CASE KeySlash \/ KeyBackspace \/ KeyTab \/ KeyNo \/ \E w \in Words : KeyWord(w)
  <2>1. UNCHANGED workers /\ (entry' = Idle \/ \E t : entry' = Prompt(t))
    BY <1>1 DEF KeySlash, KeyBackspace, KeyTab, KeyNo, KeyWord, refreshHits, actVars
  <2> QED BY <1>0, <2>1, EntryKeeps
<1>2. ASSUME NEW d \in {-1, 1}, KeyUpDown(d)
      PROVE  AskInv' /\ Len(workers') = Len(workers)
  <2>1. /\ entry' = [entry EXCEPT !.sel = entry.sel + d] /\ steered' = TRUE /\ entry.mode = "entry"
        /\ UNCHANGED workers
    BY <1>2 DEF KeyUpDown, Mode, actVars
  <2>2. Fields(entry)
    BY DEF AskInv
  <2>3. Fields(entry)' /\ UNCHANGED <<entry.mode, entry.text, entry.hits, entry.args>>
    BY <2>1, <2>2 DEF Fields
  <2> QED BY <1>0, <2>1, <2>3 DEF AskInv
<1>3. CASE KeyEsc
  <2>1. UNCHANGED <<workers, running, steered>> /\ (entry' = Idle \/ UNCHANGED entry)
    BY <1>3 DEF KeyEsc
  <2> QED BY <1>0, <2>1, EntryKeeps, RestKeeps DEF promptVars
<1>4. CASE KeyQ \/ KeyR \/ CtrlC \/ Scroll \/ (\E h \in Heights : WindowSize(h)) \/ Polls \/ Host
           \/ ActionDone \/ TimedOut \/ UNCHANGED panelVars
  <2>1. UNCHANGED <<workers, promptVars>> /\ (running' = running \/ running' = None)
    BY <1>4 DEF KeyQ, KeyR, CtrlC, Scroll, WindowSize, Polls, Tick, Change, Observe, Reading, Host,
                ProxyReturns, ProxyOver, Signal, PanelOver, supervise, ActionDone, TimedOut,
                panelVars, promptVars, actVars
  <2> QED BY <1>0, <2>1, RestKeeps
<1>5. ASSUME NEW i \in DOMAIN workers, Works(i)
      PROVE  AskInv' /\ Len(workers') = Len(workers)
  <2>1. UNCHANGED promptVars /\ running' = running
    BY <1>5 DEF Works
  <2> QED BY <1>0, <1>5, <2>1, WorksKeepsLength, RestKeeps
<1> QED BY <1>1, <1>2, <1>3, <1>4, <1>5 DEF PanelNext, Keys

\* At rest, nothing has been asked for.
LEMMA AskStart == ASSUME entry = Idle, workers = << >> PROVE AskInv
<1>1. IsSequence(<< >>)
  BY EmptySeq DEF IsSequence
<1> QED BY <1>1, EntryFacts DEF AskInv

\* What runs was asked for (submit, confirm, execute): one action at a time, one
\* that cannot be undone after a yes to the question about it, and any other the
\* one selected in the list of the text.
THEOREM OnlyAskedRuns == PanelSpec => AskedFor
<1>1. PanelInit => AskInv
  BY AskStart DEF PanelInit, At
<1>2. AskInv /\ [PanelNext]_panelVars => AskInv'
  BY RunsAsked, OthersAsk
<1>3. AskInv /\ [PanelNext]_panelVars =>
         [Len(workers') > Len(workers) =>
             LET c == Last(workers').cmd
             IN /\ running = None
                /\ c \in Danger => entry.mode = "confirming" /\ c = entry.cmd
                                   /\ entry.args = match(entry.text).args
                /\ c \notin Danger => entry.mode = "entry" /\ c = selected
                /\ c = match(entry.text).hits[1] \/ steered]_panelVars
  <2> SUFFICES ASSUME AskInv, [PanelNext]_panelVars, Len(workers') > Len(workers)
               PROVE  LET c == Last(workers').cmd
                      IN /\ running = None
                         /\ c \in Danger => entry.mode = "confirming" /\ c = entry.cmd
                                            /\ entry.args = match(entry.text).args
                         /\ c \notin Danger => entry.mode = "entry" /\ c = selected
                         /\ c = match(entry.text).hits[1] \/ steered
    OBVIOUS
  <2>1. Len(workers) \in Nat
    BY LenProperties DEF AskInv, IsSequence
  <2>2. CASE submit \/ KeyYes
    <3>1. workers' # workers
      BY <2>1
    <3> QED BY <2>2, <3>1, RunsAsked
  <2>3. CASE ~submit /\ ~KeyYes
    BY <2>1, <2>3, OthersAsk
  <2> QED BY <2>2, <2>3
<1> QED BY <1>1, <1>2, <1>3, PTL DEF PanelSpec, AskedFor


----------------------------------------------------------------------------
(* The list of commands that match.                                        *)

\* A set of numbers has a first.
LEMMA Least1 ==
    ASSUME NEW T, T \subseteq Nat, T # {}
    PROVE  \E x \in T : \A y \in T : x <= y
<1> DEFINE R == OpToRel(<, Nat)
<1>1. IsWellFoundedOn(R, Nat)
  BY NatLessThanWellFounded
<1>2. \A x, y \in Nat : x < y => <<x, y>> \in R
  BY DEF OpToRel
<1> HIDE DEF R
<1>3. PICK x \in T : \A y \in T : ~ (<<y, x>> \in R)
  BY <1>1, WFMin
<1>4. \A y \in T : ~ (y < x)
  BY <1>2, <1>3
<1>5. \A y \in T : x <= y
  BY <1>4
<1> QED BY <1>5

\* A set of numbers up to n can be counted.
LEMMA NumbersFinite ==
    ASSUME NEW n \in Nat, NEW I, I \subseteq 1 .. n
    PROVE  IsFiniteSet(I) /\ Cardinality(I) \in Nat
<1>1. IsFiniteSet(1 .. n)
  BY FS_Interval
<1>2. IsFiniteSet(I)
  BY <1>1, FS_Subset
<1> QED BY <1>2, FS_CardinalityType

\* Of a set of numbers up to n there is a k-th, up to its cardinality.
LEMMA KthPlace ==
    ASSUME NEW n \in Nat, NEW I, I \subseteq 1 .. n, NEW k \in 1 .. Cardinality(I)
    PROVE  \E i \in I : Cardinality({j \in I : j <= i}) = k
<1> DEFINE Upto(m) == {j \in I : j <= m}
<1>1. IsFiniteSet(I) /\ Cardinality(I) \in Nat
  BY NumbersFinite
<1>0. \A i \in I : i \in Nat /\ 1 <= i /\ i <= n
  OBVIOUS
<1>2. \A m : IsFiniteSet(Upto(m)) /\ Cardinality(Upto(m)) \in Nat
  BY <1>1, FS_Subset, FS_CardinalityType
<1>3. Upto(n) = I /\ Upto(0) = {}
  <2>1. \A i \in I : i <= n /\ ~(i <= 0)
    BY <1>0
  <2> QED BY Zenon, <2>1
<1>4. k \in Nat /\ k >= 1 /\ k <= Cardinality(I)
  BY <1>1
<1> DEFINE T == {m \in Nat : Cardinality(Upto(m)) >= k}
<1>5. n \in T
  BY <1>3, <1>4
<1>6. PICK m \in T : \A x \in T : m <= x
  <2>1. T \subseteq Nat /\ T # {}
    BY <1>5
  <2> HIDE DEF T
  <2> QED BY <2>1, Least1
<1>7. m \in Nat /\ Cardinality(Upto(m)) >= k
  OBVIOUS
<1>8. m # 0
  BY <1>3, <1>4, <1>7, FS_EmptySet
<1>9. m - 1 \in Nat /\ m - 1 \notin T
  <2>1. m - 1 \in Nat /\ ~(m <= m - 1)
    BY <1>7, <1>8
  <2> HIDE DEF T
  <2> QED BY <1>6, <2>1
<1>10. Cardinality(Upto(m - 1)) < k
  <2>1. ~(Cardinality(Upto(m - 1)) >= k)
    BY <1>9
  <2> HIDE DEF Upto
  <2> QED BY <1>2, <1>4, <2>1
<1>11. Upto(m) = IF m \in I THEN Upto(m - 1) \cup {m} ELSE Upto(m - 1)
  <2>1. m \in Nat /\ m # 0
    BY <1>7, <1>8
  <2>2. \A i \in I : i <= m <=> (i <= m - 1 \/ i = m)
    BY <1>0, <2>1
  <2> QED BY <2>1, <2>2
<1>12. m \in I
  <2>1. Upto(m) # Upto(m - 1)
    BY <1>2, <1>4, <1>7, <1>10
  <2> QED BY <1>11, <2>1
<1>13. Cardinality(Upto(m)) <= Cardinality(Upto(m - 1)) + 1
  <2>1. Upto(m) = Upto(m - 1) \cup {m}
    BY <1>11, <1>12
  <2> HIDE DEF Upto
  <2>2. Cardinality(Upto(m - 1) \cup {m}) =
          IF m \in Upto(m - 1) THEN Cardinality(Upto(m - 1)) ELSE Cardinality(Upto(m - 1)) + 1
    BY <1>2, FS_AddElement
  <2> QED BY <1>2, <2>1, <2>2
<1>14. Cardinality(Upto(m)) = k
  <2> HIDE DEF Upto
  <2> QED BY <1>2, <1>4, <1>7, <1>10, <1>13
<1> QED BY <1>12, <1>14

Commands == {commandSet[i] : i \in DOMAIN commandSet}

\* What is picked from the set are commands, and can be counted.
LEMMA InPlacesFacts ==
    ASSUME NEW I, I \subseteq DOMAIN commandSet
    PROVE  InPlaces(I) \in Seq(Commands)
<1>1. DOMAIN commandSet = 1 .. 10
  BY DEF commandSet
<1>2. Cardinality(I) \in Nat
  BY <1>1, NumbersFinite
<1>3. ASSUME NEW k \in 1 .. Cardinality(I)
      PROVE  commandSet[CHOOSE i \in I : Cardinality({j \in I : j <= i}) = k] \in Commands
  <2>1. \E i \in I : Cardinality({j \in I : j <= i}) = k
    BY <1>1, KthPlace
  <2>2. (CHOOSE i \in I : Cardinality({j \in I : j <= i}) = k) \in I
    BY <2>1
  <2> HIDE DEF Commands
  <2> QED BY <2>2 DEF Commands
<1>4. InPlaces(I) \in [1 .. Cardinality(I) -> Commands]
  BY <1>3 DEF InPlaces
<1> QED BY <1>2, <1>4, SeqDef

\* The commands that match a text are commands, in a list.
LEMMA MatchFacts ==
    ASSUME NEW text
    PROVE  match(text).hits \in Seq(Commands)
<1> DEFINE N == {i \in DOMAIN commandSet : IsStrictPrefix(commandSet[i], text)}
           B == {i \in DOMAIN commandSet : IsPrefix(text, commandSet[i])}
           H == {i \in DOMAIN commandSet : Has(commandSet[i], text)}
<1>1. N \subseteq DOMAIN commandSet /\ B \subseteq DOMAIN commandSet /\ H \subseteq DOMAIN commandSet
  OBVIOUS
<1>2. \/ InPlaces(N) # << >> /\ match(text).hits = <<InPlaces(N)[1]>>
      \/ match(text).hits = InPlaces(B)
      \/ match(text).hits = InPlaces(H)
  BY DEF match
<1> HIDE DEF N, B, H, Commands
<1>3. /\ InPlaces(N) \in Seq(Commands) /\ InPlaces(B) \in Seq(Commands)
      /\ InPlaces(H) \in Seq(Commands)
  BY <1>1, InPlacesFacts
<1>4. InPlaces(N) # << >> => <<InPlaces(N)[1]>> \in Seq(Commands)
  <2> SUFFICES ASSUME InPlaces(N) # << >> PROVE <<InPlaces(N)[1]>> \in Seq(Commands)
    OBVIOUS
  <2>1. InPlaces(N)[1] \in Commands
    BY <1>3, EmptySeq, LenProperties
  <2> QED BY <2>1
<1> QED BY <1>2, <1>3, <1>4


----------------------------------------------------------------------------
(* Polling.                                                                *)

Fetch == [slot : Nat, source : Sources, renew : BOOLEAN, seen : Int]

\* The readings of a set that are of a source and will arm its tick; the probes.
Renewing(fs, s) == {f \in fs : f.source = s /\ f.renew}
Probes(fs) == {f \in fs : f.source = "tunnel"}

PollTypes ==
    /\ timers \in [Sources -> Nat] /\ world \in [Sources -> Nat]
    /\ DOMAIN view = Sources \cup {"inFlight"} /\ view = [x \in DOMAIN view |-> view[x]]
    /\ view.inFlight \in BOOLEAN
    /\ view.tunnel \in Int /\ view.tunnel <= world["tunnel"]
    /\ fetches \subseteq Fetch /\ IsFiniteSet(fetches)
    /\ \A f \in fetches : f.seen <= world[f.source]
    /\ \A f, g \in fetches : f.source = g.source /\ f.slot = g.slot => f = g

\* An action reads again what there is to read.
RefreshOK ==
    /\ \A i \in DOMAIN workers : workers[i].refresh \subseteq Sources
    /\ Busy => Len(workers) \in DOMAIN workers

PollInv == PollTypes /\ ChainsKept

\* There is always a slot for another reading.
LEMMA FreeSlot ==
    ASSUME PollTypes, NEW s \in Sources, NEW renew \in BOOLEAN
    PROVE  /\ Begun(s, renew) \in Fetch /\ Begun(s, renew).source = s
           /\ Begun(s, renew).renew = renew /\ Begun(s, renew).seen = -1
           /\ \A f \in fetches : f.source = s => f.slot # Begun(s, renew).slot
<1> DEFINE F == {g \in fetches : g.source = s}
           used == {f.slot : f \in F}
           k == Cardinality(used)
           slot == CHOOSE n \in 1 .. k + 1 : n \notin used
<1>1. IsFiniteSet(F)
  BY FS_Subset DEF PollTypes
<1>2. IsFiniteSet(used)
  <2> DEFINE h == [f \in F |-> f.slot]
  <2>1. h \in [F -> used] /\ \A n \in used : \E f \in F : h[f] = n
    OBVIOUS
  <2>2. h \in Surjection(F, used)
    BY <2>1 DEF Surjection
  <2> HIDE DEF h, used, F
  <2> QED BY <1>1, <2>2, FS_Surjection
<1>3. k \in Nat
  BY <1>2, FS_CardinalityType
<1> HIDE DEF used
<1>4. \E n \in 1 .. k + 1 : n \notin used
  <2> SUFFICES ASSUME 1 .. k + 1 \subseteq used PROVE FALSE
    OBVIOUS
  <2>1. Cardinality(1 .. k + 1) <= k
    BY <1>2, FS_Subset
  <2>2. Cardinality(1 .. k + 1) = k + 1
    <3>1. k + 1 \in Int /\ 1 \in Int /\ ~(1 > k + 1)
      BY <1>3
    <3>2. Cardinality(1 .. k + 1) = (k + 1) - 1 + 1
      BY <3>1, FS_Interval
    <3> QED BY <1>3, <3>2
  <2> QED BY <1>3, <2>1, <2>2
<1>5. slot \in 1 .. k + 1 /\ slot \notin used
  BY <1>4
<1>6. slot \in Nat
  BY <1>3, <1>5
<1>7. Begun(s, renew) = [slot |-> slot, source |-> s, renew |-> renew, seen |-> -1]
  BY DEF Begun, used
<1> HIDE DEF slot
<1>8. \A f \in fetches : f.source = s => f.slot # slot
  BY <1>5 DEF used
<1> QED BY <1>6, <1>7, <1>8 DEF Fetch

\* The counts of a set of readings.
LEMMA CountsType ==
    ASSUME NEW fs, IsFiniteSet(fs)
    PROVE  /\ \A s : IsFiniteSet(Renewing(fs, s)) /\ Cardinality(Renewing(fs, s)) \in Nat
           /\ IsFiniteSet(Probes(fs)) /\ Cardinality(Probes(fs)) \in Nat
<1>1. \A s : IsFiniteSet(Renewing(fs, s))
  BY FS_Subset DEF Renewing
<1>2. IsFiniteSet(Probes(fs))
  BY FS_Subset DEF Probes
<1> QED BY <1>1, <1>2, FS_CardinalityType

\* One reading more.
LEMMA OneIsBegun ==
    ASSUME NEW fs, IsFiniteSet(fs), NEW f, f \notin fs, f.renew \in BOOLEAN
    PROVE  /\ IsFiniteSet(fs \cup {f})
           /\ \A s : Cardinality(Renewing(fs \cup {f}, s)) =
                       Cardinality(Renewing(fs, s)) + (IF f.source = s /\ f.renew THEN 1 ELSE 0)
           /\ Cardinality(Probes(fs \cup {f})) =
                Cardinality(Probes(fs)) + (IF f.source = "tunnel" THEN 1 ELSE 0)
<1>1. IsFiniteSet(fs \cup {f})
  BY FS_AddElement
<1>2. ASSUME NEW s
      PROVE  Cardinality(Renewing(fs \cup {f}, s)) =
               Cardinality(Renewing(fs, s)) + (IF f.source = s /\ f.renew THEN 1 ELSE 0)
  <2>1. IsFiniteSet(Renewing(fs, s)) /\ Cardinality(Renewing(fs, s)) \in Nat /\ f \notin Renewing(fs, s)
    BY CountsType DEF Renewing
  <2>2. CASE f.source = s /\ f.renew
    <3>1. Renewing(fs \cup {f}, s) = Renewing(fs, s) \cup {f}
      BY <2>2 DEF Renewing
    <3>2. Cardinality(Renewing(fs, s) \cup {f}) = Cardinality(Renewing(fs, s)) + 1
      BY <2>1, FS_AddElement
    <3> QED BY <2>2, <3>1, <3>2
  <2>3. CASE ~(f.source = s /\ f.renew)
    <3>1. Renewing(fs \cup {f}, s) = Renewing(fs, s)
      BY <2>3 DEF Renewing
    <3> QED BY <2>1, <2>3, <3>1
  <2> QED BY <2>2, <2>3
<1>3. Cardinality(Probes(fs \cup {f})) =
        Cardinality(Probes(fs)) + (IF f.source = "tunnel" THEN 1 ELSE 0)
  <2>1. IsFiniteSet(Probes(fs)) /\ Cardinality(Probes(fs)) \in Nat /\ f \notin Probes(fs)
    BY CountsType DEF Probes
  <2>2. CASE f.source = "tunnel"
    <3>1. Probes(fs \cup {f}) = Probes(fs) \cup {f}
      BY <2>2 DEF Probes
    <3>2. Cardinality(Probes(fs) \cup {f}) = Cardinality(Probes(fs)) + 1
      BY <2>1, FS_AddElement
    <3> QED BY <2>2, <3>1, <3>2
  <2>3. CASE f.source # "tunnel"
    <3>1. Probes(fs \cup {f}) = Probes(fs)
      BY <2>3 DEF Probes
    <3> QED BY <2>1, <2>3, <3>1
  <2> QED BY <2>2, <2>3
<1> QED BY <1>1, <1>2, <1>3

\* One reading less.
LEMMA OneIsOver ==
    ASSUME NEW fs, IsFiniteSet(fs), NEW f \in fs, f.renew \in BOOLEAN
    PROVE  /\ IsFiniteSet(fs \ {f})
           /\ \A s : Cardinality(Renewing(fs, s)) =
                       Cardinality(Renewing(fs \ {f}, s)) + (IF f.source = s /\ f.renew THEN 1 ELSE 0)
           /\ Cardinality(Probes(fs)) =
                Cardinality(Probes(fs \ {f})) + (IF f.source = "tunnel" THEN 1 ELSE 0)
<1>1. IsFiniteSet(fs \ {f})
  BY FS_RemoveElement
<1>2. fs = (fs \ {f}) \cup {f} /\ f \notin fs \ {f}
  OBVIOUS
<1> DEFINE gs == fs \ {f}
<1> HIDE DEF gs
<1>3. /\ \A s : Cardinality(Renewing(gs \cup {f}, s)) =
                  Cardinality(Renewing(gs, s)) + (IF f.source = s /\ f.renew THEN 1 ELSE 0)
      /\ Cardinality(Probes(gs \cup {f})) =
           Cardinality(Probes(gs)) + (IF f.source = "tunnel" THEN 1 ELSE 0)
  BY <1>1, <1>2, OneIsBegun DEF gs
<1>4. fs = gs \cup {f}
  BY <1>2 DEF gs
<1> QED BY <1>1, <1>3, <1>4 DEF gs


\* The invariant, in terms of these sets.
LEMMA ChainsAre ==
    ChainsKept <=>
      /\ \A s \in Sources : timers[s] + Cardinality(Renewing(fetches, s)) = 1
      /\ Cardinality(Probes(fetches)) = IF view.inFlight THEN 1 ELSE 0
      /\ \A f \in fetches : f.source = "tunnel" /\ f.seen >= 0 => f.seen >= view.tunnel
BY DEF ChainsKept, Renewing, Probes

\* A tick: the reading it begins will arm the next.
LEMMA TickPolls ==
    ASSUME PollInv, NEW s \in Sources, Tick(s)
    PROVE  PollInv'
<1>1. CASE UNCHANGED <<timers, fetches, view>>
  <2>1. UNCHANGED world
    BY DEF Tick
  <2> QED BY <1>1, <2>1 DEF PollInv, PollTypes, ChainsKept
<1>2. CASE ~UNCHANGED <<timers, fetches, view>>
  <2>1. PICK b : b = Begun(s, TRUE)
    OBVIOUS
  <2>2. /\ timers[s] > 0 /\ timers' = [timers EXCEPT ![s] = timers[s] - 1] /\ fetches' = fetches \cup {b}
        /\ view' = IF s = "tunnel" THEN [view EXCEPT !.inFlight = TRUE] ELSE view
        /\ s = "tunnel" => ~view.inFlight
        /\ UNCHANGED world
    BY <1>2, <2>1 DEF Tick
  <2>3. PollTypes /\ ChainsKept
    BY DEF PollInv
  <2>4. /\ b \in Fetch /\ b.source = s /\ b.renew = TRUE /\ b.seen = -1
        /\ \A f \in fetches : f.source = s => f.slot # b.slot
    BY <2>1, <2>3, FreeSlot
  <2>5. b \notin fetches
    BY <2>4
  <2>6. /\ IsFiniteSet(fetches')
        /\ \A x : Cardinality(Renewing(fetches', x)) =
                    Cardinality(Renewing(fetches, x)) + (IF s = x THEN 1 ELSE 0)
        /\ Cardinality(Probes(fetches')) =
             Cardinality(Probes(fetches)) + (IF s = "tunnel" THEN 1 ELSE 0)
    BY <2>2, <2>3, <2>4, <2>5, OneIsBegun DEF PollTypes
  <2>7. timers \in [Sources -> Nat] /\ timers' \in [Sources -> Nat] /\ timers'[s] = timers[s] - 1
        /\ \A x \in Sources \ {s} : timers'[x] = timers[x]
    BY <2>2, <2>3 DEF PollTypes
  <2>8. /\ DOMAIN view' = Sources \cup {"inFlight"} /\ view' = [x \in DOMAIN view' |-> view'[x]]
        /\ view'.inFlight \in BOOLEAN /\ view'.tunnel = view.tunnel
        /\ s = "tunnel" => view'.inFlight = TRUE
        /\ s # "tunnel" => view'.inFlight = view.inFlight
    BY <2>2, <2>3 DEF PollTypes, Sources
  <2>9. PollTypes'
    <3>1. fetches' \subseteq Fetch
      BY <2>2, <2>3, <2>4 DEF PollTypes
    <3>2. \A f \in fetches' : f.seen <= world'[f.source]
      <4>1. world[s] \in Nat
        BY <2>3 DEF PollTypes
      <4> QED BY <2>2, <2>3, <2>4, <4>1 DEF PollTypes
    <3>3. \A f, g \in fetches' : f.source = g.source /\ f.slot = g.slot => f = g
      BY <2>2, <2>3, <2>4 DEF PollTypes
    <3> QED BY <2>2, <2>3, <2>6, <2>7, <2>8, <3>1, <3>2, <3>3 DEF PollTypes
  <2>10. ChainsKept'
    <3>1. /\ \A x \in Sources : timers[x] + Cardinality(Renewing(fetches, x)) = 1
          /\ Cardinality(Probes(fetches)) = IF view.inFlight THEN 1 ELSE 0
          /\ \A f \in fetches : f.source = "tunnel" /\ f.seen >= 0 => f.seen >= view.tunnel
      BY <2>3, ChainsAre
    <3>2. \A x : Cardinality(Renewing(fetches, x)) \in Nat
      BY <2>3, CountsType DEF PollTypes
    <3>3. \A x \in Sources : timers'[x] + Cardinality(Renewing(fetches', x)) = 1
      <4> SUFFICES ASSUME NEW x \in Sources PROVE timers'[x] + Cardinality(Renewing(fetches', x)) = 1
        OBVIOUS
      <4>1. timers[x] \in Nat /\ Cardinality(Renewing(fetches, x)) \in Nat
        BY <2>7, <3>2
      <4> QED BY <2>6, <2>7, <3>1, <4>1
    <3>4. Cardinality(Probes(fetches')) = IF view'.inFlight THEN 1 ELSE 0
      BY <2>2, <2>6, <2>8, <3>1
    <3>5. \A f \in fetches' : f.source = "tunnel" /\ f.seen >= 0 => f.seen >= view'.tunnel
      BY <2>2, <2>4, <2>8, <3>1
    <3> QED BY <3>3, <3>4, <3>5 DEF ChainsKept, Renewing, Probes
  <2> QED BY <2>9, <2>10 DEF PollInv
<1> QED BY <1>1, <1>2

\* What is read was so after what is shown.
LEMMA ObservePolls ==
    ASSUME PollInv, NEW f \in fetches, Observe(f)
    PROVE  PollInv'
<1>1. PICK g, n : n = world[f.source] /\ g = [f EXCEPT !.seen = n]
  OBVIOUS
<1>2. f.seen = -1 /\ fetches' = (fetches \ {f}) \cup {g} /\ UNCHANGED <<timers, view, world>>
  BY <1>1 DEF Observe
<1>3. PollTypes /\ ChainsKept
  BY DEF PollInv
<1>4. f \in Fetch /\ f.source \in Sources /\ n \in Nat
  BY <1>1, <1>3 DEF PollTypes, Fetch
<1>5. /\ g \in Fetch /\ g.source = f.source /\ g.slot = f.slot /\ g.renew = f.renew /\ g.seen = n
      /\ f.renew \in BOOLEAN
  BY <1>1, <1>4 DEF Fetch
<1>6. g \notin fetches \ {f}
  BY <1>3, <1>5 DEF PollTypes
<1> DEFINE gs == fetches \ {f}
<1>7. /\ IsFiniteSet(gs)
      /\ \A s : Cardinality(Renewing(fetches, s)) =
                  Cardinality(Renewing(gs, s)) + (IF f.source = s /\ f.renew THEN 1 ELSE 0)
      /\ Cardinality(Probes(fetches)) =
           Cardinality(Probes(gs)) + (IF f.source = "tunnel" THEN 1 ELSE 0)
  BY <1>3, <1>5, OneIsOver DEF PollTypes
<1>8. fetches' = gs \cup {g} /\ g \notin gs /\ g.renew \in BOOLEAN
  BY <1>2, <1>5, <1>6
<1>9. \A h \in gs : h \in fetches /\ h # f
  OBVIOUS
<1> HIDE DEF gs
<1>10. /\ IsFiniteSet(gs \cup {g})
       /\ \A s : Cardinality(Renewing(gs \cup {g}, s)) =
                   Cardinality(Renewing(gs, s)) + (IF g.source = s /\ g.renew THEN 1 ELSE 0)
       /\ Cardinality(Probes(gs \cup {g})) =
            Cardinality(Probes(gs)) + (IF g.source = "tunnel" THEN 1 ELSE 0)
  BY <1>7, <1>8, OneIsBegun
<1>11. /\ \A s : Cardinality(Renewing(fetches', s)) = Cardinality(Renewing(fetches, s))
       /\ Cardinality(Probes(fetches')) = Cardinality(Probes(fetches))
  BY <1>5, <1>7, <1>8, <1>10
<1>12. PollTypes'
  <2>1. fetches' \subseteq Fetch
    BY <1>3, <1>5, <1>8, <1>9 DEF PollTypes
  <2>2. \A h \in fetches' : h.seen <= world'[h.source]
    <3>1. g.seen <= world'[g.source]
      BY <1>1, <1>2, <1>4, <1>5
    <3>2. \A h \in gs : h.seen <= world'[h.source]
      BY <1>2, <1>3, <1>9 DEF PollTypes
    <3> QED BY <1>8, <3>1, <3>2
  <2>3. \A h, k \in fetches' : h.source = k.source /\ h.slot = k.slot => h = k
    BY <1>3, <1>5, <1>8, <1>9 DEF PollTypes
  <2> QED BY <1>2, <1>3, <1>8, <1>10, <2>1, <2>2, <2>3 DEF PollTypes
<1>13. ChainsKept'
  <2>1. /\ \A x \in Sources : timers[x] + Cardinality(Renewing(fetches, x)) = 1
        /\ Cardinality(Probes(fetches)) = IF view.inFlight THEN 1 ELSE 0
        /\ \A h \in fetches : h.source = "tunnel" /\ h.seen >= 0 => h.seen >= view.tunnel
    BY <1>3, ChainsAre
  <2>2. \A h \in fetches' : h.source = "tunnel" /\ h.seen >= 0 => h.seen >= view.tunnel
    <3>1. g.source = "tunnel" => g.seen >= view.tunnel
      BY <1>1, <1>3, <1>4, <1>5 DEF PollTypes
    <3> QED BY <1>8, <1>9, <2>1, <3>1
  <2>3. /\ \A x \in Sources : timers'[x] + Cardinality(Renewing(fetches', x)) = 1
        /\ Cardinality(Probes(fetches')) = IF view'.inFlight THEN 1 ELSE 0
    BY <1>2, <1>11, <2>1
  <2> QED BY <1>2, <2>2, <2>3 DEF ChainsKept, Renewing, Probes
<1> QED BY <1>12, <1>13 DEF PollInv


\* A reading is shown; it arms the tick of its source if it came of one.
LEMMA ReadingPolls ==
    ASSUME PollInv, NEW f \in fetches, Reading(f)
    PROVE  PollInv'
<1> DEFINE gs == fetches \ {f}
<1>1. /\ f.seen >= 0 /\ fetches' = gs
      /\ timers' = IF f.renew THEN [timers EXCEPT ![f.source] = timers[f.source] + 1] ELSE timers
      /\ view' = IF f.source = "tunnel" THEN [view EXCEPT !.tunnel = f.seen, !.inFlight = FALSE]
                 ELSE [view EXCEPT ![f.source] = f.seen]
      /\ UNCHANGED world
  BY DEF Reading, renewTick
<1>2. PollTypes /\ ChainsKept
  BY DEF PollInv
<1>3. f \in Fetch /\ f.source \in Sources /\ f.renew \in BOOLEAN /\ f.seen \in Int
  BY <1>2 DEF PollTypes, Fetch
<1>4. /\ IsFiniteSet(gs)
      /\ \A s : Cardinality(Renewing(fetches, s)) =
                  Cardinality(Renewing(gs, s)) + (IF f.source = s /\ f.renew THEN 1 ELSE 0)
      /\ Cardinality(Probes(fetches)) =
           Cardinality(Probes(gs)) + (IF f.source = "tunnel" THEN 1 ELSE 0)
  BY <1>2, <1>3, OneIsOver DEF PollTypes
<1>5. \A h \in gs : h \in fetches
  OBVIOUS
<1>6. /\ \A x \in Sources : timers[x] + Cardinality(Renewing(fetches, x)) = 1
      /\ Cardinality(Probes(fetches)) = IF view.inFlight THEN 1 ELSE 0
      /\ \A h \in fetches : h.source = "tunnel" /\ h.seen >= 0 => h.seen >= view.tunnel
  BY <1>2, ChainsAre
<1> HIDE DEF gs
<1>7. /\ \A s : Cardinality(Renewing(gs, s)) \in Nat
      /\ IsFiniteSet(Probes(gs)) /\ Cardinality(Probes(gs)) \in Nat
  BY <1>4, CountsType
<1>8. /\ timers \in [Sources -> Nat] /\ timers' \in [Sources -> Nat]
      /\ \A x \in Sources : timers'[x] = timers[x] + (IF f.source = x /\ f.renew THEN 1 ELSE 0)
  BY <1>1, <1>2, <1>3 DEF PollTypes
<1>9. /\ DOMAIN view' = Sources \cup {"inFlight"} /\ view' = [x \in DOMAIN view' |-> view'[x]]
      /\ view'.inFlight = IF f.source = "tunnel" THEN FALSE ELSE view.inFlight
      /\ view'.tunnel = IF f.source = "tunnel" THEN f.seen ELSE view.tunnel
  <2>1. DOMAIN view = Sources \cup {"inFlight"} /\ f.source # "inFlight"
    BY <1>2, <1>3 DEF PollTypes, Sources
  <2> QED BY <1>1, <1>3, <2>1 DEF Sources
<1>10. PollTypes'
  <2>1. fetches' \subseteq Fetch /\ IsFiniteSet(fetches')
    BY <1>1, <1>2, <1>4, <1>5 DEF PollTypes
  <2>2. /\ \A h \in fetches' : h.seen <= world'[h.source]
        /\ \A h, k \in fetches' : h.source = k.source /\ h.slot = k.slot => h = k
    BY <1>1, <1>2, <1>5 DEF PollTypes
  <2>3. view'.inFlight \in BOOLEAN /\ view'.tunnel \in Int /\ view'.tunnel <= world'["tunnel"]
    <3>1. f.source = "tunnel" => f.seen <= world["tunnel"]
      BY <1>2 DEF PollTypes
    <3> QED BY <1>1, <1>2, <1>3, <1>9, <3>1 DEF PollTypes
  <2> QED BY <1>1, <1>2, <1>8, <1>9, <2>1, <2>2, <2>3 DEF PollTypes
<1>11. ChainsKept'
  <2>1. \A x \in Sources : timers'[x] + Cardinality(Renewing(fetches', x)) = 1
    <3> SUFFICES ASSUME NEW x \in Sources PROVE timers'[x] + Cardinality(Renewing(fetches', x)) = 1
      OBVIOUS
    <3>1. timers[x] \in Nat /\ Cardinality(Renewing(gs, x)) \in Nat
      BY <1>7, <1>8
    <3> QED BY <1>1, <1>4, <1>6, <1>8, <3>1
  <2>2. Cardinality(Probes(fetches')) = IF view'.inFlight THEN 1 ELSE 0
    <3>1. CASE f.source = "tunnel"
      <4>1. Cardinality(Probes(fetches)) <= 1 /\ Cardinality(Probes(fetches)) = Cardinality(Probes(gs)) + 1
        BY <1>4, <1>6, <3>1
      <4>2. Cardinality(Probes(gs)) = 0
        BY <1>7, <4>1
      <4>3. ~view'.inFlight
        BY <1>9, <3>1
      <4> QED BY <1>1, <4>2, <4>3
    <3>2. CASE f.source # "tunnel"
      <4>1. Cardinality(Probes(fetches)) = Cardinality(Probes(gs)) /\ (view'.inFlight <=> view.inFlight)
        BY <1>4, <1>7, <1>9, <3>2
      <4> QED BY <1>1, <1>6, <4>1
    <3> QED BY <3>1, <3>2
  <2>3. \A h \in fetches' : h.source = "tunnel" /\ h.seen >= 0 => h.seen >= view'.tunnel
    <3>1. CASE f.source = "tunnel"
      <4>1. Cardinality(Probes(gs)) = 0
        BY <1>4, <1>6, <1>7, <3>1
      <4>2. Probes(gs) = {}
        BY <1>7, <4>1, FS_EmptySet
      <4> QED BY <1>1, <4>2 DEF Probes
    <3>2. CASE f.source # "tunnel"
      BY <1>1, <1>5, <1>6, <1>9, <3>2
    <3> QED BY <3>1, <3>2
  <2> QED BY <2>1, <2>2, <2>3 DEF ChainsKept, Renewing, Probes
<1> QED BY <1>10, <1>11 DEF PollInv

\* What is read changes, for the better part: nothing that was read is undone.
LEMMA WorldPolls ==
    ASSUME PollInv, UNCHANGED <<timers, fetches, view>>, world' \in [Sources -> Nat],
           \A s \in Sources : world[s] <= world'[s]
    PROVE  PollInv'
<1>1. PollTypes /\ ChainsKept
  BY DEF PollInv
<1>2. \A f \in fetches : f.source \in Sources /\ f.seen \in Int
  BY <1>1 DEF PollTypes, Fetch
<1>3. \A s \in Sources : world[s] \in Nat /\ world'[s] \in Nat
  BY <1>1 DEF PollTypes
<1>4. \A f \in fetches' : f.seen <= world'[f.source]
  BY <1>1, <1>2, <1>3 DEF PollTypes
<1>5. view'.tunnel <= world'["tunnel"]
  BY <1>1, <1>3 DEF PollTypes, Sources
<1>6. PollTypes'
  BY <1>1, <1>4, <1>5 DEF PollTypes
<1>7. ChainsKept'
  BY <1>1 DEF ChainsKept
<1> QED BY <1>6, <1>7 DEF PollInv

\* A source changes by itself, or by the work of an action.
LEMMA ChangePolls ==
    ASSUME PollInv, \/ \E s \in Sources : Change(s)
                    \/ \E i \in DOMAIN workers : Works(i)
    PROVE  PollInv'
<1>1. world \in [Sources -> Nat]
  BY DEF PollInv, PollTypes
<1>2. ASSUME NEW s \in Sources, Change(s) PROVE PollInv'
  <2>1. world' = [world EXCEPT ![s] = world[s] + 1] /\ UNCHANGED <<timers, fetches, view>>
    BY <1>2 DEF Change
  <2>2. world' \in [Sources -> Nat] /\ \A x \in Sources : world[x] <= world'[x]
    BY <1>1, <2>1
  <2> QED BY <2>1, <2>2, WorldPolls
<1>3. ASSUME NEW i \in DOMAIN workers, Works(i) PROVE PollInv'
  <2>1. /\ UNCHANGED <<timers, fetches, view>>
        /\ \/ world' = world
           \/ world' = [s \in Sources |-> IF s \in Changes(workers[i].cmd) /\ world[s] < MaxChanges
                                          THEN world[s] + 1 ELSE world[s]]
    BY <1>3 DEF Works
  <2>2. world' \in [Sources -> Nat] /\ \A x \in Sources : world[x] <= world'[x]
    BY <1>1, <2>1
  <2> QED BY <2>1, <2>2, WorldPolls
<1> QED BY <1>2, <1>3

\* Readings that are asked for arm no tick, and there is one probe at most.
LEMMA RefreshedPolls ==
    ASSUME PollInv, NEW wanted, wanted \subseteq Sources, Refreshed(wanted)
    PROVE  PollInv'
<1> DEFINE begin == IF view.inFlight THEN wanted \ {"tunnel"} ELSE wanted
<1>1. PICK N : N = {Begun(s, FALSE) : s \in begin}
  OBVIOUS
<1>2. /\ fetches' = fetches \cup N /\ UNCHANGED <<timers, world>>
      /\ view' = IF "tunnel" \in wanted THEN [view EXCEPT !.inFlight = TRUE] ELSE view
  BY <1>1 DEF Refreshed
<1>3. PollTypes /\ ChainsKept
  BY DEF PollInv
<1>4. begin \subseteq Sources /\ ("tunnel" \in begin <=> "tunnel" \in wanted /\ ~view.inFlight)
  OBVIOUS
<1> HIDE DEF begin
<1>5. \A b \in N : /\ b \in Fetch /\ b.source \in begin /\ b.renew = FALSE /\ b.seen = -1
                   /\ b = Begun(b.source, FALSE)
                   /\ \A f \in fetches : f.source = b.source => f.slot # b.slot
  <2> SUFFICES ASSUME NEW b \in N
               PROVE  /\ b \in Fetch /\ b.source \in begin /\ b.renew = FALSE /\ b.seen = -1
                      /\ b = Begun(b.source, FALSE)
                      /\ \A f \in fetches : f.source = b.source => f.slot # b.slot
    OBVIOUS
  <2>1. PICK s \in begin : b = Begun(s, FALSE)
    BY <1>1
  <2>2. s \in Sources /\ FALSE \in BOOLEAN
    BY <1>4
  <2>3. /\ Begun(s, FALSE) \in Fetch /\ Begun(s, FALSE).source = s
        /\ Begun(s, FALSE).renew = FALSE /\ Begun(s, FALSE).seen = -1
        /\ \A f \in fetches : f.source = s => f.slot # Begun(s, FALSE).slot
    BY <1>3, <2>2, FreeSlot
  <2> QED BY <2>1, <2>3
<1>6. IsFiniteSet(fetches')
  <2> DEFINE a == Begun("stats", FALSE)
             b == Begun("creds", FALSE)
             c == Begun("tunnel", FALSE)
  <2>1. N \subseteq {a, b, c}
    BY <1>1, <1>4 DEF Sources
  <2> HIDE DEF a, b, c
  <2>2. IsFiniteSet(((fetches \cup {a}) \cup {b}) \cup {c})
    BY <1>3, FS_AddElement DEF PollTypes
  <2>3. fetches' \in SUBSET (((fetches \cup {a}) \cup {b}) \cup {c})
    BY <1>2, <2>1
  <2> QED BY <2>2, <2>3, FS_Subset
<1>7. \A s : Renewing(fetches', s) = Renewing(fetches, s)
  BY <1>2, <1>5 DEF Renewing
<1>8. Cardinality(Probes(fetches')) = Cardinality(Probes(fetches)) + (IF "tunnel" \in begin THEN 1 ELSE 0)
  <2>0. IsFiniteSet(Probes(fetches)) /\ Cardinality(Probes(fetches)) \in Nat
    BY <1>3, CountsType DEF PollTypes
  <2>1. CASE "tunnel" \in begin
    <3>1. PICK b : b = Begun("tunnel", FALSE) /\ b \in N
      BY <1>1, <2>1
    <3>2. b.source = "tunnel"
      BY <1>3, <3>1, FreeSlot DEF Sources
    <3>3. Probes(fetches') = Probes(fetches) \cup {b} /\ b \notin Probes(fetches)
      BY <1>2, <1>5, <3>1, <3>2 DEF Probes
    <3>4. Cardinality(Probes(fetches) \cup {b}) = Cardinality(Probes(fetches)) + 1
      BY <2>0, <3>3, FS_AddElement
    <3> QED BY <2>1, <3>3, <3>4
  <2>2. CASE "tunnel" \notin begin
    <3>1. Probes(fetches') = Probes(fetches)
      BY <1>2, <1>5, <2>2 DEF Probes
    <3> QED BY <2>0, <2>2, <3>1
  <2> QED BY <2>1, <2>2
<1>9. /\ DOMAIN view' = Sources \cup {"inFlight"} /\ view' = [x \in DOMAIN view' |-> view'[x]]
      /\ (view'.inFlight <=> (view.inFlight \/ "tunnel" \in wanted)) /\ view'.inFlight \in BOOLEAN
      /\ view'.tunnel = view.tunnel
  BY <1>2, <1>3 DEF PollTypes, Sources
<1>10. PollTypes'
  <2>1. fetches' \subseteq Fetch
    BY <1>2, <1>3, <1>5 DEF PollTypes
  <2>2. \A f \in fetches' : f.seen <= world'[f.source]
    <3>1. \A f \in fetches : f.seen <= world[f.source]
      BY <1>3 DEF PollTypes
    <3>2. \A b \in N : b.seen <= world[b.source]
      <4> SUFFICES ASSUME NEW b \in N PROVE b.seen <= world[b.source]
        OBVIOUS
      <4>1. b.source \in Sources /\ b.seen = -1
        BY <1>4, <1>5
      <4>2. world[b.source] \in Nat
        BY <1>3, <4>1 DEF PollTypes
      <4> QED BY <4>1, <4>2
    <3> QED BY <1>2, <3>1, <3>2
  <2>3. \A f, g \in fetches' : f.source = g.source /\ f.slot = g.slot => f = g
    <3>1. \A f, g \in fetches : f.source = g.source /\ f.slot = g.slot => f = g
      BY <1>3 DEF PollTypes
    <3>2. \A b, c \in N : b.source = c.source => b = c
      BY <1>5
    <3>3. \A b \in N, f \in fetches : f.source = b.source => f.slot # b.slot
      BY <1>5
    <3> QED BY <1>2, <3>1, <3>2, <3>3
  <2> QED BY <1>2, <1>3, <1>6, <1>9, <2>1, <2>2, <2>3 DEF PollTypes
<1>11. ChainsKept'
  <2>1. /\ \A x \in Sources : timers[x] + Cardinality(Renewing(fetches, x)) = 1
        /\ Cardinality(Probes(fetches)) = IF view.inFlight THEN 1 ELSE 0
        /\ \A f \in fetches : f.source = "tunnel" /\ f.seen >= 0 => f.seen >= view.tunnel
    BY <1>3, ChainsAre
  <2>2. \A x \in Sources : timers'[x] + Cardinality(Renewing(fetches', x)) = 1
    BY <1>2, <1>7, <2>1
  <2>3. Cardinality(Probes(fetches')) = IF view'.inFlight THEN 1 ELSE 0
    <3>1. Cardinality(Probes(fetches)) \in Nat
      BY <1>3, CountsType DEF PollTypes
    <3>2. CASE "tunnel" \in begin
      <4>1. ~view.inFlight /\ view'.inFlight
        BY <1>4, <1>9, <3>2
      <4> QED BY <1>8, <2>1, <3>1, <3>2, <4>1
    <3>3. CASE "tunnel" \notin begin
      <4>1. view'.inFlight <=> view.inFlight
        BY <1>4, <1>9, <3>3
      <4> QED BY <1>8, <2>1, <3>1, <3>3, <4>1
    <3> QED BY <3>2, <3>3
  <2>4. \A f \in fetches' : f.source = "tunnel" /\ f.seen >= 0 => f.seen >= view'.tunnel
    <3>1. \A b \in N : ~(b.seen >= 0)
      <4> SUFFICES ASSUME NEW b \in N PROVE ~(b.seen >= 0)
        OBVIOUS
      <4>1. b.seen = -1
        BY <1>5
      <4> QED BY <4>1
    <3> QED BY <1>2, <1>9, <2>1, <3>1
  <2> QED BY <2>2, <2>3, <2>4 DEF ChainsKept, Renewing, Probes
<1> QED BY <1>10, <1>11 DEF PollInv

\* Every step but a refresh: the readings are what they were, or as above.
LEMMA OthersPoll ==
    ASSUME PollInv, [PanelNext]_panelVars, ~KeyR, ~ActionDone
    PROVE  PollInv'
<1>1. CASE UNCHANGED pollVars
  BY <1>1 DEF PollInv, PollTypes, ChainsKept, pollVars
<1>2. ASSUME NEW s \in Sources, Tick(s) PROVE PollInv'
  BY <1>2, TickPolls
<1>3. ASSUME NEW f \in fetches, Observe(f) \/ Reading(f) PROVE PollInv'
  BY <1>3, ObservePolls, ReadingPolls
<1>4. CASE (\E s \in Sources : Change(s)) \/ (\E i \in DOMAIN workers : Works(i))
  BY <1>4, ChangePolls
<1>5. CASE KeySlash \/ KeyBackspace \/ KeyTab \/ submit \/ KeyYes \/ KeyNo \/ KeyEsc \/ KeyQ \/ CtrlC
           \/ Scroll \/ (\E w \in Words : KeyWord(w)) \/ (\E d \in {-1, 1} : KeyUpDown(d))
           \/ (\E h \in Heights : WindowSize(h)) \/ Host \/ TimedOut \/ UNCHANGED panelVars
  <2>1. UNCHANGED pollVars
    BY <1>5 DEF KeySlash, KeyBackspace, KeyTab, submit, KeyYes, KeyNo, KeyEsc, KeyQ, CtrlC, Scroll,
                KeyWord, KeyUpDown, WindowSize, Host, ProxyReturns, ProxyOver, Signal, PanelOver,
                supervise, TimedOut, panelVars, pollVars
  <2> QED BY <1>1, <2>1
<1> QED BY <1>2, <1>3, <1>4, <1>5 DEF PanelNext, Keys, Polls

\* What any command asks to be read again is something there is to read.
LEMMA RunRefreshes ==
    ASSUME NEW c \in Commands, NEW args
    PROVE  Run(c, args).refresh \subseteq Sources
<1>1. /\ Does({"tunnel"}).refresh = {"tunnel"} /\ Does({"creds"}).refresh = {"creds"}
      /\ Does({"tunnel", "creds"}).refresh = {"tunnel", "creds"} /\ Does({}).refresh = {}
      /\ Answers.refresh = {} /\ Fails.refresh = {} /\ runMonitor.refresh = {}
      /\ runQuit.refresh = {}
  BY DEF Does, Answers, Fails, runMonitor, runQuit
<1>2. /\ runTunnelStatus.refresh \subseteq Sources /\ runTunnelUp.refresh \subseteq Sources
      /\ runTunnelDown.refresh \subseteq Sources /\ runAuthList.refresh \subseteq Sources
      /\ runAuthRemove(args).refresh \subseteq Sources /\ runAuthAdd(args).refresh \subseteq Sources
      /\ runDoctor.refresh \subseteq Sources /\ runRoutes.refresh \subseteq Sources
      /\ runMonitor.refresh \subseteq Sources /\ runQuit.refresh \subseteq Sources
  BY <1>1 DEF runTunnelStatus, runTunnelUp, runTunnelDown, runAuthList, runAuthRemove, runAuthAdd,
              runDoctor, runRoutes, Sources
<1>3. \/ c = <<"monitor">> \/ c = <<"tunnel", "status">> \/ c = <<"tunnel", "up">>
      \/ c = <<"tunnel", "down">> \/ c = <<"auth", "list">> \/ c = <<"auth", "rm">>
      \/ c = <<"auth", "add">> \/ c = <<"doctor">> \/ c = <<"routes">> \/ c = <<"quit">>
  <2>1. PICK i \in 1 .. 10 : c = commandSet[i]
    BY DEF Commands, commandSet
  <2>2. i = 1 \/ i = 2 \/ i = 3 \/ i = 4 \/ i = 5 \/ i = 6 \/ i = 7 \/ i = 8 \/ i = 9 \/ i = 10
    BY <2>1
  <2> QED BY <2>1, <2>2 DEF commandSet
<1> QED BY <1>2, <1>3 DEF Run

\* Running a command.
LEMMA ExecuteRefreshes ==
    ASSUME RefreshOK, IsSequence(workers), running = None, NEW c \in Commands, NEW args,
           execute(c, args)
    PROVE  RefreshOK'
<1> DEFINE r == Run(c, args).refresh
           w == [cmd |-> c, refresh |-> r, done |-> FALSE, res |-> "none"]
<1>1. \/ UNCHANGED <<workers, running>>
      \/ workers' = Append(workers, w)
  BY DEF execute
<1>2. w.refresh = r /\ r \subseteq Sources
  BY RunRefreshes
<1> HIDE DEF w, r
<1>3. CASE UNCHANGED <<workers, running>>
  BY <1>3 DEF RefreshOK, Busy
<1>4. CASE workers' = Append(workers, w)
  <2>1. PICK S : workers \in Seq(S)
    BY DEF IsSequence
  <2>2. PICK n \in Nat : n = Len(workers) /\ DOMAIN workers = 1 .. n
    BY <2>1, LenProperties
  <2> DEFINE T == S \cup {w}
  <2>3. workers \in Seq(T) /\ w \in T
    <3>1. workers \in [1 .. n -> T]
      BY <2>1, <2>2, LenProperties
    <3> QED BY <3>1, SeqDef
  <2> HIDE DEF T
  <2>4. PICK ws : ws = Append(workers, w)
    OBVIOUS
  <2>5. /\ Len(ws) = n + 1 /\ DOMAIN ws = 1 .. n + 1 /\ ws[n + 1] = w
        /\ \A i \in 1 .. n : ws[i] = workers[i]
    BY <2>2, <2>3, <2>4, AppendProperties
  <2>6. \A i \in DOMAIN ws : ws[i].refresh \subseteq Sources
    <3>1. \A i \in 1 .. n + 1 : i \in 1 .. n \/ i = n + 1
      OBVIOUS
    <3> QED BY <1>2, <2>2, <2>5, <3>1 DEF RefreshOK
  <2>7. Len(ws) \in DOMAIN ws
    BY <2>5
  <2>8. workers' = ws
    BY <1>4, <2>4
  <2> QED BY <2>6, <2>7, <2>8 DEF RefreshOK
<1> QED BY <1>1, <1>3, <1>4

\* The commands that are run are commands.
LEMMA RefreshStep ==
    ASSUME AskInv, RefreshOK, [PanelNext]_panelVars
    PROVE  RefreshOK'
<1>0. IsSequence(workers) /\ None \notin Danger
  BY DEF AskInv, None, Danger
<1>1. CASE submit \/ KeyYes
  <2>1. entry.mode \in {"entry", "confirming"}
    BY <1>1 DEF submit, KeyYes, Mode
  <2>2. entry.hits \in Seq(Commands)
    BY <2>1, MatchFacts DEF AskInv
  <2>3. selected # None => selected \in Commands
    <3>1. \A i \in DOMAIN entry.hits : entry.hits[i] \in Commands
      BY <2>2, LenProperties
    <3> QED BY <3>1 DEF selected
  <2>4. CASE UNCHANGED <<running, workers>>
    BY <2>4 DEF RefreshOK, Busy
  <2>5. CASE running = None /\ \E c \in Commands : \E args : execute(c, args)
    BY <1>0, <2>5, ExecuteRefreshes
  <2>6. CASE submit
    BY <2>3, <2>4, <2>5, <2>6 DEF submit, Busy
  <2>7. CASE KeyYes
    <3>1. entry.mode = "confirming" /\ execute(entry.cmd, entry.args)
      BY <2>7 DEF KeyYes, Mode
    <3>2. entry.cmd = selected /\ selected # None /\ running = None
      BY <1>0, <3>1 DEF AskInv
    <3> QED BY <2>3, <2>5, <3>1, <3>2
  <2> QED BY <1>1, <2>6, <2>7
<1>2. ASSUME NEW i \in DOMAIN workers, Works(i) PROVE RefreshOK'
  <2>1. PICK res : workers' = [workers EXCEPT ![i] = [workers[i] EXCEPT !.done = TRUE, !.res = res]]
    BY <1>2 DEF Works
  <2>2. UNCHANGED running /\ Len(workers') = Len(workers)
    BY <1>0, <1>2, WorksKeepsLength DEF Works
  <2>3. /\ DOMAIN workers' = DOMAIN workers
        /\ \A j \in DOMAIN workers : workers'[j].refresh = workers[j].refresh
    BY <2>1
  <2> QED BY <2>2, <2>3 DEF RefreshOK, Busy
<1>3. CASE /\ ~submit /\ ~KeyYes
           /\ Keys \/ Polls \/ Host \/ ActionDone \/ TimedOut \/ UNCHANGED panelVars
  <2>1. UNCHANGED workers /\ (running' = running \/ running' = None)
    BY <1>3 DEF Keys, KeySlash, KeyBackspace, KeyTab, KeyNo, KeyEsc, KeyQ, KeyR, CtrlC, Scroll,
                KeyWord, KeyUpDown, WindowSize, Polls, Tick, Change, Observe, Reading, Host,
                ProxyReturns, ProxyOver, Signal, PanelOver, supervise, ActionDone, TimedOut,
                panelVars, actVars
  <2> QED BY <2>1 DEF RefreshOK, Busy
<1> QED BY <1>1, <1>2, <1>3 DEF PanelNext

\* Polling (renewTick, fetch, refresh): of each source one tick is to come, or
\* one reading that will arm it; and one probe of the tunnel is out at most.
THEOREM ChainsAreKept == PanelSpec => []ChainsKept
<1>1. PanelInit => PollInv
  <2> SUFFICES ASSUME PanelInit PROVE PollInv
    OBVIOUS
  <2>1. /\ timers = [s \in Sources |-> 1] /\ fetches = {} /\ world = [s \in Sources |-> 0]
        /\ view = [s \in Sources \cup {"inFlight"} |-> IF s = "inFlight" THEN FALSE ELSE -1]
    BY DEF PanelInit, At
  <2>2. view.inFlight = FALSE /\ view.tunnel = -1 /\ DOMAIN view = Sources \cup {"inFlight"}
    BY <2>1 DEF Sources
  <2>3. \A s : Renewing(fetches, s) = {}
    BY <2>1 DEF Renewing
  <2>4. Probes(fetches) = {} /\ Cardinality({}) = 0 /\ IsFiniteSet({})
    BY <2>1, FS_EmptySet DEF Probes
  <2>5. ChainsKept
    BY <2>1, <2>2, <2>3, <2>4, ChainsAre
  <2>6. PollTypes
    BY <2>1, <2>2, <2>4 DEF PollTypes, Sources
  <2> QED BY <2>5, <2>6 DEF PollInv
<1>2. PanelInit => AskInv /\ RefreshOK
  <2> SUFFICES ASSUME PanelInit PROVE AskInv /\ RefreshOK
    OBVIOUS
  <2>1. entry = Idle /\ workers = << >> /\ running = None
    BY DEF PanelInit, At
  <2> QED BY <2>1, AskStart DEF RefreshOK, Busy
<1>3. AskInv /\ [PanelNext]_panelVars => AskInv'
  BY RunsAsked, OthersAsk
<1>4. AskInv /\ RefreshOK /\ PollInv /\ [PanelNext]_panelVars => RefreshOK' /\ PollInv'
  <2> SUFFICES ASSUME AskInv, RefreshOK, PollInv, [PanelNext]_panelVars PROVE RefreshOK' /\ PollInv'
    OBVIOUS
  <2>1. RefreshOK'
    BY RefreshStep
  <2>2. CASE KeyR
    <3>1. PICK wanted : wanted = {"creds", "tunnel"} /\ wanted \subseteq Sources
      BY DEF Sources
    <3>2. Refreshed(wanted)
      BY <2>2, <3>1 DEF KeyR
    <3>3. PollInv'
      BY <3>1, <3>2, RefreshedPolls
    <3> QED BY <2>1, <3>3
  <2>3. CASE ActionDone
    <3>1. PICK wanted : wanted = Current.refresh
      OBVIOUS
    <3>2. Busy /\ Refreshed(wanted)
      BY <2>3, <3>1 DEF ActionDone
    <3>3. wanted \subseteq Sources
      BY <3>1, <3>2 DEF RefreshOK, Current
    <3>4. PollInv'
      BY <3>2, <3>3, RefreshedPolls
    <3> QED BY <2>1, <3>4
  <2>4. CASE ~KeyR /\ ~ActionDone
    <3>1. PollInv'
      BY <2>4, OthersPoll
    <3> QED BY <2>1, <3>1
  <2> QED BY <2>1, <2>2, <2>3, <2>4
<1>5. PollInv => ChainsKept
  BY DEF PollInv
<1> QED BY <1>1, <1>2, <1>3, <1>4, <1>5, PTL DEF PanelSpec

----------------------------------------------------------------------------
(* The screen.                                                             *)

\* What is under the panel takes a row at least, and where the terminal is high
\* enough it leaves the frame and one row of the body.
LEMMA BelowFits ==
    ASSUME NEW height \in Nat, NEW mode \in {"normal", "entry", "confirming"},
           NEW hits, mode = "entry" => hits \in Nat, NEW tells \in BOOLEAN
    PROVE  /\ belowHeight(height, mode, hits, tells) \in Nat
           /\ belowHeight(height, mode, hits, tells) >= 1
           /\ height >= minHeight => belowHeight(height, mode, hits, tells) <= height - 8
<1> DEFINE maxH == Greatest(1, height - panelMinRows)
<1>1. /\ maxH \in Nat /\ maxH >= 1
      /\ height >= minHeight => maxH = height - 8 /\ maxH >= 8
  BY DEF Greatest, panelMinRows, panelFixedRows, minHeight
<1> HIDE DEF maxH
<1>2. belowHeight(height, mode, hits, tells) = renderBelowPanel(mode, hits, tells, maxH)
  BY DEF belowHeight, maxH
<1>3. CASE mode = "normal"
  <2>1. renderBelowPanel(mode, hits, tells, maxH) = 1
    BY <1>3 DEF renderBelowPanel
  <2> QED BY <1>1, <1>2, <2>1
<1>4. CASE mode = "confirming"
  <2>1. renderBelowPanel(mode, hits, tells, maxH) \in {1, 2}
    BY <1>4 DEF renderBelowPanel, renderConfirm
  <2> QED BY <1>1, <1>2, <2>1
<1>5. CASE mode = "entry"
  <2>1. renderBelowPanel(mode, hits, tells, maxH) = renderEntry(hits, tells, maxH) /\ hits \in Nat
    BY <1>5 DEF renderBelowPanel
  <2> DEFINE listRows == Greatest(0, maxH - 1)
             shows    == tells /\ listRows > 1
             window   == Least(maxCompletions, IF shows THEN listRows - 1 ELSE listRows)
             note     == IF shows THEN 1 ELSE 0
             rows     == IF hits = 0 THEN Least(1, listRows) ELSE Least(hits, window)
  <2>2. renderEntry(hits, tells, maxH) = 1 + note + rows
    BY DEF renderEntry
  <2>3. listRows \in Nat /\ listRows = maxH - 1
    BY <1>1 DEF Greatest
  <2>4. /\ note \in {0, 1} /\ rows \in Nat
        /\ note + rows <= listRows \/ (note = 0 /\ rows <= listRows)
    <3>1. CASE shows
      <4>1. listRows > 1 /\ note = 1
        BY <3>1
      <4>2. window \in Nat /\ window <= listRows - 1
        BY <2>3, <3>1, <4>1 DEF Least, maxCompletions
      <4>3. rows \in Nat /\ rows <= listRows - 1
        BY <2>1, <2>3, <4>1, <4>2 DEF Least
      <4> QED BY <2>3, <4>1, <4>3
    <3>2. CASE ~shows
      <4>1. window \in Nat /\ window <= listRows /\ note = 0
        BY <2>3, <3>2 DEF Least, maxCompletions
      <4>2. rows \in Nat /\ rows <= listRows
        BY <2>1, <2>3, <4>1 DEF Least
      <4> QED BY <2>3, <4>1, <4>2
    <3> QED BY <3>1, <3>2
  <2> HIDE DEF note, rows, listRows
  <2> QED BY <1>1, <1>2, <2>1, <2>2, <2>3, <2>4
<1> QED BY <1>3, <1>4, <1>5

\* Rows for everything: under the panel, in it an output, in it the stream.
Fits(height, below) ==
    height \in Nat /\ below \in Nat /\ below >= 1 /\ below <= height - 8

OutputSeen(height, below, total, top) ==
    LET body == bodyRows(height, below)
        page == resultViewHeight(height, below, total)
        Shown(t) == resultSection(t, total, body)
    IN /\ View(height, below, top, total, 0, 0, 0) = height
       /\ body >= 3 =>
             /\ Shown(maxScroll(height, below, total)).last = total
             /\ Shown(top + page).first <= Shown(top).last + 1

StreamSeen(height, below, a, p, r) ==
    /\ View(height, below, 0, -1, a, p, r) = height
    /\ LET s == streamSections(bodyRows(height, below), a, p, r)
       IN p > 0 /\ ~s.labelled => bodyRows(height, below) < 2

\* The body of a terminal that is high enough, and an output in it: it takes
\* the body's rows, its end can be reached, and no line is between two pages.
LEMMA OutputFits ==
    ASSUME NEW height, NEW below, Fits(height, below), NEW total \in Nat, NEW top \in Nat
    PROVE  OutputSeen(height, below, total, top)
<1> DEFINE body == bodyRows(height, below)
           page == resultViewHeight(height, below, total)
           inView == visibleResultRows(body - 1, total)
           first(t) == IF t > total - inView THEN Greatest(0, total - inView) ELSE t
           end == maxScroll(height, below, total)
<1>0. height \in Nat /\ below \in Nat /\ below >= 1 /\ below <= height - 8
  BY DEF Fits
<1>1. body = height - below - 7 /\ body \in Nat /\ body >= 1
  BY <1>0 DEF bodyRows, Greatest, panelFixedRows
<1>2. resultSlots(height, below) = body - 1
  BY <1>0, <1>1 DEF resultSlots, panelFixedRows
<1>3. page = Greatest(1, inView)
  BY <1>2 DEF resultViewHeight
<1>4. end = Greatest(0, total - page)
  BY DEF maxScroll
<1>5. \A t : /\ resultSection(t, total, body).first = first(t) + 1
             /\ resultSection(t, total, body).last = Least(total, first(t) + inView)
             /\ resultSection(t, total, body).rows =
                  IF body - 1 < 1 THEN 1
                  ELSE Greatest(body, 1 + inView + (IF inView < total THEN 1 ELSE 0))
  BY DEF resultSection
<1>6. View(height, below, top, total, 0, 0, 0) = below + 7 + resultSection(top, total, body).rows
  BY DEF View, panelFixedRows
<1> HIDE DEF body
<1>7. /\ inView \in Nat /\ inView <= total
      /\ body >= 2 => \/ inView = total /\ total <= body - 1
                      \/ inView = body - 2 /\ total > body - 1
  BY <1>1 DEF visibleResultRows
<1> HIDE DEF inView
<1>8. View(height, below, top, total, 0, 0, 0) = height
  <2>1. resultSection(top, total, body).rows = body
    <3>1. CASE body = 1
      BY <1>5, <3>1
    <3>2. CASE body >= 2
      <4>1. 1 + inView + (IF inView < total THEN 1 ELSE 0) <= body
        BY <1>1, <1>7, <3>2
      <4> QED BY <1>1, <1>5, <1>7, <3>2, <4>1 DEF Greatest
    <3>3. body = 1 \/ body >= 2
      BY <1>0, <1>1
    <3> QED BY <3>1, <3>2, <3>3
  <2> QED BY <1>0, <1>1, <1>6, <2>1
<1>9. ASSUME body >= 3
      PROVE  /\ resultSection(end, total, body).last = total
             /\ resultSection(top + page, total, body).first <= resultSection(top, total, body).last + 1
  <2>1. total >= 1 => inView >= 1
    BY <1>1, <1>7, <1>9
  <2>2. page \in Nat /\ (total >= 1 => page = inView) /\ (total = 0 => page = 1 /\ inView = 0)
    BY <1>3, <1>7, <2>1 DEF Greatest
  <2> HIDE DEF page
  <2>3. end \in Nat /\ end = total - inView
    BY <1>4, <1>7, <2>1, <2>2 DEF Greatest
  <2> HIDE DEF end
  <2>4. first(end) = total - inView
    BY <1>7, <2>3
  <2>5. Least(total, first(end) + inView) = total
    BY <1>7, <2>4 DEF Least
  <2>6. first(top) \in Nat /\ first(top) <= top /\ first(top) <= total - inView
    BY <1>7 DEF Greatest
  <2>7. first(top + page) \in Nat /\ first(top + page) <= total - inView
    BY <1>7, <2>2 DEF Greatest
  <2>8. first(top + page) <= first(top) + inView
    <3>1. CASE total = 0
      BY <1>7, <2>2, <2>6, <2>7, <3>1
    <3>2. CASE total >= 1 /\ top > total - inView
      <4>1. first(top) = total - inView
        BY <1>7, <3>2 DEF Greatest
      <4> QED BY <1>7, <2>7, <4>1
    <3>3. CASE total >= 1 /\ ~(top > total - inView)
      <4>1. first(top) = top /\ page = inView
        BY <2>2, <3>3
      <4>2. first(top + page) <= top + inView
        BY <1>7, <2>7, <3>3, <4>1 DEF Greatest
      <4> QED BY <4>1, <4>2
    <3> QED BY <3>1, <3>2, <3>3
  <2>9. Least(total, first(top) + inView) = first(top) + inView
    BY <1>7, <2>6 DEF Least
  <2> HIDE DEF first
  <2>10. resultSection(top + page, total, body).first <= resultSection(top, total, body).last + 1
    BY <1>5, <1>7, <2>6, <2>7, <2>8, <2>9
  <2> QED BY <1>5, <2>5, <2>10
<1> QED BY <1>8, <1>9 DEF body, OutputSeen

\* The stream takes the body's rows, and what is in flight is named where there
\* is room for it.
LEMMA StreamFits ==
    ASSUME NEW height, NEW below, Fits(height, below), NEW a \in Nat, NEW p \in Nat, NEW r \in Nat
    PROVE  StreamSeen(height, below, a, p, r)
<1> DEFINE body   == bodyRows(height, below)
           table  == Least(a, maxRouteRows)
           routes == IF table > 0 /\ body >= table + 3 THEN table ELSE 0
           used   == IF routes > 0 THEN routes + 1 ELSE 0
           slots  == body - used - 1
           shown  == Least(Least(p, maxPendingRows), slots)
           more   == IF p > shown /\ slots > shown THEN 1 ELSE 0
           done   == Least(r, slots - shown - more)
           s      == streamSections(body, a, p, r)
<1>0. height \in Nat /\ below \in Nat /\ below >= 1 /\ below <= height - 8
  BY DEF Fits
<1>1. body = height - below - 7 /\ body \in Nat /\ body >= 1
  BY <1>0 DEF bodyRows, Greatest, panelFixedRows
<1>2. View(height, below, 0, -1, a, p, r) = below + 7 + s.rows
  BY DEF View, panelFixedRows
<1> HIDE DEF body
<1>3. /\ body - used < 2 => s.labelled = FALSE /\ s.rows = Greatest(used, body)
      /\ ~(body - used < 2) => /\ s.labelled = TRUE
                               /\ s.rows = Greatest(used + 1 + shown + more + done, body)
  BY DEF streamSections
<1> HIDE DEF s
<1>4. table \in Nat
  BY DEF Least, maxRouteRows
<1> HIDE DEF table
<1>5. /\ used \in Nat /\ used <= body
      /\ body - used < 2 => used = 0
  BY <1>1, <1>4
<1> HIDE DEF used
<1>6. CASE body - used < 2
  <2>1. s.rows = body /\ body < 2
    BY <1>1, <1>3, <1>5, <1>6 DEF Greatest
  <2> QED BY <1>0, <1>1, <1>2, <2>1 DEF body, s, StreamSeen
<1>7. CASE ~(body - used < 2)
  <2>1. slots \in Nat /\ slots = body - used - 1
    BY <1>1, <1>5, <1>7
  <2> HIDE DEF slots
  <2>2. shown \in Nat /\ shown <= slots
    BY <2>1 DEF Least, maxPendingRows
  <2> HIDE DEF shown
  <2>3. more \in Nat /\ shown + more <= slots
    BY <2>1, <2>2
  <2> HIDE DEF more
  <2>4. done \in Nat /\ done <= slots - shown - more
    BY <2>1, <2>2, <2>3 DEF Least
  <2> HIDE DEF done
  <2>5. s.rows = body /\ s.labelled
    BY <1>1, <1>3, <1>5, <1>7, <2>1, <2>2, <2>3, <2>4 DEF Greatest
  <2> QED BY <1>0, <1>1, <1>2, <2>5 DEF body, s, StreamSeen
<1> QED BY <1>6, <1>7

\* The output that is shown, if one is.
ResultOK ==
    /\ result = [lines |-> result.lines, top |-> result.top, height |-> result.height]
    /\ result.lines \in Int /\ result.lines >= -1 /\ result.top \in Nat /\ result.height \in Nat

\* The rows under the panel.
LEMMA BelowIs ==
    ASSUME AskInv, NEW h \in Nat, NEW c
    PROVE  LET below == belowHeight(h, entry.mode, Len(entry.hits), c \in Consequence)
           IN below \in Nat /\ below >= 1 /\ (h >= minHeight => below <= h - 8)
<1>1. entry.mode \in {"normal", "entry", "confirming"}
  BY DEF AskInv
<1>2. entry.mode = "entry" => Len(entry.hits) \in Nat
  <2>1. entry.mode = "entry" => entry.hits \in Seq(Commands)
    BY MatchFacts DEF AskInv
  <2> QED BY <2>1, LenProperties
<1>3. (c \in Consequence) \in BOOLEAN
  OBVIOUS
<1> QED BY <1>1, <1>2, <1>3, BelowFits

\* The last place an output can be scrolled to.
LEMMA MaxScrollType ==
    ASSUME NEW h \in Nat, NEW below \in Nat, NEW total \in Int, total >= 0
    PROVE  maxScroll(h, below, total) \in Nat /\ resultViewHeight(h, below, total) \in Nat
<1>1. resultSlots(h, below) \in Int
  BY DEF resultSlots, panelFixedRows
<1>2. visibleResultRows(resultSlots(h, below), total) \in Int
  BY <1>1 DEF visibleResultRows
<1>3. resultViewHeight(h, below, total) \in Nat
  BY <1>2 DEF resultViewHeight, Greatest
<1>4. maxScroll(h, below, total) \in Nat
  BY <1>3 DEF maxScroll, Greatest
<1> QED BY <1>3, <1>4

\* An output that is shown anew, or dismissed.
LEMMA ShowsKeeps ==
    ASSUME ResultOK, NEW n \in Int, n >= -1, result' = Shows(n)
    PROVE  ResultOK'
BY DEF ResultOK, Shows

\* Running a command dismisses an output or leaves it.
LEMMA ExecuteShows ==
    ASSUME ResultOK, NEW c, NEW args, execute(c, args)
    PROVE  ResultOK'
<1> DEFINE s == Run(c, args)
<1>1. \/ UNCHANGED result
      \/ result' = Dismissed
  BY DEF execute
<1> QED BY <1>1, ShowsKeeps DEF Dismissed, ResultOK

\* Moving an output, and another terminal.
LEMMA ScrollKeeps ==
    ASSUME AskInv, ResultOK, Scroll \/ \E h \in Heights : WindowSize(h)
    PROVE  ResultOK'
<1>1. ASSUME Scroll PROVE ResultOK'
  <2>1. PICK below : below = Below
    OBVIOUS
  <2>2. below \in Nat
    BY <2>1, BelowIs DEF Below, ResultOK
  <2>3. PICK page, end : /\ page = resultViewHeight(result.height, below, result.lines)
                         /\ end = maxScroll(result.height, below, result.lines)
    OBVIOUS
  <2>4. result.lines >= 0 /\ result.lines \in Int /\ result.height \in Nat /\ result.top \in Nat
    BY <1>1 DEF Scroll, ResultOK
  <2>5. page \in Nat /\ end \in Nat
    BY <2>2, <2>3, <2>4, MaxScrollType
  <2>6. result' \in {clampScroll([result EXCEPT !.top = result.top + d]) : d \in {-1, 1, -page, page}}
                       \cup {[result EXCEPT !.top = t] : t \in {0, end}}
    BY <1>1, <2>1, <2>3 DEF Scroll
  <2>7. ASSUME NEW t \in Nat, result' = [result EXCEPT !.top = t] PROVE ResultOK'
    BY <2>7 DEF ResultOK
  <2>8. CASE result' \in {[result EXCEPT !.top = t] : t \in {0, end}}
    BY <2>5, <2>7, <2>8
  <2>9. CASE result' \in {clampScroll([result EXCEPT !.top = result.top + d]) : d \in {-1, 1, -page, page}}
    <3>1. PICK d \in Int : result' = clampScroll([result EXCEPT !.top = result.top + d])
      BY <2>5, <2>9
    <3>2. PICK moved : moved = [result EXCEPT !.top = result.top + d]
      OBVIOUS
    <3>3. /\ moved.top = result.top + d /\ moved.lines = result.lines /\ moved.height = result.height
          /\ \A t : [moved EXCEPT !.top = t] = [result EXCEPT !.top = t]
      BY <3>2 DEF ResultOK
    <3>4. result' = [moved EXCEPT !.top = Greatest(0, Least(moved.top, end))]
      <4>1. result' = clampScroll(moved)
        BY <3>1, <3>2
      <4>2. ~(moved.lines < 0)
        BY <2>4, <3>3
      <4>3. result' = [moved EXCEPT !.top = Greatest(0, Least(moved.top, maxScroll(moved.height, Below, moved.lines)))]
        BY <4>1, <4>2 DEF clampScroll
      <4>4. maxScroll(moved.height, Below, moved.lines) = end
        BY <2>1, <2>3, <3>3
      <4> QED BY <4>3, <4>4
    <3>5. Greatest(0, Least(moved.top, end)) \in Nat
      BY <2>4, <2>5, <3>3 DEF Greatest, Least
    <3> QED BY <2>7, <3>3, <3>4, <3>5
  <2> QED BY <2>6, <2>8, <2>9
<1>2. ASSUME NEW h \in Heights, WindowSize(h) PROVE ResultOK'
  <2>1. h \in Nat
    BY PanelAssumption
  <2>2. PICK c : c = IF entry.mode = "confirming" THEN entry.cmd ELSE selected
    OBVIOUS
  <2>3. PICK below : below = belowHeight(h, entry.mode, Len(entry.hits), c \in Consequence)
    OBVIOUS
  <2>4. below \in Nat
    BY <2>1, <2>3, BelowIs
  <2>5. PICK resized : resized = [result EXCEPT !.height = h]
    OBVIOUS
  <2>6. /\ resized.lines = result.lines /\ resized.top = result.top /\ resized.height = h
        /\ resized = [lines |-> result.lines, top |-> result.top, height |-> h]
        /\ result.lines \in Int /\ result.top \in Nat /\ result.lines >= -1
    BY <2>5 DEF ResultOK
  <2>7. result' = IF resized.lines < 0 THEN [resized EXCEPT !.top = 0]
                  ELSE [resized EXCEPT !.top = Least(resized.top, maxScroll(h, below, resized.lines))]
    <3> DEFINE c0 == IF entry.mode = "confirming" THEN entry.cmd ELSE selected
               b0 == belowHeight(h, entry.mode, Len(entry.hits), c0 \in Consequence)
               r0 == [result EXCEPT !.height = h]
    <3>1. result' = IF r0.lines < 0 THEN [r0 EXCEPT !.top = 0]
                    ELSE [r0 EXCEPT !.top = Least(r0.top, maxScroll(h, b0, r0.lines))]
      BY <1>2 DEF WindowSize
    <3>2. c0 = c
      BY <2>2
    <3> HIDE DEF c0
    <3>3. b0 = below
      BY <2>3, <3>2
    <3>4. r0 = resized
      BY <2>5
    <3> HIDE DEF b0, r0
    <3> QED BY <3>1, <3>3, <3>4
  <2>8. PICK t \in Nat : result' = [resized EXCEPT !.top = t]
    <3>1. CASE resized.lines < 0
      BY <2>7, <3>1
    <3>2. CASE ~(resized.lines < 0)
      <4>0. PICK n : n = resized.lines /\ n \in Int /\ n >= 0
        BY <2>6, <3>2
      <4>1. maxScroll(h, below, resized.lines) \in Nat
        BY <2>1, <2>4, <4>0, MaxScrollType
      <4>2. Least(resized.top, maxScroll(h, below, resized.lines)) \in Nat
        BY <2>6, <4>1 DEF Least
      <4> QED BY <2>7, <3>2, <4>2
    <3> QED BY <3>1, <3>2
  <2> QED BY <2>1, <2>6, <2>8 DEF ResultOK
<1> QED BY <1>1, <1>2

\* Every step.
LEMMA ResultStep ==
    ASSUME AskInv, ResultOK, [PanelNext]_panelVars
    PROVE  ResultOK'
<1>1. CASE UNCHANGED result
  BY <1>1 DEF ResultOK
<1>2. CASE result' = Dismissed
  BY <1>2, ShowsKeeps DEF Dismissed
<1>3. CASE submit \/ KeyYes
  BY <1>1, <1>3, ExecuteShows DEF submit, KeyYes
<1>4. CASE KeyEsc
  BY <1>1, <1>2, <1>4 DEF KeyEsc
<1>5. CASE Scroll \/ \E h \in Heights : WindowSize(h)
  BY <1>5, ScrollKeeps
<1>6. CASE ActionDone
  <2>1. UNCHANGED result \/ \E n \in Outputs : result' = Shows(n)
    BY <1>6 DEF ActionDone
  <2>2. \A n \in Outputs : n \in Int /\ n >= -1
    BY PanelAssumption
  <2> QED BY <1>1, <2>1, <2>2, ShowsKeeps
<1>7. CASE TimedOut
  BY <1>7, ShowsKeeps DEF TimedOut
<1>8. CASE KeySlash \/ KeyBackspace \/ KeyTab \/ KeyNo \/ KeyQ \/ KeyR \/ CtrlC
           \/ (\E w \in Words : KeyWord(w)) \/ (\E d \in {-1, 1} : KeyUpDown(d)) \/ Polls \/ Host
           \/ (\E i \in DOMAIN workers : Works(i)) \/ UNCHANGED panelVars
  BY <1>1, <1>8 DEF KeySlash, KeyBackspace, KeyTab, KeyNo, KeyQ, KeyR, CtrlC, KeyWord, KeyUpDown,
                Polls, Tick, Change, Observe, Reading, Host, ProxyReturns, ProxyOver, Signal,
                PanelOver, supervise, Works, panelVars, actVars
<1> QED BY <1>3, <1>4, <1>5, <1>6, <1>7, <1>8 DEF PanelNext, Keys

\* The view (renderView): as high as the terminal in every mode; the end of an
\* output can be reached, and no line of it is between two pages.
THEOREM ScreenIsTrue == PanelSpec => []ScreenTrue
<1>1. PanelInit => ResultOK
  <2> SUFFICES ASSUME PanelInit PROVE ResultOK
    OBVIOUS
  <2>1. PICK h \in Heights : result = [lines |-> -1, top |-> 0, height |-> h]
    BY DEF PanelInit, At
  <2>2. h \in Nat
    BY PanelAssumption
  <2> QED BY <2>1, <2>2 DEF ResultOK
<1>2. PanelInit => AskInv
  BY AskStart DEF PanelInit, At
<1>3. AskInv /\ [PanelNext]_panelVars => AskInv'
  BY RunsAsked, OthersAsk
<1>4. AskInv /\ ResultOK /\ [PanelNext]_panelVars => ResultOK'
  BY ResultStep
<1>5. AskInv /\ ResultOK => ScreenTrue
  <2> SUFFICES ASSUME AskInv, ResultOK, result.height >= minHeight PROVE ScreenTrue
    BY DEF ScreenTrue
  <2>1. PICK below, height, lines, top :
           /\ below = Below /\ height = result.height /\ lines = result.lines /\ top = result.top
           /\ height \in Nat /\ height >= minHeight /\ top \in Nat
           /\ lines \in Int /\ (lines >= 0 => lines \in Nat) /\ (~(lines >= 0) => lines = -1)
    BY DEF ResultOK
  <2>2. Fits(height, below)
    BY <2>1, BelowIs DEF Below, Fits
  <2>3. CASE lines >= 0
    <3>1. lines \in Nat
      BY <2>1, <2>3
    <3>2. OutputSeen(height, below, lines, top)
      BY <2>1, <2>2, <3>1, OutputFits
    <3> QED BY <2>1, <2>3, <3>2 DEF ScreenTrue, OutputSeen
  <2>4. CASE ~(lines >= 0)
    <3>1. \A a, p, r \in {0, 1, 5} : StreamSeen(height, below, a, p, r)
      <4> SUFFICES ASSUME NEW a \in {0, 1, 5}, NEW p \in {0, 1, 5}, NEW r \in {0, 1, 5}
                   PROVE  StreamSeen(height, below, a, p, r)
        OBVIOUS
      <4>1. a \in Nat /\ p \in Nat /\ r \in Nat
        OBVIOUS
      <4> QED BY <2>2, <4>1, StreamFits
    <3> QED BY <2>1, <2>4, <3>1 DEF ScreenTrue, StreamSeen
  <2> QED BY <2>3, <2>4
<1> QED BY <1>1, <1>2, <1>3, <1>4, <1>5, PTL DEF PanelSpec

----------------------------------------------------------------------------
(* A diagnosis.  The pool it is of is left alone from its start on; the    *)
(* configuration may be written under it.                                  *)

ExamSpec ==
    /\ pool \in [Files -> FileStates] /\ DiagInit
    /\ [][DiagNext /\ (exam.stage # "none" => UNCHANGED pool)]_examVars

Levels == {"FAIL", "UNKNOWN", "WARN", "PASS"}
Names  == {"listen-port", "credentials", "config-fields", "upstream-dns", "upstream-reach",
           "tunnel-edge-dns", "tunnel", "translator", "journal"}

\* What a level that was entered may be, and how it was come to.
Entered(i, level) ==
    /\ Checks[i] # "config-fields" =>
          /\ level \in {"UNKNOWN", Finding(Checks[i], FALSE)}
          /\ ~exam.cut /\ ~exam.cancelled => level = Finding(Checks[i], FALSE)
    /\ Checks[i] = "config-fields" =>
          level # "WARN" /\ (level = "PASS" => exam.loaded \in {"fine", "unknown"})

ExamTypes ==
    /\ exam = [stage |-> exam.stage, by |-> exam.by, loaded |-> exam.loaded, begun |-> exam.begun,
               report |-> exam.report, cancelled |-> exam.cancelled, cut |-> exam.cut,
               exit |-> exam.exit]
    /\ exam.stage \in {"none", "refused", "running", "told"} /\ exam.begun \in {"no", "live", "over"}
    /\ exam.cancelled \in BOOLEAN /\ exam.cut \in BOOLEAN /\ exam.report \in Seq(Levels)

ExamInv ==
    /\ facts \in FactSet
    /\ ExamTypes
    /\ exam.begun # "no" => exam.stage = "running" /\ Len(exam.report) < Len(Checks)
    /\ exam.begun = "over" => exam.cancelled
    /\ exam.stage = "none" => exam.report = << >>
    /\ Len(exam.report) <= Len(Checks)
    /\ \A i \in 1 .. Len(exam.report) : Entered(i, exam.report[i])
    /\ exam.cut => \E i \in 1 .. Len(exam.report) : exam.report[i] = "UNKNOWN"
    /\ exam.stage = "told" =>
          /\ Len(exam.report) = Len(Checks)
          /\ exam.exit = IF exam.by = "doctor" THEN exitForReport(exam.report) ELSE 0

\* The checks, in their order.
LEMMA ChecksAre ==
    /\ Len(Checks) = IF exam.by = "panel" THEN 9 ELSE 7
    /\ \A i \in 1 .. 7 : Checks[i] = Common[i]
    /\ Checks[1] = "listen-port" /\ Checks[2] = "credentials" /\ Checks[3] = "config-fields"
    /\ Checks[4] = "upstream-dns" /\ Checks[5] = "upstream-reach"
    /\ Checks[6] = "tunnel-edge-dns" /\ Checks[7] = "tunnel"
    /\ exam.by = "panel" => Checks[8] = "translator" /\ Checks[9] = "journal"
    /\ \A i \in 1 .. Len(Checks) : Checks[i] \in Names
<1> DEFINE more == IF exam.by = "panel" THEN <<"translator", "journal">> ELSE << >>
<1>1. /\ Common \in Seq(Names) /\ Len(Common) = 7
      /\ Common[1] = "listen-port" /\ Common[2] = "credentials" /\ Common[3] = "config-fields"
      /\ Common[4] = "upstream-dns" /\ Common[5] = "upstream-reach"
      /\ Common[6] = "tunnel-edge-dns" /\ Common[7] = "tunnel"
  BY DEF Common, Names
<1>2. /\ more \in Seq(Names) /\ Len(more) = IF exam.by = "panel" THEN 2 ELSE 0
      /\ exam.by = "panel" => more[1] = "translator" /\ more[2] = "journal"
  <2>1. CASE exam.by = "panel"
    <3>1. more = <<"translator", "journal">>
      BY <2>1
    <3> HIDE DEF more
    <3>2. <<"translator", "journal">> \in Seq(Names)
      BY DEF Names
    <3> QED BY <2>1, <3>1, <3>2
  <2>2. CASE exam.by # "panel"
    <3>1. more = << >>
      BY <2>2
    <3> HIDE DEF more
    <3> QED BY <2>2, <3>1, EmptySeq
  <2> QED BY <2>1, <2>2
<1>3. Checks = Common \o more
  BY DEF Checks
<1> HIDE DEF more
<1>4. /\ Common \o more \in Seq(Names) /\ Len(Common \o more) = 7 + Len(more)
      /\ \A i \in 1 .. 7 + Len(more) : (Common \o more)[i] = IF i <= 7 THEN Common[i] ELSE more[i - 7]
  <2> HIDE DEF Names
  <2>1. /\ Common \o more \in Seq(Names) /\ Len(Common \o more) = Len(Common) + Len(more)
        /\ \A i \in 1 .. Len(Common) + Len(more) :
              (Common \o more)[i] = IF i <= Len(Common) THEN Common[i] ELSE more[i - Len(Common)]
    BY <1>1, <1>2, ConcatProperties
  <2> QED BY <1>1, <2>1
<1>5. Checks \in Seq(Names) /\ Len(Checks) = IF exam.by = "panel" THEN 9 ELSE 7
  BY <1>2, <1>3, <1>4
<1>6. \A i \in 1 .. 7 : Checks[i] = Common[i]
  <2> SUFFICES ASSUME NEW i \in 1 .. 7 PROVE Checks[i] = Common[i]
    OBVIOUS
  <2>1. Len(more) \in Nat
    BY <1>2
  <2>2. i \in 1 .. 7 + Len(more) /\ i <= 7
    BY <2>1
  <2> QED BY <1>3, <1>4, <2>2
<1>7. exam.by = "panel" => Checks[8] = "translator" /\ Checks[9] = "journal"
  <2> SUFFICES ASSUME exam.by = "panel" PROVE Checks[8] = "translator" /\ Checks[9] = "journal"
    OBVIOUS
  <2>1. Len(more) = 2
    BY <1>2
  <2>2. PICK whole : whole = Common \o more
    OBVIOUS
  <2>3. PICK n \in Nat : n = 7 + Len(more)
    BY <2>1
  <2>4. \A i \in 1 .. n : whole[i] = IF i <= 7 THEN Common[i] ELSE more[i - 7]
    <3> HIDE DEF more
    <3> QED BY <1>4, <2>2, <2>3
  <2>5. n = 9
    BY <2>1, <2>3
  <2>6. whole[8] = more[1] /\ whole[9] = more[2]
    BY <2>4, <2>5
  <2> QED BY <1>2, <1>3, <2>2, <2>6
<1>8. \A i \in 1 .. Len(Checks) : Checks[i] \in Names
  BY <1>5
<1> QED BY <1>1, <1>5, <1>6, <1>7, <1>8

\* There are so many.
LEMMA HowMany == Len(Checks) \in Nat
  BY ChecksAre

\* The verdict: nothing is broken or left open, or one of the two.
LEMMA WorstIs ==
    ASSUME NEW report \in Seq(Levels)
    PROVE  /\ Worst(report) \in Levels
           /\ Worst(report) \in {"FAIL", "UNKNOWN"} <=>
                 \E i \in 1 .. Len(report) : report[i] \in {"FAIL", "UNKNOWN"}
<1> DEFINE levels == ToSet(report) \cup {"PASS"}
           First(i) == /\ LevelsBySeverity[i] \in levels
                       /\ \A j \in 1 .. i - 1 : LevelsBySeverity[j] \notin levels
<1>1. \A l : l \in levels <=> l = "PASS" \/ \E i \in 1 .. Len(report) : report[i] = l
  <2>1. DOMAIN report = 1 .. Len(report)
    BY LenProperties
  <2> QED BY <2>1 DEF ToSet
<1>2. /\ DOMAIN LevelsBySeverity = 1 .. 4
      /\ LevelsBySeverity[1] = "FAIL" /\ LevelsBySeverity[2] = "UNKNOWN"
      /\ LevelsBySeverity[3] = "WARN" /\ LevelsBySeverity[4] = "PASS"
  BY DEF LevelsBySeverity
<1> DEFINE k == CHOOSE i \in 1 .. 4 : First(i)
<1>3. Worst(report) = LevelsBySeverity[k]
  BY <1>2 DEF Worst
<1> HIDE DEF levels
<1>4. /\ First(1) <=> "FAIL" \in levels
      /\ First(2) <=> "UNKNOWN" \in levels /\ "FAIL" \notin levels
      /\ First(3) <=> "WARN" \in levels /\ "UNKNOWN" \notin levels /\ "FAIL" \notin levels
      /\ First(4) <=> "PASS" \in levels /\ "WARN" \notin levels /\ "UNKNOWN" \notin levels
                         /\ "FAIL" \notin levels
  <2>1. /\ \A j \in 1 .. 1 - 1 : FALSE
        /\ \A j : j \in 1 .. 2 - 1 <=> j = 1
        /\ \A j : j \in 1 .. 3 - 1 <=> j = 1 \/ j = 2
        /\ \A j : j \in 1 .. 4 - 1 <=> j = 1 \/ j = 2 \/ j = 3
    OBVIOUS
  <2> QED BY <1>2, <2>1
<1>5. "PASS" \in levels
  BY <1>1
<1> HIDE DEF First
<1>6. \E i \in 1 .. 4 : First(i)
  BY <1>4, <1>5
<1>7. k \in 1 .. 4 /\ First(k)
  BY <1>6
<1> HIDE DEF k
<1>8. Worst(report) \in Levels /\ (Worst(report) \in {"FAIL", "UNKNOWN"} <=>
                                     "FAIL" \in levels \/ "UNKNOWN" \in levels)
  <2>1. k = 1 \/ k = 2 \/ k = 3 \/ k = 4
    BY <1>7
  <2> QED BY <1>2, <1>3, <1>4, <1>7, <2>1 DEF Levels
<1> QED BY <1>1, <1>8

\* A check that has the time comes to a level; one that has not leaves the
\* question open, or had none.
LEMMA FindingLevels ==
    ASSUME facts \in FactSet, NEW name \in Names
    PROVE  /\ Finding(name, FALSE) \in Levels
           /\ name # "config-fields" => Finding(name, TRUE) \in {"UNKNOWN", Finding(name, FALSE)}
           /\ name = "config-fields" => /\ Finding(name, TRUE) = Finding(name, FALSE)
                                        /\ Finding(name, FALSE) # "WARN"
                                        /\ Finding(name, FALSE) = "PASS" => exam.loaded \in {"fine", "unknown"}
<1>1. CASE name = "listen-port"
  BY <1>1 DEF Finding, checkListenPort, Levels
<1>2. CASE name = "credentials"
  BY <1>2 DEF Finding, checkCredentials, Levels
<1>3. CASE name = "config-fields"
  BY <1>3 DEF Finding, checkConfigFields, Levels
<1>4. CASE name = "upstream-dns"
  BY <1>4 DEF Finding, checkUpstreamDNS, Levels
<1>5. CASE name = "upstream-reach"
  BY <1>5 DEF Finding, checkUpstreamReach, Levels
<1>6. ReadConfig \in {"none", "found", "error"}
  BY DEF ReadConfig, FactSet
<1>7. CASE name = "tunnel-edge-dns"
  <2>1. \A over \in BOOLEAN :
           checkTunnelEdgeDNS(over) \in Levels
    BY <1>6 DEF checkTunnelEdgeDNS, Levels
  <2>2. checkTunnelEdgeDNS(TRUE) \in {"UNKNOWN", checkTunnelEdgeDNS(FALSE)}
    BY <1>6 DEF checkTunnelEdgeDNS
  <2> QED BY <1>7, <2>1, <2>2 DEF Finding
<1>8. CASE name = "tunnel"
  BY <1>6, <1>8 DEF Finding, checkTunnel, levelForConnectors, Levels
<1>9. CASE name = "translator"
  BY <1>9 DEF Finding, checkTranslator, Levels
<1>10. CASE name = "journal"
  BY <1>10 DEF Finding, checkJournal, Levels, FactSet
<1> QED BY <1>1, <1>2, <1>3, <1>4, <1>5, <1>7, <1>8, <1>9, <1>10 DEF Names

\* What the checks that look outside come to, if they have the time.
LEMMA HealthIsFound ==
    ASSUME facts \in FactSet
    PROVE  LET Well(name) == Finding(name, FALSE) \in {"PASS", "WARN"}
           IN /\ /\ Well("listen-port") /\ Well("credentials") /\ Well("upstream-dns")
                 /\ Well("upstream-reach") /\ Well("tunnel-edge-dns") /\ Well("tunnel")
                 => Healthy
              /\ Healthy /\ exam.loaded = "fine" =>
                 /\ Well("listen-port") /\ Well("credentials") /\ Well("upstream-dns")
                 /\ Well("upstream-reach") /\ Well("tunnel-edge-dns") /\ Well("tunnel")
<1> DEFINE Well(name) == Finding(name, FALSE) \in {"PASS", "WARN"}
<1>1. /\ Well("listen-port") => facts.port \in {"free", "slimproxy"}
      /\ exam.loaded = "fine" /\ facts.port \in {"free", "slimproxy"} => Well("listen-port")
  BY DEF Finding, checkListenPort
<1>2. Well("credentials") <=>
        /\ facts.dir = "listed"
        /\ \E f \in Files : pool[f].form \in {"good", "mistyped"} /\ ~pool[f].disabled
  <2> DEFINE ok == {f \in List(pool) : pool[f].form \in {"good", "mistyped"} /\ ~pool[f].disabled}
  <2>1. ok # {} <=> \E f \in Files : pool[f].form \in {"good", "mistyped"} /\ ~pool[f].disabled
    BY DEF List
  <2>2. Well("credentials") <=> facts.dir \notin {"unresolved", "unreadable", "absent"} /\ ok # {}
    BY DEF Finding, checkCredentials
  <2>3. facts.dir \in {"listed", "unresolved", "unreadable", "absent"}
    BY DEF FactSet
  <2> HIDE DEF ok
  <2> QED BY <2>1, <2>2, <2>3
<1>3. Well("upstream-dns") <=> facts.dns \in {"fake", "real"}
  BY DEF Finding, checkUpstreamDNS, FactSet
<1>4. Well("upstream-reach") <=> facts.dns \in {"fake", "real"} /\ facts.reach = "connects"
  BY DEF Finding, checkUpstreamReach, FactSet
<1>5. /\ ReadConfig \in {"none", "found", "error"}
      /\ ReadConfig = "none" <=> facts.tunnel = "absent"
      /\ ReadConfig = "found" <=> facts.tunnel = "named"
  BY DEF ReadConfig, FactSet
<1>6. Well("tunnel-edge-dns") <=>
        \/ facts.tunnel = "absent"
        \/ facts.tunnel = "named" /\ \E h \in Edges : facts.edge[h] \in {"fake", "real"}
  <2>1. Well("tunnel-edge-dns") <=> checkTunnelEdgeDNS(FALSE) \in {"PASS", "WARN"}
    BY DEF Finding
  <2>2. CASE ReadConfig = "found"
    BY <1>5, <2>1, <2>2 DEF checkTunnelEdgeDNS
  <2>3. CASE ReadConfig # "found"
    BY <1>5, <2>1, <2>3 DEF checkTunnelEdgeDNS
  <2> QED BY <2>2, <2>3
<1>7. Well("tunnel") <=>
        \/ facts.tunnel = "absent"
        \/ /\ facts.tunnel = "named" /\ facts.info.answer = "table" /\ -1 \notin ToSet(facts.info.rows)
           /\ \E i \in DOMAIN facts.info.rows : facts.info.rows[i] > 0
  <2> DEFINE info   == facts.info
             some   == \E i \in DOMAIN info.rows : info.rows[i] > 0
             whole  == -1 \notin ToSet(info.rows)
             parsed == info.answer = "idle" \/ (info.answer = "table" /\ whole)
  <2>1. /\ ParseTunnelInfo(info).parsed = parsed
        /\ ParseTunnelInfo(info).some = (parsed /\ info.answer = "table" /\ some)
    BY DEF ParseTunnelInfo
  <2>2. Well("tunnel") <=> checkTunnel(FALSE) \in {"PASS", "WARN"}
    BY DEF Finding
  <2> HIDE DEF some, whole
  <2>3. CASE ReadConfig = "found"
    <3>1. info.answer \in {"missing", "nonesuch", "fails", "foreign", "idle", "table"}
      BY DEF FactSet
    <3>2. CASE info.answer = "table"
      <4>1. checkTunnel(FALSE) \in {"PASS", "WARN"} <=> whole /\ some
        BY <2>1, <2>3, <3>2 DEF checkTunnel, levelForConnectors
      <4> QED BY <1>5, <2>2, <2>3, <3>2, <4>1 DEF whole, some
    <3>3. CASE info.answer # "table"
      <4>1. checkTunnel(FALSE) \notin {"PASS", "WARN"}
        BY <2>1, <2>3, <3>1, <3>3 DEF checkTunnel, levelForConnectors
      <4> QED BY <1>5, <2>2, <2>3, <3>3, <4>1
    <3> QED BY <3>2, <3>3
  <2>4. CASE ReadConfig # "found"
    BY <1>5, <2>2, <2>4 DEF checkTunnel
  <2> QED BY <2>3, <2>4
<1> HIDE DEF Well
<1> QED BY <1>1, <1>2, <1>3, <1>4, <1>6, <1>7 DEF Healthy, Well

\* No check but that of the configuration itself looks at what may be written
\* under a diagnosis.
LEMMA FindingStill ==
    ASSUME facts \in FactSet, NEW kind, facts' = facts \/ facts' = [facts EXCEPT !.config = kind],
           pool' = pool, exam.loaded' = exam.loaded, NEW name \in Names, name # "config-fields"
    PROVE  Finding(name, FALSE)' = Finding(name, FALSE)
<1>1. /\ facts'.port = facts.port /\ facts'.dir = facts.dir /\ facts'.dns = facts.dns
      /\ facts'.proxied = facts.proxied /\ facts'.reach = facts.reach /\ facts'.tunnel = facts.tunnel
      /\ facts'.edge = facts.edge /\ facts'.info = facts.info
      /\ facts'.untranslated = facts.untranslated /\ facts'.journal = facts.journal
  BY DEF FactSet
<1>2. ReadConfig' = ReadConfig
  BY <1>1 DEF ReadConfig
<1>3. /\ checkListenPort(FALSE)' = checkListenPort(FALSE) /\ checkCredentials' = checkCredentials
      /\ checkUpstreamDNS(FALSE)' = checkUpstreamDNS(FALSE)
      /\ checkUpstreamReach(FALSE)' = checkUpstreamReach(FALSE)
      /\ checkTranslator' = checkTranslator /\ checkJournal' = checkJournal
  BY <1>1 DEF checkListenPort, checkCredentials, checkUpstreamDNS, checkUpstreamReach,
              checkTranslator, checkJournal
<1>4. checkTunnelEdgeDNS(FALSE)' = checkTunnelEdgeDNS(FALSE)
  BY <1>1, <1>2 DEF checkTunnelEdgeDNS
<1>5. checkTunnel(FALSE)' = checkTunnel(FALSE)
  BY <1>1, <1>2 DEF checkTunnel
<1> QED BY <1>3, <1>4, <1>5 DEF Finding, Names

\* The facts remain what facts may be.
LEMMA FactsStay ==
    ASSUME facts \in FactSet, NEW kind \in FileKinds, facts' = [facts EXCEPT !.config = kind]
    PROVE  facts' \in FactSet
  BY DEF FactSet

\* What was entered stays entered.
LEMMA EnteredStill ==
    ASSUME ExamInv, NEW kind, facts' = facts \/ facts' = [facts EXCEPT !.config = kind],
           pool' = pool, exam.loaded' = exam.loaded, exam.by' = exam.by,
           exam.cut => exam.cut', exam.cancelled => exam.cancelled',
           NEW i \in 1 .. Len(Checks), NEW level, Entered(i, level)
    PROVE  Checks' = Checks /\ Entered(i, level)'
<1>1. Checks' = Checks
  BY DEF Checks
<1>2. Checks[i] \in Names
  BY ChecksAre
<1>3. Checks[i] # "config-fields" => Finding(Checks[i], FALSE)' = Finding(Checks[i], FALSE)
  <2> SUFFICES ASSUME Checks[i] # "config-fields"
               PROVE  Finding(Checks[i], FALSE)' = Finding(Checks[i], FALSE)
    OBVIOUS
  <2>1. PICK name \in Names : name = Checks[i]
    BY <1>2
  <2>2. facts \in FactSet
    BY DEF ExamInv
  <2>3. Finding(name, FALSE)' = Finding(name, FALSE)
    BY <2>1, <2>2, FindingStill
  <2> QED BY <1>1, <2>1, <2>3
<1> QED BY <1>1, <1>3 DEF Entered

\* A step that leaves the report as it is, and neither begins nor ends the diagnosis.
LEMMA ExamStays ==
    ASSUME ExamInv, NEW kind \in FileKinds, facts' = facts \/ facts' = [facts EXCEPT !.config = kind],
           exam.stage # "none" => pool' = pool,
           exam' = exam \/ exam' = [exam EXCEPT !.cancelled = TRUE]
    PROVE  ExamInv'
<1>1. facts' \in FactSet
  BY FactsStay DEF ExamInv
<1>2. /\ ExamTypes' /\ exam'.stage = exam.stage /\ exam'.by = exam.by /\ exam'.loaded = exam.loaded
      /\ exam'.begun = exam.begun /\ exam'.report = exam.report /\ exam'.cut = exam.cut
      /\ exam'.exit = exam.exit /\ (exam.cancelled => exam'.cancelled)
  BY DEF ExamInv, ExamTypes
<1>3. Checks' = Checks
  BY <1>2 DEF Checks
<1>4. Len(exam.report) \in Nat /\ Len(Checks) \in Nat /\ Len(exam.report) <= Len(Checks)
  BY ChecksAre, LenProperties DEF ExamInv, ExamTypes
<1>5. \A i \in 1 .. Len(exam.report) : Entered(i, exam.report[i])'
  <2> SUFFICES ASSUME NEW i \in 1 .. Len(exam.report)
               PROVE  Entered(i, exam.report[i])'
    OBVIOUS
  <2>1. PICK level : level = exam.report[i]
    OBVIOUS
  <2>2. i \in 1 .. Len(Checks) /\ Entered(i, level) /\ exam.stage # "none"
    <3>1. exam.stage = "none" => Len(exam.report) = 0
      BY EmptySeq DEF ExamInv
    <3> QED BY <1>4, <2>1, <3>1 DEF ExamInv
  <2>3. Entered(i, level)'
    BY <1>2, <2>2, EnteredStill
  <2> QED BY <1>2, <2>1, <2>3
<1> QED BY <1>1, <1>2, <1>3, <1>5 DEF ExamInv, exitForReport

\* As many of one thing.
LEMMA AllAlike ==
    ASSUME NEW S, NEW k \in Nat, NEW blank \in S, NEW rest, rest = [i \in 1 .. k |-> blank]
    PROVE  rest \in Seq(S) /\ Len(rest) = k /\ \A i \in 1 .. k : rest[i] = blank
<1>1. rest \in [1 .. k -> S] /\ \A i \in 1 .. k : rest[i] = blank
  OBVIOUS
<1>2. rest \in Seq(S)
  BY <1>1, SeqDef
<1>3. Len(rest) = k
  BY <1>1, <1>2, LenProperties
<1> QED BY <1>1, <1>2, <1>3

\* A report filled up to its length.
LEMMA FilledUp ==
    ASSUME NEW S, NEW done \in Seq(S), NEW blank \in S, NEW n \in Nat, NEW m \in Nat, n <= m,
           Len(done) = n, NEW rest \in Seq(S), Len(rest) = m - n, \A i \in 1 .. m - n : rest[i] = blank
    PROVE  /\ done \o rest \in Seq(S) /\ Len(done \o rest) = m
           /\ \A i \in 1 .. n : (done \o rest)[i] = done[i]
           /\ \A i \in n + 1 .. m : (done \o rest)[i] = blank
<1>1. PICK k \in Nat : k = m - n
  OBVIOUS
<1>2. PICK whole : whole = done \o rest
  OBVIOUS
<1>3. /\ whole \in Seq(S) /\ Len(whole) = n + k
      /\ \A i \in 1 .. n + k : whole[i] = IF i <= n THEN done[i] ELSE rest[i - n]
  <2>1. /\ done \o rest \in Seq(S) /\ Len(done \o rest) = Len(done) + Len(rest)
        /\ \A i \in 1 .. Len(done) + Len(rest) :
              (done \o rest)[i] = IF i <= Len(done) THEN done[i] ELSE rest[i - Len(done)]
    BY ConcatProperties
  <2>2. Len(done) = n /\ Len(rest) = k
    BY <1>1
  <2> QED BY <1>2, <2>1, <2>2
<1>4. n + k = m
  BY <1>1
<1>5. \A i \in 1 .. n : i \in 1 .. n + k /\ i <= n
  BY <1>1
<1>6. \A i \in n + 1 .. m : i \in 1 .. n + k /\ ~(i <= n) /\ i - n \in 1 .. k
  BY <1>1
<1>7. /\ \A i \in 1 .. n : whole[i] = done[i]
      /\ \A i \in n + 1 .. m : whole[i] = blank
  BY <1>1, <1>3, <1>5, <1>6
<1> QED BY <1>2, <1>3, <1>4, <1>7

\* The level of the check at hand is entered, and an open question for each of
\* the rest if the diagnosis was interrupted.
LEMMA EnterKeeps ==
    ASSUME ExamInv, NEW level \in Levels, NEW cut \in BOOLEAN, exam.begun # "no", Enter(level, cut),
           pool' = pool, cut => level = "UNKNOWN",
           NEW name \in Names, name = Checks[Len(exam.report) + 1],
           name # "config-fields" =>
              /\ level \in {"UNKNOWN", Finding(name, FALSE)}
              /\ ~cut /\ ~exam.cancelled => level = Finding(name, FALSE),
           name = "config-fields" =>
              level # "WARN" /\ (level = "PASS" => exam.loaded \in {"fine", "unknown"})
    PROVE  ExamInv'
<1> DEFINE n    == Len(exam.report)
           m    == Len(Checks)
           done == Append(exam.report, level)
           rest == [i \in 1 .. m - Len(done) |-> "UNKNOWN"]
<1>1. exam.report \in Seq(Levels) /\ n \in Nat /\ m \in Nat /\ n < m /\ exam.stage = "running"
  BY ChecksAre, LenProperties DEF ExamInv, ExamTypes
<1>2. /\ done \in Seq(Levels) /\ Len(done) = n + 1
      /\ \A i \in 1 .. n : done[i] = exam.report[i]
      /\ done[n + 1] = level
  BY <1>1, AppendProperties
<1>4. /\ exam' = [exam EXCEPT !.begun = "no", !.cut = @ \/ cut,
                              !.report = IF exam.cancelled THEN done \o rest ELSE done]
      /\ facts' = facts
  BY DEF Enter
<1>5. /\ done \o rest \in Seq(Levels) /\ Len(done \o rest) = m
      /\ \A i \in 1 .. n + 1 : (done \o rest)[i] = done[i]
      /\ \A i \in n + 2 .. m : (done \o rest)[i] = "UNKNOWN"
  <2>1. Len(done) <= m /\ "UNKNOWN" \in Levels /\ n + 1 + 1 = n + 2
    BY <1>1, <1>2 DEF Levels
  <2>2. PICK d : d = done
    OBVIOUS
  <2>3. PICK k : k = m
    OBVIOUS
  <2>4. PICK c \in Nat : c = n + 1
    BY <1>1
  <2>5. d \in Seq(Levels) /\ k \in Nat /\ Len(d) = c /\ c <= k /\ c + 1 = n + 2
    BY <1>1, <1>2, <2>1, <2>2, <2>3, <2>4
  <2>6. PICK r : r = [i \in 1 .. k - c |-> "UNKNOWN"]
    OBVIOUS
  <2>7. k - c \in Nat
    BY <2>5
  <2>8. r \in Seq(Levels) /\ Len(r) = k - c /\ \A i \in 1 .. k - c : r[i] = "UNKNOWN"
    BY <2>1, <2>6, <2>7, AllAlike
  <2>9. /\ d \o r \in Seq(Levels) /\ Len(d \o r) = k
        /\ \A i \in 1 .. c : (d \o r)[i] = d[i]
        /\ \A i \in c + 1 .. k : (d \o r)[i] = "UNKNOWN"
    <3> HIDE DEF done, n, m
    <3> QED BY <2>1, <2>5, <2>8, FilledUp
  <2>10. r = rest
    BY <2>2, <2>3, <2>5, <2>6
  <2> HIDE DEF done, n, m, rest
  <2> QED BY <2>2, <2>3, <2>4, <2>5, <2>9, <2>10
<1> HIDE DEF done, rest
<1>0. PICK report : report = IF exam.cancelled THEN done \o rest ELSE done
  OBVIOUS
<1>6. /\ report \in Seq(Levels) /\ Len(report) = IF exam.cancelled THEN m ELSE n + 1
      /\ \A i \in 1 .. n : report[i] = exam.report[i]
      /\ report[n + 1] = level
      /\ \A i \in n + 2 .. m : exam.cancelled => report[i] = "UNKNOWN"
  <2>1. CASE ~exam.cancelled
    BY <1>0, <1>1, <1>2, <2>1
  <2>2. CASE exam.cancelled
    <3>1. report = done \o rest
      BY <1>0, <2>2
    <3>2. \A i \in 1 .. n : i \in 1 .. n + 1
      BY <1>1
    <3>3. n + 1 \in 1 .. n + 1
      BY <1>1
    <3> QED BY <1>2, <1>5, <2>2, <3>1, <3>2, <3>3
  <2> QED BY <2>1, <2>2
<1>7. /\ ExamTypes' /\ exam'.stage = exam.stage /\ exam'.by = exam.by /\ exam'.loaded = exam.loaded
      /\ exam'.begun = "no" /\ exam'.report = report /\ exam'.cut = (exam.cut \/ cut)
      /\ exam'.cancelled = exam.cancelled
  <2> HIDE DEF n, m
  <2>1. exam' = [exam EXCEPT !.begun = "no", !.cut = @ \/ cut, !.report = report]
    BY <1>0, <1>4
  <2> QED BY <1>6, <2>1 DEF ExamInv, ExamTypes
<1>8. Checks' = Checks
  BY <1>7 DEF Checks
<1>9. \A i \in 1 .. Len(report) : Entered(i, report[i])'
  <2> SUFFICES ASSUME NEW i \in 1 .. Len(report)
               PROVE  Entered(i, report[i])'
    OBVIOUS
  <2>1. PICK l : l = report[i]
    OBVIOUS
  <2>2. i \in 1 .. m /\ (i \in 1 .. n \/ i = n + 1 \/ (i \in n + 2 .. m /\ exam.cancelled))
    BY <1>1, <1>6
  <2>3. CASE i \in 1 .. n
    <3>1. Entered(i, l)
      BY <1>6, <2>1, <2>3 DEF ExamInv
    <3>2. Entered(i, l)'
      BY <1>4, <1>7, <2>2, <3>1, EnteredStill
    <3> QED BY <2>1, <3>2
  <2>4. CASE i = n + 1
    <3>1. l = level /\ Checks[i] = name /\ Checks[i]' = name
      BY <1>6, <1>8, <2>1, <2>4
    <3>2. name # "config-fields" => Finding(name, FALSE)' = Finding(name, FALSE)
      BY <1>4, <1>7, FindingStill DEF ExamInv
    <3>3. Entered(i, l)'
      BY <1>7, <3>1, <3>2 DEF Entered
    <3> QED BY <2>1, <3>3
  <2>5. CASE i \in n + 2 .. m /\ exam.cancelled
    <3>1. l = "UNKNOWN"
      BY <1>6, <2>1, <2>5
    <3>2. Entered(i, l)'
      BY <1>7, <2>5, <3>1 DEF Entered
    <3> QED BY <2>1, <3>2
  <2> QED BY <2>2, <2>3, <2>4, <2>5
<1>10. exam.cut \/ cut => \E i \in 1 .. Len(report) : report[i] = "UNKNOWN"
  <2>1. n + 1 <= Len(report)
    BY <1>1, <1>6
  <2>2. ASSUME cut PROVE \E i \in 1 .. Len(report) : report[i] = "UNKNOWN"
    <3>1. n + 1 \in 1 .. Len(report) /\ report[n + 1] = "UNKNOWN"
      BY <1>1, <1>6, <2>1, <2>2
    <3> QED BY <3>1
  <2>3. ASSUME exam.cut PROVE \E i \in 1 .. Len(report) : report[i] = "UNKNOWN"
    <3>1. PICK i \in 1 .. n : exam.report[i] = "UNKNOWN"
      BY <2>3 DEF ExamInv
    <3>2. i \in 1 .. Len(report) /\ report[i] = "UNKNOWN"
      BY <1>1, <1>6, <2>1, <3>1
    <3> QED BY <3>2
  <2> QED BY <2>2, <2>3
<1>11. Len(report) <= m
  BY <1>1, <1>6
<1>12. facts' \in FactSet
  BY <1>4 DEF ExamInv
<1>13. /\ \A i \in 1 .. Len(exam'.report) : Entered(i, exam.report[i])'
       /\ exam'.cut => \E i \in 1 .. Len(exam'.report) : exam'.report[i] = "UNKNOWN"
       /\ Len(exam'.report) <= Len(Checks)
  BY <1>7, <1>9, <1>10, <1>11
<1> HIDE DEF n, m
<1> QED BY <1>1, <1>7, <1>8, <1>12, <1>13 DEF ExamInv

\* Every step keeps it.
LEMMA ExamStep ==
    ASSUME ExamInv, [DiagNext /\ (exam.stage # "none" => UNCHANGED pool)]_examVars
    PROVE  ExamInv'
<1>1. CASE UNCHANGED examVars
  <2>1. "fine" \in FileKinds /\ facts' = facts /\ pool' = pool /\ exam' = exam
    BY <1>1 DEF examVars, poolVars, FileKinds
  <2> QED BY <2>1, ExamStays
<1> SUFFICES ASSUME DiagNext, exam.stage # "none" => UNCHANGED pool
             PROVE  ExamInv'
  BY <1>1
<1>2. CASE \/ PoolNext /\ UNCHANGED <<facts, exam, log>>
           \/ (\E line \in LogLines : LogGrows(line)) \/ ChildDies
  <2>1. "fine" \in FileKinds /\ facts' = facts /\ exam' = exam
    BY <1>2 DEF LogGrows, ChildDies, FileKinds
  <2> QED BY <2>1, ExamStays
<1>3. CASE \E kind \in FileKinds : Rewritten(kind)
  <2>1. PICK kind \in FileKinds : facts' = [facts EXCEPT !.config = kind] /\ exam' = exam
    BY <1>3 DEF Rewritten
  <2> QED BY <2>1, ExamStays
<1>4. CASE Cancel
  <2>1. "fine" \in FileKinds /\ facts' = facts /\ exam' = [exam EXCEPT !.cancelled = TRUE]
    BY <1>4 DEF Cancel, FileKinds
  <2> QED BY <2>1, ExamStays
<1>5. CASE \E by \in {"status", "doctor", "panel"} : Load(by)
  <2>1. PICK by \in {"status", "doctor", "panel"} : Load(by)
    BY <1>5
  <2>2. /\ ExamTypes' /\ exam'.report = << >> /\ exam'.begun = "no" /\ exam'.stage # "told"
        /\ exam'.cut = FALSE
    BY <2>1, EmptySeq DEF Load, Unasked, ExamTypes
  <2>3. Len(exam'.report) = 0 /\ Len(Checks') \in Nat /\ facts' = facts
    <3>1. (Len(Checks) \in Nat)'
      BY HowMany, PTL
    <3> QED BY <2>1, <2>2, <3>1, EmptySeq DEF Load
  <2> QED BY <2>2, <2>3 DEF ExamInv
<1>6. CASE Begin
  <2>1. /\ exam' = [exam EXCEPT !.begun = IF exam.cancelled THEN "over" ELSE "live"]
        /\ facts' = facts /\ pool' = pool /\ exam.stage = "running" /\ Len(exam.report) < Len(Checks)
    BY <1>6 DEF Begin, poolVars
  <2>2. /\ ExamTypes' /\ exam'.stage = exam.stage /\ exam'.by = exam.by /\ exam'.loaded = exam.loaded
        /\ exam'.report = exam.report /\ exam'.cut = exam.cut /\ exam'.cancelled = exam.cancelled
        /\ (exam'.begun = "over" => exam.cancelled)
    BY <2>1 DEF ExamInv, ExamTypes
  <2>3. Checks' = Checks
    BY <2>2 DEF Checks
  <2>4. \A i \in 1 .. Len(exam.report) : Entered(i, exam.report[i])'
    <3> SUFFICES ASSUME NEW i \in 1 .. Len(exam.report)
                 PROVE  Entered(i, exam.report[i])'
      OBVIOUS
    <3>1. PICK level : level = exam.report[i]
      OBVIOUS
    <3>2. i \in 1 .. Len(Checks) /\ Entered(i, level)
      BY <2>1, <3>1, ChecksAre, LenProperties DEF ExamInv, ExamTypes
    <3>3. Entered(i, level)'
      BY <2>1, <2>2, <3>2, EnteredStill
    <3> QED BY <2>2, <3>1, <3>3
  <2> QED BY <2>1, <2>2, <2>3, <2>4 DEF ExamInv
<1>7. CASE Conclude \/ Overrun
  <2>1. PICK name : name = Checks[Len(exam.report) + 1]
    OBVIOUS
  <2>2. exam.begun # "no" /\ name \in Names
    <3>1. exam.begun # "no"
      BY <1>7 DEF Conclude, Overrun
    <3>2. Len(exam.report) + 1 \in 1 .. Len(Checks)
      BY <3>1, ChecksAre, LenProperties DEF ExamInv, ExamTypes
    <3> QED BY <2>1, <3>1, <3>2, ChecksAre
  <2>3. pool' = pool
    BY <1>7 DEF Conclude, Overrun, Enter, poolVars
  <2>4. CASE Conclude
    <3>1. PICK level : level = Finding(name, exam.begun = "over")
      OBVIOUS
    <3>2. Enter(level, FALSE)
      BY <2>1, <2>4, <3>1 DEF Conclude
    <3>3. level = IF exam.begun = "over" THEN Finding(name, TRUE) ELSE Finding(name, FALSE)
      <4>1. CASE exam.begun = "over"
        <5>1. (exam.begun = "over") = TRUE
          BY <4>1
        <5> QED BY <3>1, <4>1, <5>1
      <4>2. CASE exam.begun # "over"
        <5>1. (exam.begun = "over") = FALSE
          BY <4>2
        <5> QED BY <3>1, <4>2, <5>1
      <4> QED BY <4>1, <4>2
    <3>4. /\ facts \in FactSet
          /\ exam.begun = "over" => exam.cancelled
      BY DEF ExamInv
    <3>5. /\ Finding(name, FALSE) \in Levels
          /\ name # "config-fields" => Finding(name, TRUE) \in {"UNKNOWN", Finding(name, FALSE)}
          /\ name = "config-fields" => /\ Finding(name, TRUE) = Finding(name, FALSE)
                                       /\ Finding(name, FALSE) # "WARN"
                                       /\ Finding(name, FALSE) = "PASS" => exam.loaded \in {"fine", "unknown"}
      BY <2>2, <3>4, FindingLevels
    <3>6. /\ level \in Levels
          /\ name # "config-fields" =>
                /\ level \in {"UNKNOWN", Finding(name, FALSE)}
                /\ ~FALSE /\ ~exam.cancelled => level = Finding(name, FALSE)
          /\ name = "config-fields" =>
                level # "WARN" /\ (level = "PASS" => exam.loaded \in {"fine", "unknown"})
      BY <3>3, <3>4, <3>5 DEF Levels
    <3> QED BY <2>1, <2>2, <2>3, <3>2, <3>6, EnterKeeps
  <2>5. CASE Overrun
    <3>1. PICK level \in Levels : level = "UNKNOWN"
      BY DEF Levels
    <3>2. PICK cut \in BOOLEAN : cut
      OBVIOUS
    <3>3. Enter(level, cut)
      <4>1. cut = TRUE
        BY <3>2
      <4> QED BY <2>5, <3>1, <4>1 DEF Overrun
    <3> QED BY <2>1, <2>2, <2>3, <3>1, <3>2, <3>3, EnterKeeps
  <2> QED BY <1>7, <2>4, <2>5
<1>8. CASE Tell
  <2>1. /\ exam' = [exam EXCEPT !.stage = "told",
                                !.exit = IF exam.by = "doctor" THEN exitForReport(exam.report) ELSE 0]
        /\ facts' = facts /\ pool' = pool /\ exam.stage = "running" /\ exam.begun = "no"
        /\ Len(exam.report) = Len(Checks)
    BY <1>8 DEF Tell, poolVars
  <2>2. /\ ExamTypes' /\ exam'.stage = "told" /\ exam'.by = exam.by /\ exam'.loaded = exam.loaded
        /\ exam'.begun = exam.begun
        /\ exam'.report = exam.report /\ exam'.cut = exam.cut /\ exam'.cancelled = exam.cancelled
        /\ exam'.exit = IF exam.by = "doctor" THEN exitForReport(exam.report) ELSE 0
    BY <2>1 DEF ExamInv, ExamTypes
  <2>3. Checks' = Checks
    BY <2>2 DEF Checks
  <2>4. \A i \in 1 .. Len(exam.report) : Entered(i, exam.report[i])'
    <3> SUFFICES ASSUME NEW i \in 1 .. Len(exam.report)
                 PROVE  Entered(i, exam.report[i])'
      OBVIOUS
    <3>1. PICK level : level = exam.report[i]
      OBVIOUS
    <3>2. i \in 1 .. Len(Checks) /\ Entered(i, level)
      BY <2>1, <3>1 DEF ExamInv
    <3>3. Entered(i, level)'
      BY <2>1, <2>2, <3>2, EnteredStill
    <3> QED BY <2>2, <3>1, <3>3
  <2> QED BY <2>1, <2>2, <2>3, <2>4 DEF ExamInv, exitForReport
<1> QED BY <1>2, <1>3, <1>4, <1>5, <1>6, <1>7, <1>8 DEF DiagNext

\* Of a report on which nothing is broken or left open, each level is a good one.
LEMMA VerdictIs ==
    ASSUME exam.report \in Seq(Levels)
    PROVE  /\ exitForReport(exam.report) \in {0, 1}
           /\ exitForReport(exam.report) = 0 <=>
                 \A i \in 1 .. Len(exam.report) : exam.report[i] \in {"PASS", "WARN"}
           /\ exitForReport(exam.report) = 0 <=> Worst(exam.report) \in {"PASS", "WARN"}
<1>1. \A i \in 1 .. Len(exam.report) : exam.report[i] \in Levels
  BY ElementOfSeq
<1>2. /\ Worst(exam.report) \in Levels
      /\ Worst(exam.report) \in {"FAIL", "UNKNOWN"} <=>
            \E i \in 1 .. Len(exam.report) : exam.report[i] \in {"FAIL", "UNKNOWN"}
  BY WorstIs
<1> QED BY <1>1, <1>2 DEF exitForReport, Levels

\* What is entered for a check is what DoctorTrue says of it.
LEMMA DoctorIsTrue == ASSUME ExamInv PROVE DoctorTrue
<1> SUFFICES ASSUME exam.stage = "told" PROVE DoctorTrue
  BY DEF DoctorTrue
<1> DEFINE Well(name) == Finding(name, FALSE) \in {"PASS", "WARN"}
           report     == exam.report
<1>1. /\ facts \in FactSet /\ report \in Seq(Levels) /\ Len(report) = Len(Checks)
      /\ exam.exit = IF exam.by = "doctor" THEN exitForReport(report) ELSE 0
      /\ exam.cut \in BOOLEAN /\ exam.cancelled \in BOOLEAN
      /\ exam.cut => \E i \in 1 .. Len(report) : report[i] = "UNKNOWN"
  BY DEF ExamInv, ExamTypes
<1>2. \/ Len(Checks) = 7 /\ exam.by # "panel"
      \/ Len(Checks) = 9 /\ exam.by = "panel"
  BY ChecksAre
<1>3. \A i \in 1 .. Len(Checks) : Entered(i, report[i])
  BY <1>1 DEF ExamInv
<1>4. /\ exitForReport(report) \in {0, 1}
      /\ exitForReport(report) = 0 <=> \A i \in 1 .. Len(report) : report[i] \in {"PASS", "WARN"}
      /\ exitForReport(report) = 0 <=> Worst(report) \in {"PASS", "WARN"}
  BY <1>1, VerdictIs
<1>5. DOMAIN report = 1 .. Len(Checks)
  BY <1>1, LenProperties
<1>6. ASSUME exam.by = "doctor", exam.exit = 0
      PROVE  Healthy /\ ~exam.cut /\ exam.loaded \in {"fine", "unknown"}
  <2>1. \A i \in 1 .. Len(Checks) : report[i] \in {"PASS", "WARN"}
    BY <1>1, <1>4, <1>6
  <2>2. ~exam.cut
    BY <1>1, <2>1
  <2>3. \A i \in 1 .. Len(Checks) : Checks[i] # "config-fields" => Well(Checks[i])
    <3> SUFFICES ASSUME NEW i \in 1 .. Len(Checks), Checks[i] # "config-fields"
                 PROVE  Well(Checks[i])
      OBVIOUS
    <3>1. report[i] \in {"UNKNOWN", Finding(Checks[i], FALSE)} /\ report[i] \in {"PASS", "WARN"}
      BY <1>3, <2>1 DEF Entered
    <3> QED BY <3>1
  <2>4. \A i \in 1 .. 7 : i \in 1 .. Len(Checks)
    <3>1. ASSUME NEW n \in {7, 9} PROVE \A i \in 1 .. 7 : i \in 1 .. n
      OBVIOUS
    <3>2. Len(Checks) \in {7, 9}
      BY <1>2
    <3> QED BY <3>1, <3>2
  <2> HIDE DEF Well
  <2>5. /\ Well("listen-port") /\ Well("credentials") /\ Well("upstream-dns")
        /\ Well("upstream-reach") /\ Well("tunnel-edge-dns") /\ Well("tunnel")
    BY <2>3, <2>4, ChecksAre
  <2>6. Healthy
    <3> USE DEF Well
    <3> QED BY <1>1, <2>5, HealthIsFound
  <2>7. exam.loaded \in {"fine", "unknown"}
    <3>1. Entered(3, report[3]) /\ report[3] \in {"PASS", "WARN"} /\ Checks[3] = "config-fields"
      BY <1>3, <2>1, <2>4, ChecksAre
    <3> QED BY <3>1 DEF Entered
  <2> QED BY <2>2, <2>6, <2>7
<1>7. ASSUME Healthy, ~Sick, ~exam.cut, ~exam.cancelled, exam.loaded = "fine", exam.report[3] = "PASS"
      PROVE  exam.exit = 0 /\ Worst(exam.report) \in {"PASS", "WARN"}
  <2>1. /\ Well("listen-port") /\ Well("credentials") /\ Well("upstream-dns")
        /\ Well("upstream-reach") /\ Well("tunnel-edge-dns") /\ Well("tunnel")
    BY <1>1, <1>7, HealthIsFound
  <2>2. exam.by = "panel" => Well("translator") /\ Well("journal")
    BY <1>1, <1>7 DEF Sick, Finding, checkTranslator, checkJournal, FactSet
  <2> HIDE DEF Well
  <2>3. \A i \in 1 .. Len(Checks) : i = 3 \/ (Well(Checks[i]) /\ Checks[i] # "config-fields")
    <3> SUFFICES ASSUME NEW i \in 1 .. Len(Checks)
                 PROVE  i = 3 \/ (Well(Checks[i]) /\ Checks[i] # "config-fields")
      OBVIOUS
    <3>1. /\ i = 1 \/ i = 2 \/ i = 3 \/ i = 4 \/ i = 5 \/ i = 6 \/ i = 7 \/ i = 8 \/ i = 9
          /\ i > 7 => exam.by = "panel"
      <4>1. ASSUME Len(Checks) = 7, exam.by # "panel"
            PROVE  i \in 1 .. 7
        BY <4>1
      <4>2. ASSUME Len(Checks) = 9, exam.by = "panel"
            PROVE  i \in 1 .. 9
        BY <4>2
      <4> QED BY <1>2, <4>1, <4>2
    <3> QED BY <2>1, <2>2, <3>1, ChecksAre
  <2>4. \A i \in 1 .. Len(Checks) : report[i] \in {"PASS", "WARN"}
    <3> SUFFICES ASSUME NEW i \in 1 .. Len(Checks), i # 3
                 PROVE  report[i] \in {"PASS", "WARN"}
      BY <1>7
    <3>1. report[i] = Finding(Checks[i], FALSE) /\ Well(Checks[i])
      BY <1>3, <1>7, <2>3 DEF Entered
    <3> QED BY <3>1 DEF Well
  <2> QED BY <1>1, <1>4, <2>4
<1>8. ASSUME NEW i \in DOMAIN report, report[i] = "FAIL"
      PROVE  /\ Checks[i] # "config-fields" => Finding(Checks[i], FALSE) = "FAIL"
             /\ Checks[i] = "upstream-reach" => facts.dns \notin {"fails", "empty"}
  <2>1. Checks[i] # "config-fields" => Finding(Checks[i], FALSE) = "FAIL"
    BY <1>3, <1>5, <1>8 DEF Entered
  <2>2. Finding("upstream-reach", FALSE) = "FAIL" => facts.dns \notin {"fails", "empty"}
    BY DEF Finding, checkUpstreamReach
  <2> QED BY <2>1, <2>2
<1> QED BY <1>1, <1>6, <1>7, <1>8 DEF DoctorTrue

\* A pool of readable files is empty of credentials to `doctor` as to `auth list`.
LEMMA PoolIsAgreed == ASSUME PoolOK PROVE PoolAgreed
<1> SUFFICES ASSUME facts.dir = "listed", \A f \in Files : pool[f].form # "mistyped"
             PROVE  /\ checkCredentials = "FAIL" <=> Alarm(pool, clock) = "none loadable"
                    /\ checkCredentials = "PASS" => \A f \in List(pool) : Recoverable(pool[f], clock)
  BY DEF PoolAgreed
<1> DEFINE ok == {f \in List(pool) : pool[f].form \in {"good", "mistyped"} /\ ~pool[f].disabled}
<1>1. \A f \in Files : Recoverable(pool[f], clock) <=> pool[f].form = "good" /\ ~pool[f].disabled
  BY RecoverableIsWorth DEF PoolOK
<1>2. \A f : f \in ok <=> f \in Files /\ Recoverable(pool[f], clock)
  BY <1>1 DEF List
<1>3. Alarm(pool, clock) = "none loadable" <=> ok = {}
  BY <1>2 DEF Alarm
<1>4. checkCredentials = IF ok = {} THEN "FAIL" ELSE IF ok # List(pool) THEN "WARN" ELSE "PASS"
  BY DEF checkCredentials
<1> HIDE DEF ok
<1> QED BY <1>2, <1>3, <1>4

\* What a launch has logged, and whether its child lives.
LogInv == log = [lines |-> log.lines, alive |-> log.alive] /\ log.lines \in Seq(LogLines)

\* The causes are told apart by their places.
LEMMA CausesAre ==
    /\ DOMAIN Causes = 1 .. 5
    /\ (CHOOSE i \in DOMAIN Causes : Causes[i] = "unknown") = 1
    /\ (CHOOSE i \in DOMAIN Causes : Causes[i] = "stillRetrying") = 2
    /\ (CHOOSE i \in DOMAIN Causes : Causes[i] = "edgePoolCollapsed") = 3
    /\ (CHOOSE i \in DOMAIN Causes : Causes[i] = "precheckFailed") = 4
    /\ (CHOOSE i \in DOMAIN Causes : Causes[i] = "fakeIPEdge") = 5
<1>1. /\ DOMAIN Causes = 1 .. 5
      /\ Causes[1] = "unknown" /\ Causes[2] = "stillRetrying" /\ Causes[3] = "edgePoolCollapsed"
      /\ Causes[4] = "precheckFailed" /\ Causes[5] = "fakeIPEdge"
  BY DEF Causes
<1>2. \A i, j \in 1 .. 5 : Causes[i] = Causes[j] => i = j
  <2> SUFFICES ASSUME NEW i \in 1 .. 5, NEW j \in 1 .. 5, Causes[i] = Causes[j] PROVE i = j
    OBVIOUS
  <2>1. /\ i = 1 \/ i = 2 \/ i = 3 \/ i = 4 \/ i = 5
        /\ j = 1 \/ j = 2 \/ j = 3 \/ j = 4 \/ j = 5
    OBVIOUS
  <2> QED BY <1>1, <2>1
<1>3. ASSUME NEW k \in 1 .. 5
      PROVE  (CHOOSE i \in DOMAIN Causes : Causes[i] = Causes[k]) = k
  BY <1>1, <1>2
<1> QED BY <1>1, <1>3

\* The cause goes by what the lines say, and more lines say more.
LEMMA CauseIsTrue == ASSUME LogInv PROVE CauseTrue
<1> DEFINE cause(n) == classifyStartupLog(SubSeq(log.lines, 1, n), log.alive)
           says(n)  == UNION ToSet(SubSeq(log.lines, 1, n))
           rank(c)  == CHOOSE i \in DOMAIN Causes : Causes[i] = c
           len      == Len(log.lines)
<1>1. len \in Nat /\ DOMAIN log.lines = 1 .. len /\ \A i \in 1 .. len : log.lines[i] \in LogLines
  BY LenProperties, ElementOfSeq DEF LogInv
<1>2. \A n \in 0 .. len : \A w : w \in says(n) <=> \E i \in 1 .. n : w \in log.lines[i]
  <2> SUFFICES ASSUME NEW n \in 0 .. len, NEW w
               PROVE  w \in says(n) <=> \E i \in 1 .. n : w \in log.lines[i]
    OBVIOUS
  <2>1. PICK part : part = SubSeq(log.lines, 1, n)
    OBVIOUS
  <2>2. PICK lines : lines = log.lines
    OBVIOUS
  <2>3. n \in Int /\ 1 \in Int /\ \A i \in 1 .. n : lines[i] \in LogLines
    BY <1>1, <2>2
  <2>4. /\ part \in Seq(LogLines) /\ Len(part) = IF 1 <= n THEN n - 1 + 1 ELSE 0
        /\ \A i \in 1 .. n - 1 + 1 : part[i] = lines[1 + i - 1]
    BY <2>1, <2>2, <2>3, SubSeqProperties
  <2>5. Len(part) = n /\ \A i \in 1 .. n : part[i] = lines[i]
    BY <1>1, <2>4
  <2>6. ToSet(part) = {part[i] : i \in 1 .. n}
    BY <2>4, <2>5, LenProperties DEF ToSet
  <2> QED BY <2>1, <2>2, <2>5, <2>6
<1>3. \A n \in 0 .. len : \A w : w \in says(n) => w \in says(len)
  <2> SUFFICES ASSUME NEW n \in 0 .. len, NEW w, w \in says(n)
               PROVE  w \in says(len)
    OBVIOUS
  <2>1. len \in 0 .. len /\ \A i \in 1 .. n : i \in 1 .. len
    BY <1>1
  <2> HIDE DEF says, len
  <2> QED BY <1>2, <2>1
<1>4. "registered" \in says(len) <=> \E i \in DOMAIN log.lines : "registered" \in log.lines[i]
  <2>1. len \in 0 .. len
    BY <1>1
  <2> HIDE DEF says
  <2> QED BY <1>1, <1>2, <2>1
<1>5. \A n \in 0 .. len : cause(n) =
         IF "registered" \in says(n) THEN "unknown"
         ELSE IF "fakeEdge" \in says(n) THEN "fakeIPEdge"
         ELSE IF "precheckFails" \in says(n) THEN "precheckFailed"
         ELSE IF "shortfall" \in says(n) THEN "edgePoolCollapsed"
         ELSE IF "dialFails" \in says(n) /\ log.alive THEN "stillRetrying" ELSE "unknown"
  BY DEF classifyStartupLog
<1>6. /\ rank("unknown") = 1 /\ rank("stillRetrying") = 2 /\ rank("edgePoolCollapsed") = 3
      /\ rank("precheckFailed") = 4 /\ rank("fakeIPEdge") = 5
  BY CausesAre
<1>7. len \in 0 .. len
  BY <1>1
<1> HIDE DEF cause, says, rank
<1>8. ASSUME "registered" \notin says(len)
      PROVE  /\ \A n \in 0 .. len : rank(cause(n)) <= rank(cause(len))
             /\ cause(len) = "stillRetrying" => log.alive
  <2>1. ASSUME NEW n \in 0 .. len PROVE rank(cause(n)) <= rank(cause(len))
    <3> HIDE DEF len
    <3>1. \A w \in {"registered", "fakeEdge", "precheckFails", "shortfall", "dialFails"} :
             w \in says(n) => w \in says(len)
      BY <1>3, <2>1
    <3> QED BY <1>5, <1>6, <1>7, <1>8, <2>1, <3>1
  <2>2. cause(len) = "stillRetrying" => log.alive
    BY <1>5, <1>7, <1>8
  <2> QED BY <2>1, <2>2
<1>9. "registered" \in says(len) => cause(len) = "unknown"
  BY <1>5, <1>7
<1> QED BY <1>4, <1>8, <1>9 DEF CauseTrue, cause, rank

\* A log is read as it grows.
LEMMA LogStep == ASSUME LogInv, [DiagNext]_examVars PROVE LogInv'
<1>1. CASE \E line \in LogLines : LogGrows(line)
  <2>1. PICK line \in LogLines : log' = [log EXCEPT !.lines = Append(@, line)]
    BY <1>1 DEF LogGrows
  <2>2. Append(log.lines, line) \in Seq(LogLines)
    BY AppendProperties DEF LogInv
  <2> QED BY <2>1, <2>2 DEF LogInv
<1>2. CASE ChildDies
  BY <1>2 DEF ChildDies, LogInv
<1>3. CASE UNCHANGED log
  BY <1>3 DEF LogInv
<1>4. \/ UNCHANGED log \/ (\E line \in LogLines : LogGrows(line)) \/ ChildDies
  BY DEF DiagNext, examVars, Load, Begin, Conclude, Overrun, Enter, Cancel, Tell, Rewritten
<1> QED BY <1>1, <1>2, <1>3, <1>4

\* Of a pool that is left alone once a diagnosis has begun, whatever there is to
\* find: the verdict is that of what was found, `auth list` calls the pool empty
\* when `doctor` does, and the cause of a failed launch is what its log says.
THEOREM VerdictIsEvidenced == ExamSpec => []Evidenced
<1>1. ASSUME pool \in [Files -> FileStates], DiagInit PROVE PoolOK /\ ExamInv /\ LogInv
  <2>1. PoolOK
    BY <1>1 DEF DiagInit, PoolInit, PoolOK, AskOK, NoAsk
  <2>2. facts \in FactSet
    BY <1>1, DiagAssumption DEF DiagInit
  <2>3. ExamTypes /\ exam.report = << >> /\ exam.begun = "no" /\ exam.stage = "none" /\ exam.cut = FALSE
    BY <1>1, EmptySeq DEF DiagInit, Unasked, ExamTypes
  <2>4. Len(exam.report) = 0 /\ Len(Checks) \in Nat /\ 0 <= Len(Checks)
    BY <2>3, EmptySeq, ChecksAre
  <2>5. LogInv
    BY <1>1, EmptySeq DEF DiagInit, LogInv
  <2> QED BY <2>1, <2>2, <2>3, <2>4, <2>5 DEF ExamInv
<1>2. ASSUME PoolOK, ExamInv, LogInv, [DiagNext /\ (exam.stage # "none" => UNCHANGED pool)]_examVars
      PROVE  PoolOK' /\ ExamInv' /\ LogInv'
  <2>1. ExamInv'
    BY <1>2, ExamStep
  <2>2. LogInv'
    BY <1>2, LogStep
  <2>3. [PoolNext]_poolVars
    BY <1>2 DEF DiagNext, examVars, Load, Begin, Conclude, Overrun, Enter, Cancel, Tell, Rewritten,
              LogGrows, ChildDies
  <2>4. PoolOK'
    BY <1>2, <2>3, PoolKept
  <2> QED BY <2>1, <2>2, <2>4
<1>3. ASSUME PoolOK, ExamInv, LogInv PROVE Evidenced
  BY <1>3, DoctorIsTrue, PoolIsAgreed, CauseIsTrue DEF Evidenced
<1> QED BY <1>1, <1>2, <1>3, PTL DEF ExamSpec
=============================================================================
