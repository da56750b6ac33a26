------------------------------- MODULE Relay -------------------------------
(***************************************************************************)
(* The adaptive outbound relay (outbound/outbound.go): a loopback CONNECT  *)
(* proxy that chains each connection through the configured proxy while    *)
(* its port listens, and dials the origin itself while it does not.        *)
(*                                                                         *)
(* The connections share one verdict on the proxy, kept under a mutex that *)
(* is held across the probe and across the notification of a change.  The  *)
(* owner (proxy.go) closes the relay, then the journal the notifications   *)
(* go to, while connections go on.                                         *)
(*                                                                         *)
(* Time is in units of the probe's lifetime granularity: age and hold      *)
(* count ticks since the last record and until the backoff ends.  The      *)
(* bytes of a tunnel, the addresses and the reasons are left out.          *)
(***************************************************************************)
EXTENDS Integers

CONSTANTS Conns,     \* the slots of the engine's connections
          NoConn,
          ProbeTTL,
          HandshakeBackoff

ASSUME RelayAssumption ==
    /\ NoConn \notin Conns
    /\ ProbeTTL \in Nat \ {0}
    /\ HandshakeBackoff \in Nat \ {0}

VARIABLES
    port,      \* the proxy's port: shut, an HTTP proxy, or something mute
    server,    \* the accept loop
    owner,     \* the owner's shutdown
    lock,      \* who holds mu
    probed, up, age, hold,   \* the verdict, and what is left of brokenUntil
    told,      \* the last path the owner was told of
    pc,        \* where each connection is
    answer,    \* what it was answered
    tried,     \* history: what was tried for it
    copying    \* the directions of its tunnel that still copy

verdictVars == <<probed, up, age, hold>>
ownerVars   == <<server, owner>>
connVars    == <<pc, answer, tried, copying>>
vars == <<port, ownerVars, lock, verdictVars, told, connVars>>

At(c, l)     == pc[c] = l
Goto(c, l)   == pc' = [pc EXCEPT ![c] = l]
Try(c, what) == tried' = [tried EXCEPT ![c] = @ \cup {what}]
Closed       == owner # "running"
HasClosed    == owner \in {"closed", "over"}

Path(v) == IF v THEN "proxy" ELSE "direct"

----------------------------------------------------------------------------
(* The engine and the port.                                                *)

Connect(c) ==
    /\ pc[c] \in {"idle", "ended"}
    /\ owner \in {"running", "closing"}
    /\ Goto(c, "queued")
    /\ answer' = [answer EXCEPT ![c] = "none"]
    /\ tried' = [tried EXCEPT ![c] = {}]
    /\ UNCHANGED <<port, ownerVars, lock, verdictVars, told, copying>>

SetPort ==
    /\ port' \in {"shut", "http", "mute"}
    /\ UNCHANGED <<ownerVars, lock, verdictVars, told, connVars>>

Tick ==
    /\ age' = IF age < ProbeTTL THEN age + 1 ELSE age
    /\ hold' = IF hold > 0 THEN hold - 1 ELSE 0
    /\ UNCHANGED <<port, ownerVars, lock, probed, up, told, connVars>>

----------------------------------------------------------------------------
(* serve.                                                                  *)

Accept(c) ==
    /\ server = "accepting" /\ owner \in {"running", "closing"}
    /\ At(c, "queued")
    /\ Goto(c, "reading")
    /\ UNCHANGED <<port, ownerVars, lock, verdictVars, told, answer, tried, copying>>

\* A shortage of resources is waited out; a closed listener is the end.
AcceptFails ==
    /\ server = "accepting"
    /\ HasClosed \/ \E c \in Conns : At(c, "queued")
    /\ server' = IF Closed THEN "returned" ELSE "waiting"
    /\ UNCHANGED <<port, owner, lock, verdictVars, told, connVars>>

AcceptAgain ==
    /\ server = "waiting"
    /\ server' = "accepting"
    /\ UNCHANGED <<port, owner, lock, verdictVars, told, connVars>>

----------------------------------------------------------------------------
(* The verdict.                                                            *)

\* The notification is due under the lock, which passes with it.
Decide(c, v) ==
    /\ lock' = NoConn
    /\ Goto(c, IF v THEN "chain" ELSE "direct")

\* Mutant of Flip: the first verdict is no news.
FlipAfterFirst(v) == v # up

Flip(v) == ~probed \/ v # up

\* record, with mu held by c: it goes on to call OnFlip, or returns.
Record(c, v) ==
    /\ probed' = TRUE /\ up' = v /\ age' = 0
    /\ IF Flip(v) /\ ~Closed
       THEN lock' = c /\ Goto(c, "telling")
       ELSE Decide(c, v)

\* OnFlip, synchronously under mu: a note in the journal.  A note to a journal
\* that is closed is a send on a closed channel, and takes the process down.
Tell(c) ==
    /\ At(c, "telling")
    /\ IF owner = "over" THEN owner' = "panicked" ELSE UNCHANGED owner
    /\ told' = Path(up)
    /\ Decide(c, up)
    /\ UNCHANGED <<port, server, verdictVars, answer, tried, copying>>

Fresh == probed /\ age < ProbeTTL

\* Mutant of ViaProxy: who finds the lock taken uses the verdict as it is.
ViaProxyImpatient(c) ==
    /\ At(c, "routing")
    /\ IF lock # NoConn \/ hold > 0 \/ Fresh
       THEN Goto(c, IF up /\ hold = 0 THEN "chain" ELSE "direct") /\ UNCHANGED lock
       ELSE lock' = c /\ Goto(c, "probing")
    /\ UNCHANGED <<port, ownerVars, verdictVars, told, answer, tried, copying>>

\* Mutant of ViaProxy: the lock is not held across the probe.
ViaProxyUnlocked(c) ==
    /\ At(c, "routing") /\ lock = NoConn
    /\ IF hold > 0 \/ Fresh
       THEN Goto(c, IF up /\ hold = 0 THEN "chain" ELSE "direct")
       ELSE Goto(c, "probing")
    /\ UNCHANGED <<port, ownerVars, lock, verdictVars, told, answer, tried, copying>>

\* viaProxy up to its probe dial, which is made with mu held.
ViaProxy(c) ==
    /\ At(c, "routing") /\ lock = NoConn
    /\ IF hold > 0 \/ Fresh
       THEN Decide(c, up /\ hold = 0)
       ELSE lock' = c /\ Goto(c, "probing")
    /\ UNCHANGED <<port, ownerVars, verdictVars, told, answer, tried, copying>>

\* Only a port that is open answers a dial, and then within the time or not.
Probe(c) ==
    /\ At(c, "probing")
    /\ \E v \in BOOLEAN : (v => port # "shut") /\ Record(c, v)
    /\ UNCHANGED <<port, ownerVars, hold, told, answer, tried, copying>>

MarkDown(c) ==
    /\ At(c, "down") /\ lock = NoConn
    /\ Record(c, FALSE)
    /\ UNCHANGED <<port, ownerVars, hold, told, answer, tried, copying>>

MarkBroken(c) ==
    /\ At(c, "broken") /\ lock = NoConn
    /\ hold' = HandshakeBackoff
    /\ Record(c, FALSE)
    /\ UNCHANGED <<port, ownerVars, told, answer, tried, copying>>

----------------------------------------------------------------------------
(* One connection (handle, chain, direct, splice).                         *)

End(c, a) == Goto(c, "ended") /\ answer' = [answer EXCEPT ![c] = a]

Splice(c, a) ==
    /\ Goto(c, "spliced")
    /\ answer' = [answer EXCEPT ![c] = a]
    /\ copying' = [copying EXCEPT ![c] = {"out", "back"}]

\* The request is a CONNECT, or says something else, or nothing in time.
ReadConnect(c) ==
    /\ At(c, "reading")
    /\ \/ Goto(c, "routing") /\ UNCHANGED answer
       \/ \E a \in {"501", "400", "hangup"} : End(c, a)
    /\ UNCHANGED <<port, ownerVars, lock, verdictVars, told, tried, copying>>

DialProxy(c) ==
    /\ At(c, "chain")
    /\ Try(c, "proxy")
    /\ \/ port # "shut" /\ Goto(c, "handshake")
       \/ Goto(c, "down")
    /\ UNCHANGED <<port, ownerVars, lock, verdictVars, told, answer, copying>>

\* The proxy's refusal is the answer.
Refused(c) ==
    /\ Try(c, "refused")
    /\ End(c, "refusal") /\ UNCHANGED copying

\* Mutant of HandshakeFails: the handshake has no deadline.
HandshakeFailsUntimed(c) == port # "mute" /\ Goto(c, "broken")

\* The write or the read fails, or the deadline passes.
HandshakeFails(c) == Goto(c, "broken")

Handshake(c) ==
    /\ At(c, "handshake")
    /\ \/ port = "http" /\ Splice(c, "200 proxy") /\ UNCHANGED tried
       \/ port = "http" /\ Refused(c)
       \/ HandshakeFails(c) /\ UNCHANGED <<answer, tried, copying>>
    /\ UNCHANGED <<port, ownerVars, lock, verdictVars, told>>

\* A dial that failed fast is repeated once; one that timed out is not.
DialOrigin(c) ==
    /\ At(c, "direct")
    /\ Try(c, "origin")
    /\ \/ Splice(c, "200 direct")
       \/ End(c, "502") /\ UNCHANGED copying
       \/ Goto(c, "again") /\ UNCHANGED <<answer, copying>>
    /\ UNCHANGED <<port, ownerVars, lock, verdictVars, told>>

DialAgain(c) ==
    /\ At(c, "again")
    /\ \/ Splice(c, "200 direct")
       \/ End(c, "502") /\ UNCHANGED copying
    /\ UNCHANGED <<port, ownerVars, lock, verdictVars, told, tried>>

\* A direction's read ends, and its peer's write side is closed; both sides are
\* closed once both directions have ended.
HalfClose(c, d) ==
    /\ At(c, "spliced") /\ d \in copying[c]
    /\ copying' = [copying EXCEPT ![c] = @ \ {d}]
    /\ Goto(c, IF copying[c] = {d} THEN "ended" ELSE "spliced")
    /\ UNCHANGED <<port, ownerVars, lock, verdictVars, told, answer, tried>>

----------------------------------------------------------------------------
(* The owner: Close, then the journal.                                     *)

\* closed.Store.
CloseFlag ==
    /\ owner = "running"
    /\ owner' = "closing"
    /\ UNCHANGED <<port, server, lock, verdictVars, told, connVars>>

\* ln.Close resets what waits to be accepted.
CloseListener ==
    /\ owner = "closing"
    /\ owner' = "closed"
    /\ pc' = [c \in Conns |-> IF At(c, "queued") THEN "ended" ELSE pc[c]]
    /\ UNCHANGED <<port, server, lock, verdictVars, told, answer, tried, copying>>

CloseJournal ==
    /\ owner = "closed"
    /\ owner' = "over"
    /\ UNCHANGED <<port, server, lock, verdictVars, told, connVars>>

----------------------------------------------------------------------------
Init ==
    /\ port \in {"shut", "http", "mute"}
    /\ server = "accepting" /\ owner = "running" /\ lock = NoConn
    /\ probed = FALSE /\ up = FALSE /\ age = ProbeTTL /\ hold = 0
    /\ told = "none"
    /\ pc = [c \in Conns |-> "idle"] /\ answer = [c \in Conns |-> "none"]
    /\ tried = [c \in Conns |-> {}] /\ copying = [c \in Conns |-> {}]

Serve  == AcceptFails \/ AcceptAgain
Verdict(c) == ViaProxy(c) \/ Probe(c) \/ MarkDown(c) \/ MarkBroken(c) \/ Tell(c)
Handle(c) == ReadConnect(c) \/ DialProxy(c) \/ Handshake(c) \/ DialOrigin(c) \/ DialAgain(c)
Stop   == CloseFlag \/ CloseListener \/ CloseJournal

\* A panic leaves nothing running.
Next ==
    /\ owner # "panicked"
    /\ \/ \E c \in Conns : Connect(c) \/ Accept(c) \/ Verdict(c) \/ Handle(c)
                           \/ \E d \in {"out", "back"} : HalfClose(c, d)
       \/ Serve \/ Stop \/ SetPort \/ Tick

Spec == Init /\ [][Next]_vars

\* The goroutines run, and mu is granted in turn (sync.Mutex starves nobody); a
\* shortage is "transient by nature", so that accepting succeeds now and then.
\* Nothing is assumed of the port, of a tunnel's length or of the owner.
Fairness ==
    /\ WF_vars(Serve)
    /\ \A c \in Conns : WF_vars(Handle(c)) /\ SF_vars(Verdict(c)) /\ SF_vars(Accept(c))

LiveSpec == Spec /\ Fairness

----------------------------------------------------------------------------
(* Properties.                                                             *)

Places == {"idle", "queued", "reading", "routing", "probing", "telling", "chain", "handshake",
           "down", "broken", "direct", "again", "spliced", "ended"}
Answers == {"none", "hangup", "400", "501", "502", "refusal", "200 proxy", "200 direct"}

SharedOK ==
    /\ port \in {"shut", "http", "mute"}
    /\ server \in {"accepting", "waiting", "returned"}
    /\ owner \in {"running", "closing", "closed", "over", "panicked"}
    /\ lock \in Conns \cup {NoConn}
    /\ told \in {"none", "proxy", "direct"}
VerdictOK ==
    /\ probed \in BOOLEAN /\ up \in BOOLEAN
    /\ age \in 0 .. ProbeTTL /\ hold \in 0 .. HandshakeBackoff
ConnOK ==
    /\ pc \in [Conns -> Places] /\ answer \in [Conns -> Answers]
    /\ tried \in [Conns -> SUBSET {"proxy", "refused", "origin"}]
    /\ copying \in [Conns -> SUBSET {"out", "back"}]
Held == \A c \in Conns : lock = c <=> pc[c] \in {"probing", "telling"}

\* Every variable has its type, and mu is held exactly by who probes or tells.
TypeOK == SharedOK /\ VerdictOK /\ ConnOK /\ Held

\* A port that listens but is no proxy does not make the path flap: while the
\* backoff lasts the verdict stays direct (markBroken), whatever probe was in
\* flight when the handshake failed.
NoFlapping == hold > 0 => ~up

\* The last path the owner was told of is the one in force, or about to be told
\* (record, OnFlip): no change is skipped, the first choice included, and none
\* overtakes another.
Told ==
    ~Closed => \/ \E c \in Conns : At(c, "telling")
               \/ told = IF probed THEN Path(up) ELSE "none"

\* No connection is sent on a default verdict: those that lose the race for the
\* first probe wait for it (the comment of mu).
Evidence ==
    \A c \in Conns : pc[c] \in {"chain", "handshake", "down", "broken", "direct", "again"} => probed

\* The answer was earned: a failure says that the origin itself was dialled, a
\* proxy's refusal stands and is not tried elsewhere (chain), a tunnel is through
\* what was dialled.
AnswerEarned ==
    \A c \in Conns :
        /\ answer[c] = "502" => "origin" \in tried[c]
        /\ "refused" \in tried[c] => answer[c] = "refusal" /\ "origin" \notin tried[c]
        /\ answer[c] = "200 proxy" => "origin" \notin tried[c]
        /\ answer[c] = "200 direct" => "origin" \in tried[c]

\* What a connection meets is what was found out for it: it is sent on a verdict
\* that was reached, and its answer follows from what was tried.
Justified == Evidence /\ AnswerEarned

\* A connection the engine makes is served: accepted in spite of shortages, and
\* answered in spite of a mute port, unless the relay is being closed (serve,
\* the handshake deadline).
Served ==
    \A c \in Conns : At(c, "queued") ~> pc[c] \in {"spliced", "ended"} \/ Closed

\* "Close stops accepting new connections and silences OnFlip": once it has
\* returned the owner is told nothing.
FlipsSilenced == [][HasClosed => UNCHANGED told]_vars
=============================================================================
