----------------------------- MODULE ConnSetup -----------------------------
(***************************************************************************)
(* How the requests of one round tripper come to a connection              *)
(* (the fork's internal/runtime/executor/helps/slimproxy_utls_setup.go and *)
(* utls_client.go): one of them sets it up, in attempts that are bounded   *)
(* and guarded, and the others wait, each under its own context.           *)
(*                                                                         *)
(* A connection, and the channel that is closed when its setup ends, are   *)
(* named by the request that sets up, which does so once.  Hosts share     *)
(* only the mutex, and one is modelled.  NewUtlsHTTPClient gives every     *)
(* request a round tripper of its own as the program stands; the type      *)
(* promises as much to several, and its tests share one.  The dialer, the  *)
(* handshake and HTTP/2, the clients and the upstream are external.        *)
(***************************************************************************)
EXTENDS Integers

CONSTANTS Requests, NoRequest, connectAttempts

ASSUME SetupAssumption ==
    NoRequest \notin Requests /\ connectAttempts \in Nat \ {0}

VARIABLES
    place,       \* where each request is
    ended,       \* the requests whose context has ended
    attempt,     \* each request's attempt: its number, whether its context has ended
    guarded,     \* the attempts whose guard is to close their connection
    socket,      \* the raw connection of each
    pending,     \* who sets up
    closed,      \* whose channel is closed
    awaits,      \* whose channel is waited on
    connections, \* the connection kept for the host
    dead,        \* the connections that take no request any more
    uses,        \* the connection each request was given
    outcome,     \* what it ended with
    sent         \* history: how often it was put on a wire

setupVars   == <<place, ended, attempt, guarded, socket, pending, closed, awaits,
                 connections, dead, uses, outcome, sent>>
attemptVars == <<attempt, guarded, socket>>
sharedVars  == <<pending, closed, connections, dead>>
ownVars     == <<ended, awaits, uses, outcome, sent>>

Moves(r, from, to) == place[r] = from /\ place' = [place EXCEPT ![r] = to]
Only(r, from, to)  == Moves(r, from, to) /\ UNCHANGED <<attemptVars, sharedVars, ownVars>>
Finishes(r, from, how) == Moves(r, from, "over") /\ outcome' = [outcome EXCEPT ![r] = how]

\* The attempt's context: its deadline, its cancel, or the request's own end.
Cut(r) == attempt[r].cut \/ r \in ended

CanTakeNewRequest(c) == c # NoRequest /\ c \notin dead

----------------------------------------------------------------------------
(* The request.                                                            *)

Arrive(r) == Only(r, "away", "look")

RequestEnds(r) ==
    /\ place[r] \notin {"away", "over"} /\ r \notin ended
    /\ ended' = ended \cup {r}
    /\ UNCHANGED <<place, attemptVars, sharedVars, awaits, uses, outcome, sent>>

----------------------------------------------------------------------------
(* getOrCreateConnection.                                                  *)

Reuse(r) ==
    /\ CanTakeNewRequest(connections) /\ Moves(r, "look", "wire")
    /\ uses' = [uses EXCEPT ![r] = connections]
    /\ UNCHANGED <<attemptVars, sharedVars, ended, awaits, outcome, sent>>

Wait(r) ==
    /\ ~CanTakeNewRequest(connections) /\ pending # NoRequest /\ Moves(r, "look", "waiting")
    /\ awaits' = [awaits EXCEPT ![r] = pending]
    /\ UNCHANGED <<attemptVars, sharedVars, ended, uses, outcome, sent>>

Begun(r, n) == attempt' = [attempt EXCEPT ![r] = [n |-> n, cut |-> FALSE]]

Create(r) ==
    /\ ~CanTakeNewRequest(connections) /\ pending = NoRequest /\ Moves(r, "look", "dial")
    /\ pending' = r
    /\ Begun(r, 1)
    /\ UNCHANGED <<guarded, socket, closed, connections, dead, ownVars>>

\* The creator finished, not necessarily well: look again.
Wake(r) == awaits[r] \in closed /\ Only(r, "waiting", "look")

LeaveWait(r) ==
    /\ r \in ended /\ Finishes(r, "waiting", "ended")
    /\ UNCHANGED <<attemptVars, sharedVars, ended, awaits, uses, sent>>

----------------------------------------------------------------------------
(* connectOnce: every way out of it ends the attempt's context.            *)

\* The connection is closed, if there is one, and its guard has nothing to do.
Abandon(r) ==
    /\ socket' = [socket EXCEPT ![r] = IF @ = "none" THEN @ ELSE "closed"]
    /\ guarded' = guarded \ {r}
    /\ attempt' = [attempt EXCEPT ![r].cut = TRUE]

\* Then another attempt, unless there were enough, or the request is over.
Fails(r, phase) ==
    /\ Abandon(r)
    /\ UNCHANGED <<sharedVars, ended, awaits, uses, sent>>
    /\ IF r \in ended
       THEN Moves(r, phase, "settle") /\ outcome' = [outcome EXCEPT ![r] = "ended"]
       ELSE IF attempt[r].n = connectAttempts
       THEN Moves(r, phase, "settle") /\ outcome' = [outcome EXCEPT ![r] = "exhausted"]
       ELSE Moves(r, phase, "pause") /\ UNCHANGED outcome

Dial(r) ==
    /\ Moves(r, "dial", "handshake")
    /\ socket' = [socket EXCEPT ![r] = "open"]
    /\ guarded' = guarded \cup {r}
    /\ UNCHANGED <<attempt, sharedVars, ownVars>>

\* context.AfterFunc, on a goroutine of its own.
GuardCloses(r) ==
    /\ r \in guarded /\ Cut(r)
    /\ socket' = [socket EXCEPT ![r] = "closed"]
    /\ guarded' = guarded \ {r}
    /\ UNCHANGED <<place, attempt, sharedVars, ownVars>>

TLSHandshake(r) == socket[r] = "open" /\ Only(r, "handshake", "preface")

\* Mutant of HandOver: the guard is left with the connection.
HandOverGuarded(r) ==
    /\ socket[r] = "open" /\ ~Cut(r) /\ Moves(r, "preface", "settle")
    /\ attempt' = [attempt EXCEPT ![r].cut = TRUE]
    /\ uses' = [uses EXCEPT ![r] = r]
    /\ UNCHANGED <<guarded, socket, sharedVars, ended, awaits, outcome, sent>>

\* The guard can still be stopped, which it cannot once the context has ended.
HandOver(r) ==
    /\ socket[r] = "open" /\ ~Cut(r) /\ Moves(r, "preface", "settle")
    /\ guarded' = guarded \ {r}
    /\ attempt' = [attempt EXCEPT ![r].cut = TRUE]
    /\ uses' = [uses EXCEPT ![r] = r]
    /\ UNCHANGED <<socket, sharedVars, ended, awaits, outcome, sent>>

\* connectAttemptTimeout.
TimesOut(r) ==
    /\ place[r] \in {"dial", "handshake", "preface"} /\ ~attempt[r].cut
    /\ attempt' = [attempt EXCEPT ![r].cut = TRUE]
    /\ UNCHANGED <<place, guarded, socket, sharedVars, ownVars>>

\* The deferred cancel leaves the connection to its guard.
Panics(r, phase) ==
    /\ Moves(r, phase, "settle") /\ outcome' = [outcome EXCEPT ![r] = "panic"]
    /\ attempt' = [attempt EXCEPT ![r].cut = TRUE]
    /\ UNCHANGED <<guarded, socket, sharedVars, ended, awaits, uses, sent>>

\* waitSetupBackoff.
Again(r) ==
    /\ Moves(r, "pause", "dial")
    /\ Begun(r, attempt[r].n + 1)
    /\ socket' = [socket EXCEPT ![r] = "none"]
    /\ UNCHANGED <<guarded, sharedVars, ownVars>>

GiveUpPause(r) ==
    /\ r \in ended /\ Moves(r, "pause", "settle")
    /\ outcome' = [outcome EXCEPT ![r] = "ended"]
    /\ UNCHANGED <<attemptVars, sharedVars, ended, awaits, uses, sent>>

----------------------------------------------------------------------------
(* The creator's deferred function, on every way out.                      *)

Settle(r) ==
    /\ Moves(r, "settle", "announce")
    /\ pending' = NoRequest
    /\ connections' = IF uses[r] = r THEN r ELSE connections
    /\ UNCHANGED <<attemptVars, closed, dead, ownVars>>

\* Mutant of Announce: only what went well is announced.
AnnounceSuccess(r) ==
    /\ Moves(r, "announce", IF uses[r] = r THEN "wire" ELSE "over")
    /\ closed' = IF uses[r] = r THEN closed \cup {r} ELSE closed
    /\ UNCHANGED <<attemptVars, pending, connections, dead, ownVars>>

\* close(done), outside the mutex.
Announce(r) ==
    /\ Moves(r, "announce", IF uses[r] = r THEN "wire" ELSE "over")
    /\ closed' = closed \cup {r}
    /\ UNCHANGED <<attemptVars, pending, connections, dead, ownVars>>

----------------------------------------------------------------------------
(* RoundTrip, from where the request is on the wire.                       *)

Send(r) ==
    /\ Moves(r, "wire", "stream")
    /\ sent' = [sent EXCEPT ![r] = @ + 1]
    /\ UNCHANGED <<attemptVars, sharedVars, ended, awaits, uses, outcome>>

Answered(r) ==
    /\ Finishes(r, "stream", "answered")
    /\ UNCHANGED <<attemptVars, sharedVars, ended, awaits, uses, sent>>

Broken(r) == Only(r, "stream", "evict")

\* The connection is forgotten, if it is still the one that is kept.
Evict(r) ==
    /\ Finishes(r, "evict", "failed")
    /\ connections' = IF connections = uses[r] THEN NoRequest ELSE connections
    /\ UNCHANGED <<attemptVars, pending, closed, dead, ended, awaits, uses, sent>>

\* The upstream, the proxy, the health check or the idle timer closes it, or it
\* has all the streams it may have.
Dies(c) ==
    /\ uses[c] = c /\ c \notin dead
    /\ dead' = dead \cup {c}
    /\ UNCHANGED <<place, attemptVars, pending, closed, connections, ownVars>>

----------------------------------------------------------------------------
SetupInit ==
    /\ place = [r \in Requests |-> "away"] /\ ended = {}
    /\ attempt = [r \in Requests |-> [n |-> 0, cut |-> FALSE]]
    /\ guarded = {} /\ socket = [r \in Requests |-> "none"]
    /\ pending = NoRequest /\ closed = {} /\ connections = NoRequest /\ dead = {}
    /\ awaits = [r \in Requests |-> NoRequest] /\ uses = [r \in Requests |-> NoRequest]
    /\ outcome = [r \in Requests |-> "none"] /\ sent = [r \in Requests |-> 0]

getOrCreateConnection(r) == Reuse(r) \/ Wait(r) \/ Create(r) \/ Wake(r) \/ LeaveWait(r)

\* What is bounded: an attempt whose context has ended, and the pause.
connectOnce(r) ==
    \/ Dial(r) \/ TLSHandshake(r) \/ HandOver(r)
    \/ \E phase \in {"dial", "handshake", "preface"} : Fails(r, phase) \/ Panics(r, phase)

createConnection(r) == Again(r) \/ GiveUpPause(r)
Deferred(r)         == Settle(r) \/ Announce(r)
RoundTrip(r)        == Send(r) \/ Answered(r) \/ Broken(r) \/ Evict(r)

SetupNext ==
    \E r \in Requests :
       \/ Arrive(r) \/ RequestEnds(r) \/ getOrCreateConnection(r)
       \/ connectOnce(r) \/ TimesOut(r) \/ GuardCloses(r) \/ createConnection(r)
       \/ Deferred(r) \/ RoundTrip(r) \/ Dies(r)

\* The runtime runs the goroutines and fires the timers; a dial or a handshake
\* whose context has ended comes back.  Nothing is assumed of the network.
SetupFairness ==
    \A r \in Requests :
       /\ WF_setupVars(getOrCreateConnection(r)) /\ WF_setupVars(createConnection(r))
       /\ WF_setupVars(Deferred(r)) /\ WF_setupVars(TimesOut(r))
       /\ WF_setupVars(Cut(r) /\ connectOnce(r))

SetupSpec == SetupInit /\ [][SetupNext]_setupVars /\ SetupFairness

----------------------------------------------------------------------------
SettingUp == {"dial", "handshake", "preface", "pause", "settle"}

\* Sharing a setup costs nobody anything.  One request sets up at a time; whoever
\* waits, waits for a channel that is closed or that its creator is on the way to
\* closing; a request fails by its own end or its own attempts, never by
\* another's, and is put on a wire once at most.  A connection that was handed
\* out is not closed by the attempt that made it, one that was not is, or has its
\* guard; and it stays kept until it dies or fails a request, whoever else fails
\* meanwhile.
Shared ==
    /\ \A r \in Requests :
          /\ pending = r <=> place[r] \in SettingUp
          /\ place[r] = "waiting" =>
                awaits[r] \in closed \/ place[awaits[r]] \in SettingUp \cup {"announce"}
          /\ outcome[r] = "ended" => r \in ended
          /\ outcome[r] = "exhausted" => attempt[r].n = connectAttempts
          /\ sent[r] <= 1 /\ (sent[r] = 1 => uses[r] # NoRequest)
    /\ \A c \in Requests :
          /\ uses[c] = c => socket[c] = "open"
          /\ place[c] \in {"pause", "over"} /\ socket[c] = "open" => uses[c] = c \/ c \in guarded
          /\ uses[c] = c /\ place[c] # "settle" /\ c \notin dead
                /\ (\A r \in Requests : uses[r] = c => outcome[r] # "failed")
             => connections = c

\* Nobody waits for good: whoever asks for a connection gets one, or an error,
\* though those who set up before fail, panic or go away.
Attended ==
    \A r \in Requests : place[r] = "look" ~> place[r] \in {"wire", "over"}
=============================================================================
