------------------------------ MODULE Refusals ------------------------------
(***************************************************************************)
(* The refusal hooks (proxy/refusal.go): a policy refusal is found in the  *)
(* upstream's body before translation, kept in a map under the request's   *)
(* context, and written into the translated body as "content_filter".      *)
(*                                                                         *)
(* A request makes attempts under one context; an attempt is a sequence of *)
(* upstream lines (one, when it does not stream), and each line goes       *)
(* through the Before hook, the translator and, if it gives a frame, the   *)
(* After hook.  The map and its counter are two atomics: a request that    *)
(* has changed the one and not yet the other is between two steps here,    *)
(* and so is one that empties the map key by key.                          *)
(*                                                                         *)
(* The claude dialect's own streams pass no hook and are left out.  A      *)
(* dialect is whether its schema has a finish_reason ("openai") or not.    *)
(***************************************************************************)
EXTENDS Integers, FiniteSets

CONSTANTS Requests,            \* the contexts: each carries one request
          maxPendingRefusals,
          MaxAttempts          \* bound: attempts per request

ASSUME RefusalsAssumption ==
    /\ IsFiniteSet(Requests)
    /\ maxPendingRefusals \in Nat
    /\ MaxAttempts \in Nat \ {0}

VARIABLES
    hooks,      \* whose hooks the registry holds: "ours" or "plugin"
    pending,    \* the contexts with a finding
    live,       \* the counter beside the map
    pc,         \* where each request is
    shape,      \* its dialect and whether it streams
    attempts,   \* attempts begun
    phase,      \* how far the attempt's body is: "head", "delta", "tail"
    frame,      \* the frame that is on its way to the After hook
    caller,     \* what the caller has: nothing, some of it, or its finish reason
    sweep,      \* what each emergency clear has still to visit
    refused,    \* history: the upstream refused the current attempt
    swept,      \* history: a clear took the request's finding
    displaced,  \* history: the hooks were replaced under the request
    alarm       \* history: an emergency clear has begun

mapVars     == <<pending, live, sweep>>
attemptVars == <<shape, attempts, phase, refused>>
historyVars == <<swept, displaced, alarm>>
refVars == <<hooks, mapVars, pc, attemptVars, frame, caller, historyVars>>

Shapes  == [openai : BOOLEAN, stream : BOOLEAN]
Frames  == {"none", "plain", "stop", "length"}
Callers == {"nothing", "some", "stop", "length", "content_filter"}
Visits  == {"due", "free", "seen"}

Goto(r, l) == pc' = [pc EXCEPT ![r] = l]
Active(r)  == pc[r] \notin {"idle", "done", "gone"}
NoSweep    == [k \in Requests |-> "free"]

\* What the caller has once frame f has reached it.
Received(r, f) ==
    CASE f = "none"  -> caller[r]
      [] f = "plain" -> IF caller[r] = "nothing" THEN "some" ELSE caller[r]
      [] OTHER       -> f

Hand(r, f) == caller' = [caller EXCEPT ![r] = Received(r, f)]

----------------------------------------------------------------------------
(* The request, and the hooks' registration.                               *)

\* RefusalHookMiddleware, and the start of the first attempt.
Admit(r, s) ==
    /\ pc[r] = "idle"
    /\ hooks' = "ours"
    /\ Goto(r, "ready")
    /\ shape' = [shape EXCEPT ![r] = s]
    /\ attempts' = [attempts EXCEPT ![r] = 1]
    /\ UNCHANGED <<mapVars, phase, refused, frame, caller, historyVars>>

\* A reload of the engine's configuration ends by installing the plugin host.
Reload ==
    /\ hooks' = "plugin"
    /\ displaced' = [r \in Requests |-> displaced[r] \/ Active(r)]
    /\ UNCHANGED <<mapVars, pc, attemptVars, frame, caller, swept, alarm>>

\* The engine tries again, under the same context, while the caller has nothing.
Retry(r) ==
    /\ pc[r] = "ready" /\ caller[r] = "nothing"
    /\ attempts[r] < MaxAttempts
    /\ attempts' = [attempts EXCEPT ![r] = @ + 1]
    /\ phase' = [phase EXCEPT ![r] = "head"]
    /\ refused' = [refused EXCEPT ![r] = FALSE]
    /\ UNCHANGED <<hooks, mapVars, pc, shape, frame, caller, historyVars>>

\* A stream ends after the lines that follow its message_delta.
StreamOver(r) ==
    /\ pc[r] = "ready"
    /\ phase[r] = IF shape[r].stream THEN "tail" ELSE "delta"
    /\ Goto(r, "done")
    /\ UNCHANGED <<hooks, mapVars, attemptVars, frame, caller, historyVars>>

\* The client goes, or the upstream breaks off.
Abandon(r) ==
    /\ pc[r] = "ready"
    /\ Goto(r, "gone")
    /\ UNCHANGED <<hooks, mapVars, attemptVars, frame, caller, historyVars>>

----------------------------------------------------------------------------
(* The translator: which lines an attempt has, and their frames.           *)

\* The phase after a line p, and whether the line may come now.
MayCome(r, p) ==
    CASE p = "head"  -> shape[r].stream /\ phase[r] = "head"
      [] p = "delta" -> phase[r] = "head"
      [] OTHER       -> shape[r].stream /\ phase[r] \in {"delta", "tail"}

\* A whole body is always handed on; only a message_delta, or a whole body,
\* carries a finish reason, and a refusal is translated to "stop".
FramesOf(r, p, isRefusal) ==
    LET ending == IF isRefusal THEN {"stop"} ELSE {"stop", "length"}
    IN  (IF p = "delta" /\ shape[r].openai THEN ending ELSE {"plain"})
          \cup (IF shape[r].stream THEN {"none"} ELSE {})

\* Under the plugin host's hooks a line is translated and nothing else.
TranslateUnhooked(r, p, isRefusal, f) ==
    /\ pc[r] = "ready" /\ hooks = "plugin"
    /\ MayCome(r, p) /\ f \in FramesOf(r, p, isRefusal)
    /\ isRefusal => p = "delta"
    /\ phase' = [phase EXCEPT ![r] = p]
    /\ refused' = [refused EXCEPT ![r] = @ \/ isRefusal]
    /\ Hand(r, f)
    /\ UNCHANGED <<hooks, mapVars, pc, shape, attempts, frame, historyVars>>

\* A line enters TranslateStream, or a body TranslateNonStream, with the hooks
\* the registry holds at that moment; they serve its frame as well.
Enter(r, p, isRefusal, f) ==
    /\ pc[r] = "ready" /\ hooks = "ours"
    /\ MayCome(r, p) /\ f \in FramesOf(r, p, isRefusal)
    /\ phase' = [phase EXCEPT ![r] = p]
    /\ frame' = [frame EXCEPT ![r] = f]
    /\ refused' = [refused EXCEPT ![r] = @ \/ isRefusal]
    /\ UNCHANGED <<hooks, shape, attempts, caller>>

----------------------------------------------------------------------------
(* The map and its counter.                                                *)

\* The keys ks leave the map: a clear under way need not meet them any more.
Remove(ks) ==
    /\ pending' = pending \ ks
    /\ sweep' = [r \in Requests |-> [k \in Requests |->
                   IF k \in ks /\ sweep[r][k] = "due" THEN "free" ELSE sweep[r][k]]]

\* forget, up to the counter: it is reached only if the finding was there.
LoadAndDelete(r, found, absent) ==
    IF r \in pending
    THEN Remove({r}) /\ Goto(r, found)
    ELSE UNCHANGED <<pending, sweep>> /\ Goto(r, absent)

Uncount(r) ==
    /\ pc[r] \in {"uncountBefore", "uncountAfter"}
    /\ live' = live - 1
    /\ Goto(r, IF pc[r] = "uncountBefore" THEN "frame" ELSE "ready")
    /\ UNCHANGED <<hooks, pending, sweep, attemptVars, frame, caller, historyVars>>

----------------------------------------------------------------------------
(* NormalizeResponseBefore and track.                                      *)

\* Mutant of Clean: the finding is deleted, but not counted off.
CleanUncounted(r, p, f) ==
    /\ Enter(r, p, FALSE, f)
    /\ LoadAndDelete(r, "frame", "frame")
    /\ UNCHANGED <<live, historyVars>>

\* Mutant of Clean: a clean body leaves an earlier attempt's finding.
CleanKeeps(r, p, f) ==
    /\ Enter(r, p, FALSE, f)
    /\ Goto(r, "frame")
    /\ UNCHANGED <<mapVars, historyVars>>

Clean(r, p, f) ==
    /\ Enter(r, p, FALSE, f)
    /\ LoadAndDelete(r, "uncountBefore", "frame")
    /\ UNCHANGED <<live, historyVars>>

\* Mutant of Refused: a full map takes no more findings.
RefusedCapped(r, f) ==
    /\ Enter(r, "delta", TRUE, f)
    /\ IF live < maxPendingRefusals /\ r \notin pending
       THEN pending' = pending \cup {r} /\ Goto(r, "count")
       ELSE UNCHANGED pending /\ Goto(r, "frame")
    /\ swept' = [swept EXCEPT ![r] = FALSE]
    /\ UNCHANGED <<live, sweep, displaced, alarm>>

Refused(r, f) ==
    /\ Enter(r, "delta", TRUE, f)
    /\ pending' = pending \cup {r}
    /\ Goto(r, IF r \in pending THEN "frame" ELSE "count")
    /\ swept' = [swept EXCEPT ![r] = FALSE]
    /\ UNCHANGED <<live, sweep, displaced, alarm>>

Count(r) ==
    /\ pc[r] = "count"
    /\ live' = live + 1
    /\ IF live' <= maxPendingRefusals
       THEN Goto(r, "frame") /\ UNCHANGED <<sweep, alarm>>
       ELSE /\ Goto(r, "sweep")
            /\ sweep' = [sweep EXCEPT ![r] =
                           [k \in Requests |-> IF k \in pending THEN "due" ELSE "free"]]
            /\ alarm' = TRUE
    /\ UNCHANGED <<hooks, pending, attemptVars, frame, caller, swept, displaced>>

\* Range meets every key that stays in the map from its start, may meet one
\* that is stored meanwhile, and meets none twice.
Visit(r, k) ==
    /\ pc[r] = "sweep"
    /\ k \in pending /\ sweep[r][k] # "seen"
    /\ pending' = pending \ {k}
    /\ sweep' = [s \in Requests |->
                   IF s = r THEN [sweep[s] EXCEPT ![k] = "seen"]
                   ELSE [sweep[s] EXCEPT ![k] = IF @ = "due" THEN "free" ELSE @]]
    /\ swept' = [swept EXCEPT ![k] = TRUE]
    /\ UNCHANGED <<hooks, live, pc, attemptVars, frame, caller, displaced, alarm>>

Swept(r) ==
    /\ pc[r] = "sweep"
    /\ \A k \in Requests : sweep[r][k] # "due"
    /\ Goto(r, "reset")
    /\ sweep' = [sweep EXCEPT ![r] = NoSweep]
    /\ UNCHANGED <<hooks, pending, live, attemptVars, frame, caller, historyVars>>

Reset(r) ==
    /\ pc[r] = "reset"
    /\ live' = 0
    /\ Goto(r, "frame")
    /\ UNCHANGED <<hooks, pending, sweep, attemptVars, frame, caller, historyVars>>

----------------------------------------------------------------------------
(* NormalizeResponseAfter.                                                 *)

Rewritten == "content_filter"

\* markContentFiltered: only a "stop", and only in the openai schema, changes.
Changes(r) == shape[r].openai /\ frame[r] = "stop"

Spent(r) == ~shape[r].stream \/ Changes(r)

After(r) ==
    /\ pc[r] = "frame"
    /\ frame' = [frame EXCEPT ![r] = "none"]
    /\ IF frame[r] # "none" /\ r \in pending
       THEN /\ Hand(r, IF Changes(r) THEN Rewritten ELSE frame[r])
            /\ Goto(r, IF Spent(r) THEN "spend" ELSE "ready")
       ELSE Hand(r, frame[r]) /\ Goto(r, "ready")
    /\ UNCHANGED <<hooks, mapVars, attemptVars, historyVars>>

Spend(r) ==
    /\ pc[r] = "spend"
    /\ LoadAndDelete(r, "uncountAfter", "ready")
    /\ UNCHANGED <<hooks, live, attemptVars, frame, caller, historyVars>>

----------------------------------------------------------------------------
RefInit ==
    /\ hooks = "ours"
    /\ pending = {} /\ live = 0
    /\ sweep = [r \in Requests |-> NoSweep]
    /\ pc = [r \in Requests |-> "idle"]
    /\ shape = [r \in Requests |-> [openai |-> TRUE, stream |-> TRUE]]
    /\ attempts = [r \in Requests |-> 0]
    /\ phase = [r \in Requests |-> "head"]
    /\ frame = [r \in Requests |-> "none"]
    /\ caller = [r \in Requests |-> "nothing"]
    /\ refused = [r \in Requests |-> FALSE]
    /\ swept = [r \in Requests |-> FALSE]
    /\ displaced = [r \in Requests |-> FALSE]
    /\ alarm = FALSE

Hooked(r) ==
    \/ \E p \in {"head", "delta", "tail"}, f \in Frames : Clean(r, p, f)
    \/ \E f \in Frames : Refused(r, f)
    \/ Count(r)
    \/ \E k \in Requests : Visit(r, k)
    \/ Swept(r) \/ Reset(r)
    \/ After(r) \/ Spend(r) \/ Uncount(r)

Request(r) ==
    \/ \E s \in Shapes : Admit(r, s)
    \/ Retry(r) \/ StreamOver(r) \/ Abandon(r)
    \/ \E p \in {"head", "delta", "tail"}, isRefusal \in BOOLEAN, f \in Frames :
          TranslateUnhooked(r, p, isRefusal, f)

RefNext == Reload \/ \E r \in Requests : Request(r) \/ Hooked(r)

RefSpec == RefInit /\ [][RefNext]_refVars

----------------------------------------------------------------------------
Locations == {"idle", "ready", "uncountBefore", "count", "sweep", "reset",
              "frame", "spend", "uncountAfter", "done", "gone"}

\* Every variable has its type; in particular a caller is given a finish reason
\* the OpenAI schema knows.
RefTypeOK ==
    /\ hooks \in {"ours", "plugin"}
    /\ pending \subseteq Requests
    /\ live \in Int
    /\ sweep \in [Requests -> [Requests -> Visits]]
    /\ pc \in [Requests -> Locations]
    /\ shape \in [Requests -> Shapes]
    /\ attempts \in [Requests -> 0 .. MaxAttempts]
    /\ phase \in [Requests -> {"head", "delta", "tail"}]
    /\ frame \in [Requests -> Frames]
    /\ caller \in [Requests -> Callers]
    /\ refused \in [Requests -> BOOLEAN]
    /\ swept \in [Requests -> BOOLEAN]
    /\ displaced \in [Requests -> BOOLEAN]
    /\ alarm \in BOOLEAN

InCount   == {r \in Requests : pc[r] = "count"}
InUncount == {r \in Requests : pc[r] \in {"uncountBefore", "uncountAfter"}}

\* Until an emergency clear has begun the counter is the size of the map, give
\* or take the requests between the map and the counter: no mix of refusals,
\* retries and clean bodies lets it drift, so the first clear, which asks the
\* operator to report a bug, never comes for nothing.
Counted == ~alarm => live + Cardinality(InCount) = Cardinality(pending) + Cardinality(InUncount)

\* An answer is marked as filtered only if the upstream refused the attempt
\* that gave it: no finding of another request or of an earlier attempt of the
\* same one, whose context it shares, marks it.
Scoped == \A r \in Requests : caller[r] = "content_filter" => refused[r]

\* A refusal does not reach the caller as an ordinary stop, whatever the other
\* requests do, unless an emergency clear took its finding or a reload of the
\* configuration took the hooks away under the request.
Marked == \A r \in Requests :
    refused[r] /\ caller[r] = "stop" => swept[r] \/ displaced[r]

\* A request that ended as it should leaves no finding behind, whatever its
\* dialect and however it ended its last attempt; what accumulates until the
\* emergency clear comes from requests that were broken off.
Cleaned == \A r \in Requests : pc[r] = "done" /\ r \in pending => displaced[r]

\* The map stays as large as what is being refused, and its counter with it, as
\* long as no clear had to step in: neither drifts over any number of requests.
Bounded == Counted /\ Cleaned
=============================================================================
