---------------------------- MODULE Credentials ----------------------------
(***************************************************************************)
(* The directory of credentials (credentials/) and the commands that work  *)
(* on it (cmd/slimproxy/authcmd.go): list, remove, with a question that    *)
(* may wait for as long as the operator likes, and log in.  The engine     *)
(* renews what has expired, and an editor may change any file meanwhile.   *)
(* A file is what a reader tells of it; tokens and wording are left out.   *)
(***************************************************************************)
EXTENDS Integers, FiniteSets

CONSTANTS Files,          \* the names a credential file may have
          Accounts,
          Owner,          \* the account each file's login is of
          Callers,        \* who removes: terminals, and the panel
          expiringWindow, Lifetime, Horizon, MaxPoolEdits

ASSUME PoolAssumption ==
    /\ Owner \in [Files -> Accounts]
    /\ {expiringWindow, Lifetime, Horizon, MaxPoolEdits} \subseteq Nat

VARIABLES pool,    \* pool[f]: the file of that name
          clock,
          ask,     \* ask[t]: the removal t is at, or has told of
          touched  \* how often an editor changed a file

poolVars == <<pool, clock, ask, touched>>

Absent   == [form |-> "absent", disabled |-> FALSE, expires |-> 0]
Garbled  == [Absent EXCEPT !.form = "garbled"]
Mistyped == [Absent EXCEPT !.form = "mistyped"]  \* an object, with a field that is no string
Good(off, at) == [form |-> "good", disabled |-> off, expires |-> at]

NoAsk == [step |-> "idle"]

----------------------------------------------------------------------------
(* Reading the directory.                                                  *)

List(p) == {f \in Files : p[f].form # "absent"}

Status(c, now) ==
    IF c.form # "good" THEN "broken"
    ELSE IF c.disabled THEN "disabled"
    ELSE IF c.expires = 0 THEN "unknown"
    ELSE IF now > c.expires THEN "expired"
    ELSE IF now + expiringWindow > c.expires THEN "expiring" ELSE "ok"

Usable(c, now) == Status(c, now) \in {"ok", "expiring"}

\* Mutant of Recoverable: what has expired is not worth keeping.
RecoverableNow(c, now) == c.form # "absent" /\ Usable(c, now)

\* The proxy would load it and may come to serve with it.
Recoverable(c, now) == c.form # "absent" /\ Status(c, now) \notin {"broken", "disabled"}

\* What `auth list` warns of below its table.
Alarm(p, now) ==
    IF \A f \in Files : ~Recoverable(p[f], now) THEN "none loadable"
    ELSE IF \A f \in Files : ~Usable(p[f], now) THEN "none serves" ELSE "no"

\* The credentials that go by an identifier: a file's name, or its account.
Find(p, id) == {f \in List(p) : f = id \/ (p[f].form = "good" /\ Owner[f] = id)}

Others(p, f, now) == {g \in List(p) \ {f} : Recoverable(p[g], now)}

----------------------------------------------------------------------------
PoolInit == clock = 1 /\ ask = [t \in Callers |-> NoAsk] /\ touched = 0

\* `auth rm` and the panel's removal: one file is resolved and shown.
AuthRemove(t, id, force) ==
    /\ ask[t].step # "shown"
    /\ \E f \in Files :
          /\ Find(pool, id) = {f}
          /\ ask' = [ask EXCEPT ![t] =
                [step |-> "shown", creds |-> pool, target |-> f, force |-> force]]
    /\ UNCHANGED <<pool, clock, touched>>

\* "N", no terminal, or an interrupt.
Decline(t) ==
    /\ ask[t].step = "shown"
    /\ ask' = [ask EXCEPT ![t] = NoAsk]
    /\ UNCHANGED <<pool, clock, touched>>

\* The guard of the last credential goes by what was listed, at the present time.
RemoveResolved(t) ==
    LET a    == ask[t]
        left == Others(a.creds, a.target, clock)
        refused == ~a.force /\ Recoverable(a.creds[a.target], clock) /\ left = {}
        gone == pool[a.target].form = "absent"
    IN /\ a.step = "shown"
       /\ ask' = [ask EXCEPT ![t] =
             IF refused \/ gone THEN [step |-> "failed"]
             ELSE [step |-> "removed", left |-> Cardinality(left)]]
       /\ pool' = IF refused THEN pool ELSE [pool EXCEPT ![a.target] = Absent]
       /\ UNCHANGED <<clock, touched>>

\* `auth add`: a flow that ends well writes one file; any other leaves none.
Login(f) ==
    /\ pool' = [pool EXCEPT ![f] = Good(FALSE, clock + Lifetime)]
    /\ UNCHANGED <<clock, ask, touched>>

\* The engine renews a credential it has loaded.
Renew(f) ==
    /\ Recoverable(pool[f], clock) /\ pool[f].expires # 0
    /\ pool' = [pool EXCEPT ![f].expires = clock + Lifetime]
    /\ UNCHANGED <<clock, ask, touched>>

EditFile(f, c) ==
    /\ touched < MaxPoolEdits /\ c # pool[f]
    /\ pool' = [pool EXCEPT ![f] = c] /\ touched' = touched + 1
    /\ UNCHANGED <<clock, ask>>

TimePasses == clock < Horizon /\ clock' = clock + 1 /\ UNCHANGED <<pool, ask, touched>>

PoolNext ==
    \/ \E t \in Callers :
          \/ \E id \in Files \cup Accounts, force \in BOOLEAN : AuthRemove(t, id, force)
          \/ Decline(t) \/ RemoveResolved(t)
    \/ \E f \in Files :
          \/ Login(f) \/ Renew(f)
          \/ EditFile(f, Garbled) \/ (pool[f].form = "good" /\ EditFile(f, [pool[f] EXCEPT !.disabled = ~@]))
    \/ TimePasses

----------------------------------------------------------------------------
\* What the engine would load, and may come to serve with once it is renewed.
Worth(p) == {f \in Files : p[f].form = "good" /\ ~p[f].disabled}

\* However long the question waits, and whatever expires, is renewed or is
\* added by then: a removal that is not forced never takes the last credential
\* the proxy could serve with, and what it says is left is what is left -- short
\* of another removal, a login or an edit since the listing it was judged by.
LastKept ==
    [][\A t \in Callers :
          LET a == ask[t]
          IN a.step = "shown" /\ ask'[t].step = "removed" /\ Worth(a.creds) = Worth(pool) =>
                /\ a.force \/ Worth(pool') # {} \/ Worth(pool) = {}
                /\ ask'[t].left = Cardinality(Worth(pool'))]_poolVars
=============================================================================
