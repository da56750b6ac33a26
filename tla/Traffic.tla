------------------------------ MODULE Traffic -------------------------------
(***************************************************************************)
(* What the proxy knows of its traffic: the requests in flight             *)
(* (proxy/inflight.go, metrics/inflight.go), the meter on each request's   *)
(* two network legs (proxy/netmeter.go, metrics/nettimings.go), and the    *)
(* window of completed requests with the numbers a panel shows of it       *)
(* (metrics/collector.go), which hands every sample to the alarm (Health). *)
(*                                                                         *)
(* A request makes one attempt; the engine puts its usage record in the    *)
(* usage manager's queue, which one goroutine empties, before or after the *)
(* request is over.  The engine, its queue and the network are external.   *)
(* Fractions are in hundredths.                                            *)
(***************************************************************************)
EXTENDS Health, Response, FiniteSets

CONSTANTS Clients,    \* one request each
          Kinds,      \* the usage records the engine may publish
          Window, Minute, RecentCap,
          Horizon,    \* bound on the clock
          MaxBytes    \* bound on a body

ASSUME TrafficAssumption ==
    /\ IsFiniteSet(Clients)
    /\ Window \in Nat /\ Minute \in 1 .. Window /\ RecentCap \in Nat \ {0}
    /\ Horizon \in Nat /\ MaxBytes \in Nat
    /\ \A r \in Kinds :  \* a success is published with an empty failure
          r.failed \in BOOLEAN /\ r.status \in Statuses /\ (~r.failed => r.status = 0)
    /\ \A r \in Kinds :  \* an accounting that is vouched for sums up
          /\ r.valid /\ r.complete =>
                r.input \in Nat /\ (r.input > 0 => r.read \in 0 .. r.input)
          /\ r.quota.set \in BOOLEAN /\ r.quota.value \in Int

VARIABLES
    now,
    stage,    \* each request: "away", "running", "gone"
    inflight, \* InFlight: the last token, and the rows by token
    token,    \* the token a running request defers to End, 0 for none
    meter,    \* NetTimings
    out,      \* since when a write to the client has been blocked, -1 for no write
    queue,    \* the usage manager's queue
    published,
    samples,  \* the collector's
    handed,   \* history: every sample handed to it, in order
    firstEnd  \* history: how long the body had taken when its end was first read

trafficVars == <<now, stage, inflight, token, meter, out, queue, published, samples,
                 handed, firstEnd>>
requestVars == <<inflight, token, meter, out, queue, published, firstEnd>>
statVars    == <<samples, handed, vars>>

----------------------------------------------------------------------------
(* Requests in flight.                                                     *)

Begin(c) ==
    LET t == inflight.last + 1
    IN /\ inflight' = [last |-> t, rows |-> [u \in DOMAIN inflight.rows \cup {t} |->
                                             IF u = t THEN now ELSE inflight.rows[u]]]
       /\ token' = [token EXCEPT ![c] = t]

End(c) ==
    /\ inflight' = [inflight EXCEPT !.rows = [u \in DOMAIN @ \ {token[c]} |-> @[u]]]
    /\ token' = [token EXCEPT ![c] = 0]

\* sort.Slice, least key first: of equals the one or the other.
Sorted(S, key) ==
    CHOOSE s \in [1 .. Cardinality(S) -> S] :
        /\ \A x \in S : \E i \in DOMAIN s : s[i] = x
        /\ \A i, j \in DOMAIN s : i < j => key[s[i]] <= key[s[j]]

\* The rows of a panel, oldest first.
PendingRows == Sorted(DOMAIN inflight.rows, inflight.rows)

\* NetMeterMiddleware, then InFlightMiddleware: worthy of a row is a POST that
\* is not the management's.
Arrive(c, worthy) ==
    /\ stage[c] = "away"
    /\ stage' = [stage EXCEPT ![c] = "running"]
    /\ meter' = [meter EXCEPT ![c] = [started |-> now, done |-> 0, block |-> 0, bytes |-> 0]]
    /\ IF worthy THEN Begin(c) ELSE UNCHANGED <<inflight, token>>
    /\ UNCHANGED <<now, out, queue, published, firstEnd, statVars>>

\* The deferred End, whether the handler returns or panics.
Leave(c) ==
    /\ stage[c] = "running" /\ out[c] = -1
    /\ stage' = [stage EXCEPT ![c] = "gone"]
    /\ IF token[c] # 0 THEN End(c) ELSE UNCHANGED <<inflight, token>>
    /\ UNCHANGED <<now, meter, out, queue, published, firstEnd, statVars>>

----------------------------------------------------------------------------
(* The meter.                                                              *)

Elapsed(c) == IF now > meter[c].started THEN now - meter[c].started ELSE 1

MarkBodyDone(m, ns) == IF m.done = 0 THEN [m EXCEPT !.done = ns] ELSE m

\* meterBody.Read: the last bytes may come with the end, and the end is read
\* again by whoever reads on.
Read(c, n, eof) ==
    /\ stage[c] = "running"
    /\ meter[c].bytes + n <= MaxBytes
    /\ firstEnd[c] # 0 => n = 0 /\ eof
    /\ LET counted == [meter[c] EXCEPT !.bytes = @ + n]
       IN meter' = [meter EXCEPT ![c] = IF eof THEN MarkBodyDone(counted, Elapsed(c)) ELSE counted]
    /\ firstEnd' = IF eof /\ firstEnd[c] = 0 THEN [firstEnd EXCEPT ![c] = Elapsed(c)] ELSE firstEnd
    /\ UNCHANGED <<now, stage, inflight, token, out, queue, published, statVars>>

\* meterWriter: a write that blocks is counted when it returns.
WriteBegins(c) ==
    /\ stage[c] = "running" /\ out[c] = -1
    /\ out' = [out EXCEPT ![c] = now]
    /\ UNCHANGED <<now, stage, inflight, token, meter, queue, published, firstEnd, statVars>>

WriteEnds(c) ==
    /\ out[c] # -1
    /\ meter' = [meter EXCEPT ![c].block = @ + (now - out[c])]
    /\ out' = [out EXCEPT ![c] = -1]
    /\ UNCHANGED <<now, stage, inflight, token, queue, published, firstEnd, statVars>>

----------------------------------------------------------------------------
(* The collector.                                                          *)

\* An address stays as it is; of anything else the stub and a digest.
redactAccount(source) == CASE source.name = "" -> << >>
                           [] source.name # "" /\ source.email -> <<source.name>>
                           [] OTHER -> <<"***", source.name>>

\* The header's number, in hundredths: at most one as it stands, else percent.
quotaFromHeaders(header) ==
    IF ~header.set \/ header.value < 0 THEN -1
    ELSE IF header.value \in 0 .. 100 THEN header.value
    ELSE IF header.value > 10000 THEN 100 ELSE header.value \div 100

trustedInputTokens(r) == IF r.valid /\ r.complete THEN r.input ELSE 0

causeOf(r) == IF ~r.failed THEN "none"
              ELSE IF r.status > 0 THEN "upstream" ELSE CauseFromText(r.marks)

\* What the collector keeps of a record of client c.
SampleFrom(r, c, at) ==
    [at |-> at, client |-> c, account |-> redactAccount(r.source), target |-> r.provider, model |-> r.model,
     ttft |-> r.ttft, failed |-> r.failed, status |-> r.status, cause |-> causeOf(r),
     input |-> trustedInputTokens(r), read |-> r.read, quota |-> quotaFromHeaders(r.quota),
     upload |-> 0, block |-> 0, bytes |-> 0]

Route(s) == CASE s.target = "" -> <<s.model>>
              [] s.target # "" -> Append(s.account, s.target)

\* The engine publishes the record of an attempt it asked for at some time.
Publish(c, r) ==
    /\ stage[c] = "running" /\ ~published[c]
    /\ published' = [published EXCEPT ![c] = TRUE]
    /\ \E at \in meter[c].started .. now : queue' = Append(queue, SampleFrom(r, c, at))
    /\ UNCHANGED <<now, stage, inflight, token, meter, out, firstEnd, statVars>>

\* Mutant of prune: only a prefix is dropped.
prunePrefix(ss, t) ==
    LET old == {i \in DOMAIN ss : \A j \in 1 .. i : ss[j].at < t - Window}
    IN SubSeq(ss, Cardinality(old) + 1, Len(ss))

\* Samples come in the order in which they end, not in that in which they began.
prune(ss, t) ==
    LET kept[i \in 0 .. Len(ss)] ==
            IF i = 0 THEN << >>
            ELSE IF ss[i].at >= t - Window THEN Append(kept[i - 1], ss[i]) ELSE kept[i - 1]
    IN kept[Len(ss)]

\* What the alarm reads of a sample.
Reading(s) == [failed |-> s.failed, status |-> s.status,
               canceled |-> s.cause = "canceled", answered |-> s.ttft > 0]

\* HandleUsage on the manager's goroutine: the meter is read while the request
\* may still be using it.
Handle ==
    /\ queue # << >>
    /\ LET m == meter[Head(queue).client]
           s == [Head(queue) EXCEPT !.upload = m.done, !.block = m.block, !.bytes = m.bytes]
       IN /\ samples' = prune(Append(samples, s), now)
          /\ handed' = Append(handed, s)
          /\ HandleUsage(Reading(s))
    /\ queue' = Tail(queue)
    /\ UNCHANGED <<now, stage, inflight, token, meter, out, published, firstEnd>>

\* A panel that looks prunes, too: Snapshot, of which below.
Look ==
    /\ samples' = prune(samples, now)
    /\ UNCHANGED <<now, stage, requestVars, handed, vars>>

Tick ==
    /\ now < Horizon
    /\ now' = now + 1
    /\ UNCHANGED <<stage, requestVars, statVars>>

----------------------------------------------------------------------------
(* Collector.Snapshot: what a panel that looks now is shown.               *)

NoQuota == [first |-> -1, firstAt |-> 0, last |-> -1, lastAt |-> 0]

\* The search for the earliest and the latest reading, one sample on.
Scan(q, s) ==
    LET earlier == q.first < 0 \/ s.at < q.firstAt
        later   == q.last < 0 \/ s.at > q.lastAt
    IN IF s.quota < 0 THEN q
       ELSE [first |-> IF earlier THEN s.quota ELSE q.first,
             firstAt |-> IF earlier THEN s.at ELSE q.firstAt,
             last |-> IF later THEN s.quota ELSE q.last,
             lastAt |-> IF later THEN s.at ELSE q.lastAt]

\* byRoute, one sample on.
OnRoute(routes, s) ==
    [r \in DOMAIN routes \cup {Route(s)} |->
        LET agg == IF r \in DOMAIN routes THEN routes[r] ELSE [count |-> 0, ttft |-> 0]
        IN IF r = Route(s) THEN [count |-> agg.count + 1, ttft |-> agg.ttft + s.ttft] ELSE agg]

Tally0 == [rpm |-> 0, quota |-> NoQuota, read |-> 0, input |-> 0, ttft |-> 0, timed |-> 0,
           routes |-> << >>]

\* The loop's body: of the cache's share only what can be trusted counts.
Tallied(q, s, t) ==
    [rpm    |-> IF s.at > t - Minute THEN q.rpm + 1 ELSE q.rpm,
     quota  |-> Scan(q.quota, s),
     read   |-> IF s.input > 0 THEN q.read + s.read ELSE q.read,
     input  |-> IF s.input > 0 THEN q.input + s.input ELSE q.input,
     ttft   |-> IF s.ttft > 0 THEN q.ttft + s.ttft ELSE q.ttft,
     timed  |-> IF s.ttft > 0 THEN q.timed + 1 ELSE q.timed,
     routes |-> OnRoute(q.routes, s)]

Tally(ss, t) ==
    LET upTo[i \in 0 .. Len(ss)] == IF i = 0 THEN Tally0 ELSE Tallied(upTo[i - 1], ss[i], t)
    IN upTo[Len(ss)]

Trend(q) ==
    IF q.firstAt = q.lastAt \/ q.last - q.first \in -1 .. 1 THEN 0
    ELSE IF q.last > q.first THEN 1 ELSE -1

\* The newest, as many as the panel lists.
Recent(ss) ==
    LET newest == Sorted(DOMAIN ss, [i \in DOMAIN ss |-> -ss[i].at])
    IN [k \in 1 .. (IF Len(ss) > RecentCap THEN RecentCap ELSE Len(ss)) |-> ss[newest[k]]]

Snapshot(t) ==
    LET ss == prune(samples, t)
        q  == Tally(ss, t)
    IN [pending |-> PendingRows, total |-> Len(ss), rpm |-> q.rpm, recent |-> Recent(ss),
        ttft   |-> IF q.timed = 0 THEN 0 ELSE q.ttft \div q.timed,
        quota  |-> q.quota.last, trend |-> Trend(q.quota),
        cache  |-> [read |-> q.read, input |-> q.input],
        active |-> {[route |-> r, count |-> q.routes[r].count,
                     pct |-> (100 * q.routes[r].count) \div Len(ss),
                     ttft |-> q.routes[r].ttft \div q.routes[r].count] : r \in DOMAIN q.routes}]

----------------------------------------------------------------------------
TrafficInit ==
    /\ now = 0 /\ stage = [c \in Clients |-> "away"]
    /\ inflight = [last |-> 0, rows |-> << >>] /\ token = [c \in Clients |-> 0]
    /\ meter = [c \in Clients |-> [started |-> 0, done |-> 0, block |-> 0, bytes |-> 0]]
    /\ out = [c \in Clients |-> -1] /\ firstEnd = [c \in Clients |-> 0]
    /\ queue = << >> /\ published = [c \in Clients |-> FALSE]
    /\ samples = << >> /\ handed = << >>
    /\ Init

TrafficNext ==
    \/ \E c \in Clients :
          \/ \E worthy \in BOOLEAN : Arrive(c, worthy)
          \/ \E n \in 0 .. 1, eof \in BOOLEAN : Read(c, n, eof)
          \/ WriteBegins(c) \/ WriteEnds(c) \/ Leave(c)
          \/ \E r \in Kinds : Publish(c, r)
    \/ Handle \/ Look \/ Tick

TrafficSpec == TrafficInit /\ [][TrafficNext]_<<trafficVars, vars>>

----------------------------------------------------------------------------
\* The in-flight list has one row for each worthy request that is running,
\* since it arrived, whatever else runs on the same path, and no other row;
\* the panel has the oldest first.
RowsMatch ==
    LET runs == {c \in Clients : token[c] # 0}
    IN /\ DOMAIN inflight.rows = {token[c] : c \in runs}
       /\ \A c \in runs : stage[c] = "running" /\ inflight.rows[token[c]] = meter[c].started
       /\ \A c, d \in runs : token[c] = token[d] => c = d

RowsSorted ==
    /\ {PendingRows[i] : i \in DOMAIN PendingRows} = DOMAIN inflight.rows
    /\ Len(PendingRows) = Cardinality(DOMAIN inflight.rows)
    /\ \A i, j \in DOMAIN PendingRows :
          i < j => inflight.rows[PendingRows[i]] <= inflight.rows[PendingRows[j]]

RowsTrue == RowsMatch /\ RowsSorted

\* A sample says of the network no more than there was: the bytes that came,
\* the time to the body's first end, and the time writes were blocked.
MeterTrue ==
    \A i \in DOMAIN handed :
        LET s == handed[i]  m == meter[s.client]
        IN /\ s.bytes <= m.bytes /\ s.block <= m.block
           /\ m.block <= now - m.started
           /\ s.upload \in {0, firstEnd[s.client]}

\* What is told of a request that runs, or ran, is its own: its row and its meter.
LiveTrue == RowsTrue /\ MeterTrue

\* Whatever order requests end in, the panel's numbers are those of the
\* requests that began within the window: none is lost, and none counts that
\* fell out; the recent ones are the newest; the quota shown is that of the
\* newest request that has one, and its trend is between two different times;
\* and each request counts on its route, once.
NumbersTrue ==
    LET snap   == Snapshot(now)
        began  == {i \in DOMAIN handed : handed[i].at >= now - Window}
        quoted == {i \in began : handed[i].quota >= 0}
    IN /\ snap.total = Cardinality(began)
       /\ snap.rpm = Cardinality({i \in began : handed[i].at > now - Minute})
       /\ \A i \in began : \/ \E k \in DOMAIN snap.recent : snap.recent[k] = handed[i]
                           \/ /\ Len(snap.recent) = RecentCap
                              /\ \A k \in DOMAIN snap.recent : handed[i].at <= snap.recent[k].at
       /\ quoted = {} <=> snap.quota = -1
       /\ quoted # {} => \E i \in quoted : /\ snap.quota = handed[i].quota
                                       /\ \A j \in quoted : handed[j].at <= handed[i].at
       /\ snap.trend # 0 => \E i, j \in quoted : handed[i].at # handed[j].at
       /\ 0 <= snap.cache.read /\ snap.cache.read <= snap.cache.input
       /\ {a.route : a \in snap.active} = {Route(handed[i]) : i \in began}
       /\ \A a \in snap.active : a.count = Cardinality({i \in began : Route(handed[i]) = a.route})

\* What the panel is told, of requests that run and of those that ended, is so.
MetricsTrue == LiveTrue /\ NumbersTrue
=============================================================================
