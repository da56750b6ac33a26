----------------------------- MODULE JournalLog -----------------------------
(***************************************************************************)
(* Asking the journal (journal/reader.go, cmd/slimproxy/logcmd.go): the    *)
(* log command reads the files of the days while another process, the      *)
(* proxy, appends to them and prunes them.                                 *)
(*                                                                         *)
(* The writer is what Journal says of it: a line goes to the end of the    *)
(* file of its own day, and a request is dated by its start.  Here it may  *)
(* also fail half-way through a line.  Of an event there is what a query,  *)
(* a count or a footnote tells apart.                                      *)
(***************************************************************************)
EXTENDS Integers, Sequences, FiniteSets

CONSTANTS Contents,   \* what the events may say
          Queries,    \* what may be asked, times relative to now
          DayLength,  \* moments in a day
          KeepDays,   \* the writer's retention
          LogHorizon, \* bound on the clock
          MaxLines    \* bound on the lines

NoDay   == -1
NoBound == -1

\* Source: where a refused request may have come from (requestSource).
Sources == {"local", "tunnel", "remote"}

ASSUME LogAssumption ==
    /\ DayLength \in Nat \ {0} /\ KeepDays \in Nat \ {0}
    /\ LogHorizon \in Nat /\ MaxLines \in Nat
    /\ \A e \in Contents : e.count \in Nat /\ (e.kind = "rej" => e.src \in Sources)
    /\ Queries \subseteq [since : Int, until : Int, status : Nat, slow : BOOLEAN,
                         named : BOOLEAN, failedOnly : BOOLEAN, includeNoise : BOOLEAN, limit : Nat]

VARIABLES
    moment,   \* the time
    lines,    \* the lines each day's file has got, also one that is pruned
    linked,   \* the days whose file is in the directory
    ragged,   \* the days whose file ends in a part of a line
    query,    \* what is asked
    scan,     \* Read's locals: the days to come, the open one, ring and count
    present   \* history: the lines there were to be found

logVars == <<moment, lines, linked, ragged, query, scan, present>>

DayNumbers == 0 .. LogHorizon \div DayLength
DayOf(at)  == at \div DayLength

Written(ls) == UNION {{ls[d][i] : i \in DOMAIN ls[d]} : d \in DayNumbers}

----------------------------------------------------------------------------
(* An event, and whether a query is about it.                              *)

Failed(e)   == e.kind = "req" /\ e.ok = "no"
Canceled(e) == Failed(e) /\ e.canceled

\* Event.Noise: a caller from outside was told off.
Noise(e) == e.kind = "rej" /\ e.src # "local" /\ e.status < 500

\* How many requests a line of rejects stands for.
Stands(e) == IF e.count = 0 THEN 1 ELSE e.count

SuppressesNoise(q) == ~q.includeNoise /\ q.status = 0

InPeriod(q, at) == q.since <= at /\ (q.until # NoBound => at <= q.until)

\* Query.Match: what is no request, made or refused, passes whatever is asked of one.
Match(q, l) ==
    LET e == l.says
    IN /\ InPeriod(q, l.at)
       /\ e.kind \in {"req", "rej"} =>
            /\ q.failedOnly => Failed(e) \/ e.kind = "rej"
            /\ q.status # 0 => e.status = q.status
            /\ q.slow => e.slow
            /\ q.named => e.named

\* The zero value of Query.
Everything == [since |-> 0, until |-> NoBound, status |-> 0, slow |-> FALSE, named |-> FALSE,
               failedOnly |-> FALSE, includeNoise |-> FALSE, limit |-> 0]

Hides(q, e) == Noise(e) /\ SuppressesNoise(q)

\* Mutant of skipDay: a period that ends as a day begins has nothing of it.
skipDayAtMidnight(q, d) ==
    \/ (d + 1) * DayLength <= q.since
    \/ q.until # NoBound /\ d * DayLength >= q.until

skipDay(q, d) ==
    \/ (d + 1) * DayLength <= q.since
    \/ q.until # NoBound /\ d * DayLength > q.until

----------------------------------------------------------------------------
(* The proxy.                                                              *)

\* Writer.write: behind a part of a line the line is no JSON, and is lost.
AppendLine(c, at) ==
    LET d == DayOf(at)
        n == Cardinality(Written(lines))
        l == [id |-> n + 1, whole |-> d \notin ragged, at |-> at, says |-> c]
    IN /\ n < MaxLines
       /\ lines' = [lines EXCEPT ![d] = Append(@, l)]
       /\ linked' = linked \cup {d}
       /\ ragged' = ragged \ {d}
       /\ UNCHANGED <<moment, query, scan, present>>

\* A request has begun at most a day before it ends.
Appends ==
    \E c \in Contents, at \in moment - DayLength .. moment :
        at >= 0 /\ AppendLine(c, at)

\* Writer.write: the disk takes a part of the line (a crash, or no space).
Tear ==
    /\ DayOf(moment) \in linked \ ragged
    /\ ragged' = ragged \cup {DayOf(moment)}
    /\ UNCHANGED <<moment, lines, linked, query, scan, present>>

\* Writer.prune; a file the reader has open stays readable.
PruneDays ==
    LET old == {d \in linked : d + 1 + KeepDays <= DayOf(moment)}
    IN /\ old # {}
       /\ linked' = linked \ old
       /\ present' = {l \in present : DayOf(l.at) \notin old \cap scan.todo}
       /\ UNCHANGED <<moment, lines, ragged, query, scan>>

Pass ==
    /\ moment < LogHorizon
    /\ moment' = moment + 1
    /\ UNCHANGED <<lines, linked, ragged, query, scan, present>>

----------------------------------------------------------------------------
(* Read: the days one after the other, a file line by line.                *)

Reading(step, todo, day, pos, ring, hidden) ==
    [step |-> step, todo |-> todo, day |-> day, pos |-> pos, ring |-> ring, hidden |-> hidden]

Unread == Reading("idle", {}, NoDay, 0, <<>>, 0)

\* cmdLog, and Days.
Ask(q) ==
    /\ scan.step = "idle"
    /\ query' = [q EXCEPT !.since = moment - @, !.until = IF @ = NoBound THEN @ ELSE moment - @]
    /\ scan' = [Unread EXCEPT !.step = "scanning", !.todo = linked]
    /\ present' = {l \in Written(lines) : l.whole /\ DayOf(l.at) \in linked}
    /\ UNCHANGED <<moment, lines, linked, ragged>>

Looking == scan.step = "scanning" /\ scan.day = NoDay /\ scan.todo # {}
DayToRead == CHOOSE d \in scan.todo : \A x \in scan.todo : d <= x
Aside   == UNCHANGED <<moment, lines, linked, ragged, query>>

\* A day without matches, or one pruned since it was listed.
PassDay ==
    /\ Looking
    /\ skipDay(query, DayToRead) \/ DayToRead \notin linked
    /\ scan' = [scan EXCEPT !.todo = @ \ {DayToRead}]
    /\ UNCHANGED present
    /\ Aside

OpenDay ==
    /\ Looking
    /\ ~skipDay(query, DayToRead) /\ DayToRead \in linked
    /\ scan' = [scan EXCEPT !.todo = @ \ {DayToRead}, !.day = DayToRead, !.pos = 0]
    /\ UNCHANGED present
    /\ Aside

\* Read's push: noise is counted and takes no place in the ring.
Push(l) ==
    IF Hides(query, l.says) THEN [scan EXCEPT !.hidden = @ + Stands(l.says)]
    ELSE IF query.limit = 0 \/ Len(scan.ring) < query.limit
         THEN [scan EXCEPT !.ring = Append(@, l)]
         ELSE [scan EXCEPT !.ring = Append(Tail(@), l)]

ReadLine ==
    /\ scan.step = "scanning" /\ scan.day # NoDay
    /\ scan.pos < Len(lines[scan.day])
    /\ LET l == lines[scan.day][scan.pos + 1]
           read == IF l.whole /\ Match(query, l) THEN Push(l) ELSE scan
       IN scan' = [read EXCEPT !.pos = @ + 1]
    /\ UNCHANGED present
    /\ Aside

EndOfDay ==
    /\ scan.step = "scanning" /\ scan.day # NoDay
    /\ scan.pos = Len(lines[scan.day])
    /\ scan' = [scan EXCEPT !.day = NoDay]
    /\ UNCHANGED present
    /\ Aside

\* A file that cannot be opened or read through fails the command.
ReadFails ==
    /\ scan.step = "scanning" /\ (scan.day # NoDay \/ Looking)
    /\ scan' = [Unread EXCEPT !.step = "failed"]
    /\ UNCHANGED present
    /\ Aside

ReadEnds ==
    /\ scan.step = "scanning" /\ scan.day = NoDay /\ scan.todo = {}
    /\ scan' = [scan EXCEPT !.step = "answered"]
    /\ UNCHANGED present
    /\ Aside

----------------------------------------------------------------------------
(* Summarise, and what the command prints under the table.                 *)

\* The requests that lines stand for, each of them numbered.
Requests(ls) == UNION {{l} \X (1 .. Stands(l.says)) : l \in ls}

Weight(ls) == Cardinality(Requests(ls))

\* Of the rows listed, each of which is another line.
Summarise(rows) ==
    LET Rows(Is(_)) == {l \in rows : Is(l.says)}
        failures == Rows(LAMBDA e : Failed(e) /\ ~Canceled(e))
    IN [requests |-> Cardinality(Rows(LAMBDA e : e.kind = "req")),
        canceled |-> Cardinality(Rows(Canceled)),
        failed   |-> Cardinality(failures),
        byStatus |-> [s \in {l.says.status : l \in failures} |->
                        Cardinality({l \in failures : l.says.status = s})],
        rejects  |-> Weight(Rows(LAMBDA e : e.kind = "rej")),
        noise    |-> Weight(Rows(Noise)),
        wanted   |-> Cardinality(Rows(LAMBDA e : e.kind = "fidelity" /\ e.cached)),
        missed   |-> Cardinality(Rows(LAMBDA e : e.kind = "req" /\ e.ok = "yes" /\ ~e.cached))]

\* writeJournalSummary's last two lines.
Footnotes(s, hidden) ==
    (IF hidden > 0 THEN {"more refused requests are not listed"} ELSE {}) \cup
    (IF s.noise > 0 THEN {"rows above are refused requests"} ELSE {})

----------------------------------------------------------------------------
LogInit ==
    /\ moment = 0
    /\ lines = [d \in DayNumbers |-> <<>>]
    /\ linked = {} /\ ragged = {}
    /\ query = Everything
    /\ scan = Unread
    /\ present = {}

LogNext ==
    \/ Appends \/ Tear \/ PruneDays \/ Pass
    \/ \E q \in Queries : Ask(q)
    \/ PassDay \/ OpenDay \/ ReadLine \/ EndOfDay \/ ReadFails \/ ReadEnds

LogSpec == LogInit /\ [][LogNext]_logVars

----------------------------------------------------------------------------
Before(k, l) ==
    \/ DayOf(k.at) < DayOf(l.at)
    \/ DayOf(k.at) = DayOf(l.at) /\ k.id < l.id

Asked(ls) == {l \in ls : l.whole /\ Match(query, l)}
Of(ls, k) == {l \in Asked(ls) : l.says.kind = k}

\* What strangers were refused for asking: left out of a listing that asks for
\* no status, and does not ask for them.  A failure to serve is not among it.
Hidden(ls) ==
    {l \in Of(ls, "rej") : /\ query.status = 0 /\ ~query.includeNoise
                           /\ l.says.src \in {"tunnel", "remote"} /\ l.says.status < 500}

Listed == {scan.ring[i] : i \in DOMAIN scan.ring}
Cut    == query.limit # 0 /\ Len(scan.ring) = query.limit
Ever   == Written(lines)

\* What is listed was asked for, is no noise the query leaves out, and is
\* listed once, day by day in the order of the files; and whatever was in the
\* files when the command began, and asked for, is listed, unless it is noise
\* or as many later ones as the limit allows are listed in its place.
ListingTrue ==
    /\ Listed \subseteq Asked(Ever) \ Hidden(Ever)
    /\ \A i, j \in DOMAIN scan.ring : i < j => Before(scan.ring[i], scan.ring[j])
    /\ \A k \in Asked(present) \ (Listed \cup Hidden(present)) :
          Cut /\ \A l \in Listed : Before(k, l)

\* Every refused request in the files is in one of two counts, that of the rows
\* and that of the noise left out of them; only one of the two is ever called
\* noise; and no count is short, unless the limit cut the listing.
CountsTrue ==
    LET said == Summarise(Listed)
    IN /\ Cardinality(Footnotes(said, scan.hidden)) <= 1
       /\ Weight(Hidden(present)) <= scan.hidden /\ scan.hidden <= Weight(Hidden(Ever))
       /\ said.rejects + scan.hidden <= Weight(Of(Ever, "rej"))
       /\ ~Cut =>
            /\ Weight(Of(present, "rej")) <= said.rejects + scan.hidden
            /\ Cardinality({l \in Of(present, "req") : Failed(l.says)}) <= said.failed + said.canceled

\* An answer of the log command is true of the files, whatever is written to
\* them and removed from them while it is made.
AnswerTrue == scan.step = "answered" => ListingTrue /\ CountsTrue
=============================================================================
