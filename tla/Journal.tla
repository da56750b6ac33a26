------------------------------ MODULE Journal ------------------------------
(***************************************************************************)
(* The event journal of the proxy (journal/writer.go, journal/rejects.go)  *)
(* and the shutdown that closes it (Runtime.Run in proxy/proxy.go).        *)
(*                                                                         *)
(* Any goroutine of the process appends events through a bounded channel;  *)
(* one writer goroutine moves them to a file per day, syncs it every       *)
(* second and prunes old days every hour.  Refused requests are counted by *)
(* a folder, whose own ticker goroutine turns the counts into events.      *)
(* When the service has stopped, Run notes the stop, closes the folder and *)
(* then the writer - while handlers, timers and the folder's goroutine may *)
(* still be running.                                                       *)
(*                                                                         *)
(* An event is its number in the order in which the channel accepted it,   *)
(* with the day it belongs to.  A send on the closed channel panics: a     *)
(* panic is recovered under gin's recovery and under the usage manager,    *)
(* and kills the process in every other goroutine.                         *)
(***************************************************************************)
EXTENDS Integers, Sequences, FiniteSets

CONSTANTS Keys,        \* what makes two rejects the same (rejectKey)
          QueueSize,   \* capacity of the events channel
          Retention,   \* days a file is kept
          LastDay,     \* bound: the last day of the run
          MaxOffered,  \* bound: no note comes from outside beyond so many events
          MaxAdds      \* bound: rejects added to the folder

ASSUME JournalAssumption ==
    /\ QueueSize \in Nat \ {0}
    /\ Retention \in Nat \ {0}
    /\ LastDay \in Nat
    /\ MaxOffered \in Nat
    /\ MaxAdds \in Nat

VARIABLES
    queue,      \* the channel's buffer: events accepted and not yet taken
    chan,       \* whether close(w.events) has run
    sent,       \* number of events the channel has accepted
    dropped,    \* Writer.dropped
    offered,    \* history: calls of Append before Close
    file,       \* the day of the open file, NoFile when Writer.file is nil
    files,      \* the lines (event numbers) of each day's file on disk
    logged,     \* history: the events counted in Writer.written
    failing,    \* Writer.lastErr is set
    dirty,      \* lines were written to the open file since the last sync
    pending,    \* run's local: something was written since the last flush
    writer,     \* the writer goroutine
    today,      \* the date
    counts,     \* RejectFolder.counts
    firstAt,    \* RejectFolder.firstAt
    batch,      \* the swapped-out map each flush is emitting
    folder,     \* the folder's ticker goroutine
    added,      \* history: rejects added, per key
    emitted,    \* history: rejects carried by emitted events, per key
    main,       \* Run's goroutine
    crashed     \* an unrecovered panic has ended the process

chanVars   == <<queue, chan, sent, dropped, offered>>
diskVars   == <<file, files, logged, failing, dirty, pending, writer>>
foldVars   == <<counts, firstAt, batch, folder, added, emitted>>
vars == <<chanVars, diskVars, today, foldVars, main, crashed>>

Days == 0 .. LastDay
NoFile == -1
Event == [id : Nat \ {0}, day : Days]

\* The two goroutines that may run RejectFolder.flush.
Flushers == {"ticker", "closer"}
NoBatch == [k \in Keys |-> 0]

\* The points of Run's deferred function: serving until the service has
\* stopped, then Note(stop), rejects.Close and Journal.Close.
MainSteps == {"serving", "noting", "stopping", "swapping", "emitting",
              "closing", "waiting", "returned"}

----------------------------------------------------------------------------
(* Append: the three outcomes of a select-send with a default case.        *)

\* Writer.Append, case w.events <- e.
Send(d) ==
    /\ chan = "open"
    /\ Len(queue) < QueueSize
    /\ queue' = Append(queue, [id |-> sent + 1, day |-> d])
    /\ sent' = sent + 1
    /\ offered' = offered + 1
    /\ UNCHANGED <<chan, dropped, crashed>>

\* Mutant of Drop: the event is discarded without being counted.
DropSilently ==
    /\ chan = "open"
    /\ Len(queue) = QueueSize
    /\ offered' = offered + 1
    /\ UNCHANGED <<queue, chan, sent, dropped, crashed>>

\* Writer.Append, default: the queue is full.
Drop ==
    /\ chan = "open"
    /\ Len(queue) = QueueSize
    /\ dropped' = dropped + 1
    /\ offered' = offered + 1
    /\ UNCHANGED <<queue, chan, sent, crashed>>

\* Writer.Append after Close: the send case of the select panics.
Panic(recovered) ==
    /\ chan = "closed"
    /\ crashed' = ~recovered
    /\ UNCHANGED chanVars

AppendEvent(d, recovered) == Send(d) \/ Drop \/ Panic(recovered)

\* Runtime.Note and FromSample, from a goroutine whose panics are recovered or
\* not: a note is dated now, a request by its start (Sample.At), which may lie
\* before midnight when its end does not.
Note(recovered) ==
    /\ offered < MaxOffered \/ chan = "closed"
    /\ \E d \in {today - 1, today} \cap Days : AppendEvent(d, recovered)
    /\ UNCHANGED <<diskVars, today, foldVars, main>>

----------------------------------------------------------------------------
(* The writer goroutine.  Receiving and writing are one step: the writer    *)
(* is the only reader of the channel and the only user of the file.         *)

Rest == UNCHANGED <<today, foldVars, main, crashed>>

Take ==
    /\ writer = "running"
    /\ queue # <<>>
    /\ queue' = Tail(queue)
    /\ UNCHANGED <<chan, sent, dropped, offered>>

\* The files after the rotation to day d: O_CREATE|O_APPEND keeps what is
\* there.  A file that prune has unlinked stays open but is not on disk.
OpenedFile(d) ==
    IF file = d \/ d \in DOMAIN files THEN files
    ELSE [x \in DOMAIN files \cup {d} |-> IF x = d THEN <<>> ELSE files[x]]

\* Writer.write, the line reaches the day's file.
WriteLine ==
    LET e == Head(queue) IN
    LET open == OpenedFile(e.day) IN
    /\ Take
    /\ file' = e.day
    /\ files' = IF e.day \in DOMAIN open
                THEN [open EXCEPT ![e.day] = Append(@, e.id)]
                ELSE open
    /\ logged' = logged \cup {e}
    /\ dirty' = TRUE
    /\ pending' = TRUE
    /\ UNCHANGED <<failing, writer>>
    /\ Rest

\* Writer.write, the day's file cannot be opened.
OpenFails ==
    /\ Take
    /\ file # Head(queue).day
    /\ file' = NoFile
    /\ dirty' = FALSE
    /\ failing' = TRUE
    /\ pending' = TRUE
    /\ UNCHANGED <<files, logged, writer>>
    /\ Rest

\* Writer.write, the line cannot be marshalled or the open file refuses it.
\* (A write that fails just after a rotation leaves the new file open.)
WriteFails ==
    /\ Take
    /\ failing' = TRUE
    /\ pending' = TRUE
    /\ \/ UNCHANGED <<file, files, dirty>>
       \/ /\ file # Head(queue).day
          /\ file' = Head(queue).day
          /\ files' = OpenedFile(Head(queue).day)
          /\ dirty' = FALSE
    /\ UNCHANGED <<logged, writer>>
    /\ Rest

\* run, the flush ticker.
FlushTick ==
    /\ writer = "running"
    /\ pending
    /\ dirty' = FALSE
    /\ pending' = FALSE
    /\ UNCHANGED <<chanVars, file, files, logged, failing, writer>>
    /\ Rest

\* Mutant of Expired: the end of the day is forgotten.
ExpiredEarly(d) == d + Retention <= today

\* prune: the end of day d lies before the cutoff, now minus the retention,
\* at any time of today after midnight.
Expired(d) == d + 1 + Retention <= today

\* run, the prune ticker: removes the expired files by name, an open one
\* included (the descriptor stays usable, the file is gone).
Prune ==
    /\ writer = "running"
    /\ \E d \in DOMAIN files : Expired(d)
    /\ files' = [d \in {x \in DOMAIN files : ~Expired(x)} |-> files[d]]
    /\ UNCHANGED <<chanVars, file, logged, failing, dirty, pending, writer>>
    /\ Rest

\* Mutant of Finished: the writer stops as soon as the channel is closed.
FinishedEarly == chan = "closed"

\* A receive from the closed channel reports !ok only once it is empty.
Finished == chan = "closed" /\ queue = <<>>

\* run, the channel is closed and drained: last flush, close(done).
WriterExit ==
    /\ writer = "running"
    /\ Finished
    /\ dirty' = FALSE
    /\ writer' = "done"
    /\ UNCHANGED <<chanVars, file, files, logged, failing, pending>>
    /\ Rest

----------------------------------------------------------------------------
(* The reject folder.                                                      *)

\* RejectFolder.Add, from the access middleware: open for as long as a
\* handler runs, the folder's Close included.
Add(k) ==
    /\ added[k] < MaxAdds
    /\ firstAt' = [firstAt EXCEPT ![k] = IF counts[k] = 0 THEN today ELSE @]
    /\ counts' = [counts EXCEPT ![k] = @ + 1]
    /\ added' = [added EXCEPT ![k] = @ + 1]
    /\ UNCHANGED <<chanVars, diskVars, today, batch, folder, emitted, main, crashed>>

\* Mutant of Swap: the counts are copied and not reset.
SwapKeeping(f) ==
    /\ batch' = [batch EXCEPT ![f] = [n |-> counts, at |-> firstAt]]
    /\ UNCHANGED <<counts, firstAt>>

\* flush, the part under the lock: take the maps, leave empty ones.
Swap(f) ==
    /\ batch' = [batch EXCEPT ![f] = [n |-> counts, at |-> firstAt]]
    /\ counts' = NoBatch
    /\ firstAt' = NoBatch

\* flush, the part outside the lock: one event per key, in map order.  The
\* event is dated by the first reject of the batch.
Emit(f, k) ==
    /\ batch[f].n[k] > 0
    /\ AppendEvent(batch[f].at[k], FALSE)
    /\ emitted' = [emitted EXCEPT ![k] = @ + batch[f].n[k]]
    /\ batch' = [batch EXCEPT ![f] = [n  |-> [@.n EXCEPT ![k] = 0],
                                      at |-> [@.at EXCEPT ![k] = 0]]]
    /\ UNCHANGED <<diskVars, today, counts, firstAt, folder, added, main>>

\* run: a tick starts a flush.  The select may prefer it to a closed stop.
FoldTick ==
    /\ folder = "waiting"
    /\ Swap("ticker")
    /\ folder' = "flushing"
    /\ UNCHANGED <<chanVars, diskVars, today, added, emitted, main, crashed>>

FoldEmit(k) == folder = "flushing" /\ Emit("ticker", k)

\* run: the flush is over, back to the select.
FoldFlushed ==
    /\ folder = "flushing"
    /\ batch["ticker"].n = NoBatch
    /\ folder' = "waiting"
    /\ UNCHANGED <<chanVars, diskVars, today, counts, firstAt, batch, added,
                   emitted, main, crashed>>

Stopped == main \notin {"serving", "noting", "stopping"}

\* run: the closed stop channel.
FoldExit ==
    /\ folder = "waiting"
    /\ Stopped
    /\ folder' = "gone"
    /\ UNCHANGED <<chanVars, diskVars, today, counts, firstAt, batch, added,
                   emitted, main, crashed>>

----------------------------------------------------------------------------
(* Run's goroutine.                                                        *)

\* Service.Run has returned.
ServiceStops ==
    /\ main = "serving"
    /\ main' = "noting"
    /\ UNCHANGED <<chanVars, diskVars, today, foldVars, crashed>>

\* r.Note(stop), then closeRelay, which the Relay module describes.
NoteStop ==
    /\ main = "noting"
    /\ AppendEvent(today, FALSE)
    /\ main' = "stopping"
    /\ UNCHANGED <<diskVars, today, foldVars>>

\* RejectFolder.Close: close(stop) ...
CloseFolder ==
    /\ main = "stopping"
    /\ main' = "swapping"
    /\ UNCHANGED <<chanVars, diskVars, today, foldVars, crashed>>

\* ... and a flush of its own.
CloseSwap ==
    /\ main = "swapping"
    /\ Swap("closer")
    /\ main' = "emitting"
    /\ UNCHANGED <<chanVars, diskVars, today, folder, added, emitted, crashed>>

CloseEmit(k) == main = "emitting" /\ Emit("closer", k)

CloseEmitted ==
    /\ main = "emitting"
    /\ batch["closer"].n = NoBatch
    /\ main' = "closing"
    /\ UNCHANGED <<chanVars, diskVars, today, foldVars, crashed>>

\* Writer.Close, close(w.events).
CloseChannel ==
    /\ main = "closing"
    /\ chan' = "closed"
    /\ main' = "waiting"
    /\ UNCHANGED <<queue, sent, dropped, offered, diskVars, today, foldVars, crashed>>

\* Writer.Close, after <-w.done: the file is closed.
CloseFile ==
    /\ main = "waiting"
    /\ writer = "done"
    /\ file' = NoFile
    /\ main' = "returned"
    /\ UNCHANGED <<chanVars, files, logged, failing, dirty, pending, writer,
                   today, foldVars, crashed>>

----------------------------------------------------------------------------
NextDay ==
    /\ today < LastDay
    /\ today' = today + 1
    /\ UNCHANGED <<chanVars, diskVars, foldVars, main, crashed>>

Init ==
    /\ queue = <<>> /\ chan = "open"
    /\ sent = 0 /\ dropped = 0 /\ offered = 0
    /\ file = NoFile /\ files = [d \in {} |-> <<>>] /\ logged = {}
    /\ failing = FALSE /\ dirty = FALSE /\ pending = FALSE /\ writer = "running"
    /\ today = 0
    /\ counts = NoBatch /\ firstAt = NoBatch
    /\ batch = [f \in Flushers |-> [n |-> NoBatch, at |-> NoBatch]]
    /\ folder = "waiting" /\ added = NoBatch /\ emitted = NoBatch
    /\ main = "serving"
    /\ crashed = FALSE

WriterNext == WriteLine \/ OpenFails \/ WriteFails \/ FlushTick \/ Prune \/ WriterExit

MainNext ==
    \/ NoteStop \/ CloseFolder \/ CloseSwap \/ CloseEmitted
    \/ CloseChannel \/ CloseFile
    \/ \E k \in Keys : CloseEmit(k)

FolderNext == FoldTick \/ FoldFlushed \/ FoldExit \/ \E k \in Keys : FoldEmit(k)

Live ==
    \/ \E recovered \in BOOLEAN : Note(recovered)
    \/ \E k \in Keys : Add(k)
    \/ WriterNext \/ FolderNext \/ ServiceStops \/ MainNext \/ NextDay

Next == ~crashed /\ Live

\* Goroutines that can run do run: the writer, and Run once the service has
\* stopped.  Nothing obliges a caller, a ticker or the calendar to move.
Fairness == WF_vars(~crashed /\ WriterNext) /\ WF_vars(~crashed /\ MainNext)

Spec == Init /\ [][Next]_vars /\ Fairness

----------------------------------------------------------------------------
(* Properties.                                                             *)

ChanOK ==
    /\ queue \in Seq(Event)
    /\ Len(queue) <= QueueSize
    /\ chan \in {"open", "closed"}
    /\ sent \in Nat
    /\ dropped \in Nat
    /\ offered \in Nat
    /\ crashed \in BOOLEAN

DiskOK ==
    /\ file \in Days \cup {NoFile}
    /\ DOMAIN files \subseteq Days
    /\ files \in [DOMAIN files -> Seq(Nat \ {0})]
    /\ logged \subseteq Event
    /\ failing \in BOOLEAN
    /\ today \in Days

WriterOK ==
    /\ dirty \in BOOLEAN
    /\ pending \in BOOLEAN
    /\ writer \in {"running", "done"}
    /\ main \in MainSteps
    /\ folder \in {"waiting", "flushing", "gone"}

FoldOK ==
    /\ counts \in [Keys -> Nat]
    /\ firstAt \in [Keys -> Days]
    /\ batch \in [Flushers -> [n : [Keys -> Nat], at : [Keys -> Days]]]
    /\ added \in [Keys -> Nat]
    /\ emitted \in [Keys -> Nat]

\* Every variable has its type, and the channel holds at most its capacity.
TypeOK == ChanOK /\ DiskOK /\ WriterOK /\ FoldOK

Queued == {queue[i].id : i \in DOMAIN queue}
Logged == {e.id : e \in logged}

\* Nothing is lost unsaid (writer.go:27): an event offered is in the queue,
\* or in the log, never in both, unless it was counted as dropped, a write
\* error was recorded, or the channel was already closed.
Accounted ==
    /\ Queued \cap Logged = {}
    /\ Queued \cup Logged \subseteq 1 .. sent
    /\ ~failing => Queued \cup Logged = 1 .. sent
    /\ offered = sent + dropped

\* A day's file holds its events in the order Append accepted them, each
\* once, across rotations to an older day and back, and those still queued
\* come after them (one writer goroutine, write in writer.go:180).
InOrder ==
    /\ \A d \in DOMAIN files : \A i, j \in DOMAIN files[d] :
          i < j => files[d][i] < files[d][j]
    /\ \A d \in DOMAIN files : \A i \in DOMAIN files[d], j \in DOMAIN queue :
          files[d][i] < queue[j].id

\* An event that was counted as written is a line of its own day's file for
\* as long as that day is within the retention window, whatever rotation and
\* pruning did since (prune in writer.go:229).
RetentionKept ==
    \A e \in logged : e.day + Retention >= today =>
        /\ e.day \in DOMAIN files
        /\ \E i \in DOMAIN files[e.day] : files[e.day][i] = e.id

\* What was written stays as it was written: each day's file in the order of
\* Append, for its whole retention, across rotations and pruning.
FilesKept == InOrder /\ RetentionKept

\* Every reject added is counted once: still in the folder, in a batch one of
\* the two flushes is emitting, or carried by an event (flush in rejects.go).
RejectsConserved ==
    \A k \in Keys :
        added[k] = counts[k] + batch["ticker"].n[k] + batch["closer"].n[k] + emitted[k]

\* Once the service has stopped, Run returns, with every accepted event taken
\* from the queue and the last file synced and closed, unless a panic ends the
\* process first (Close in writer.go:127).
CloseDrains ==
    main = "noting" ~> \/ main = "returned" /\ queue = <<>> /\ ~dirty /\ file = NoFile
                       \/ crashed
=============================================================================
