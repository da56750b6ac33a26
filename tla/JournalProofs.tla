--------------------------- MODULE JournalProofs ---------------------------
(***************************************************************************)
(* Proofs about Journal, for every queue size, retention, set of rejects   *)
(* and run length: types; every event accounted for; every day's file in   *)
(* the order of Append; retention; no reject counted twice or lost.  And   *)
(* about JournalLog, for every set of events and of questions: what the    *)
(* log command lists and counts.                                           *)
(***************************************************************************)
EXTENDS Journal, JournalLog, SequenceTheorems, FiniteSetTheorems, WellFoundedInduction, TLAPS

----------------------------------------------------------------------------
(* What the three outcomes of Append do.                                   *)

\* Append either accepts an event with the next number, or leaves the queue
\* alone.
LEMMA AppendOutcome ==
    ASSUME ChanOK, NEW d \in Days, NEW recovered \in BOOLEAN,
           AppendEvent(d, recovered)
    PROVE  /\ ChanOK'
           /\ \/ /\ queue' = Append(queue, [id |-> sent + 1, day |-> d])
                 /\ sent' = sent + 1
                 /\ dropped' = dropped
                 /\ offered' = offered + 1
              \/ /\ UNCHANGED <<queue, sent>>
                 /\ dropped' = dropped + 1
                 /\ offered' = offered + 1
              \/ UNCHANGED <<queue, sent, dropped, offered>>
<1>1. CASE Send(d)
  <2>1. [id |-> sent + 1, day |-> d] \in Event
    BY DEF ChanOK, Event
  <2> QED BY <1>1, <2>1, JournalAssumption DEF ChanOK, Send
<1>2. CASE Drop
  BY <1>2 DEF ChanOK, Drop
<1>3. CASE Panic(recovered)
  BY <1>3 DEF ChanOK, Panic, chanVars
<1> QED BY <1>1, <1>2, <1>3 DEF AppendEvent

\* Taking the head of the queue keeps the channel's type.
LEMMA TakeOutcome ==
    ASSUME ChanOK, Take, UNCHANGED crashed
    PROVE  /\ ChanOK'
           /\ queue # <<>>
           /\ Len(queue) > 0
           /\ Head(queue) \in Event
           /\ queue[1] = Head(queue)
           /\ queue' = Tail(queue)
           /\ sent' = sent
<1> USE DEF ChanOK, Take
<1>1. queue \in Seq(Event) /\ queue # <<>>
  OBVIOUS
<1>2. Head(queue) \in Event /\ Tail(queue) \in Seq(Event)
  BY <1>1
<1>3. Len(Tail(queue)) = Len(queue) - 1 /\ Len(queue) > 0 /\ Len(queue) \in Nat
  BY <1>1
<1>4. Len(queue') <= QueueSize
  BY <1>3, JournalAssumption
<1> QED BY <1>1, <1>2, <1>3, <1>4

----------------------------------------------------------------------------
(* Types.                                                                  *)

\* Types, before anything is sent.
LEMMA TypeInit == Init => TypeOK
<1> SUFFICES ASSUME Init PROVE TypeOK
  OBVIOUS
<1> USE JournalAssumption DEF Init
<1>1. ChanOK
  <2>1. queue \in Seq(Event) /\ Len(queue) = 0
    OBVIOUS
  <2>2. Len(queue) <= QueueSize
    BY <2>1
  <2>3. chan = "open" /\ sent = 0 /\ dropped = 0 /\ offered = 0 /\ crashed = FALSE
    OBVIOUS
  <2> HIDE DEF Init
  <2> QED BY <2>1, <2>2, <2>3 DEF ChanOK
<1>2. DiskOK
  <2>1. DOMAIN files = {} /\ files \in [{} -> Seq(Nat \ {0})]
    OBVIOUS
  <2>2. file \in Days \cup {NoFile} /\ today \in Days
    BY DEF Days
  <2> QED BY <2>1, <2>2 DEF DiskOK
<1>3. WriterOK
  BY DEF WriterOK, MainSteps
<1>4. FoldOK
  BY DEF FoldOK, NoBatch, Flushers, Days
<1> QED BY <1>1, <1>2, <1>3, <1>4 DEF TypeOK

\* A file that is opened keeps the lines it has, or has none.
LEMMA OpenedFileType ==
    ASSUME DiskOK, NEW d \in Days
    PROVE  /\ DOMAIN OpenedFile(d) \subseteq Days
           /\ OpenedFile(d) \in [DOMAIN OpenedFile(d) -> Seq(Nat \ {0})]
<1> <<>> \in Seq(Nat \ {0})
  OBVIOUS
<1> QED BY DEF DiskOK, OpenedFile

\* No step breaks the types of the queue and its counters.
LEMMA StepChan ==
    ASSUME TypeOK, Next
    PROVE  ChanOK'
<1> USE DEF TypeOK, Rest
<1>1. CASE \E recovered \in BOOLEAN : Note(recovered)
  BY <1>1, AppendOutcome DEF Note
<1>2. CASE NoteStop
  BY <1>2, AppendOutcome DEF NoteStop, DiskOK
<1>3. CASE \E f \in Flushers, k \in Keys : Emit(f, k)
  <2>1. PICK f \in Flushers, k \in Keys : Emit(f, k)
    BY <1>3
  <2>2. batch[f].at[k] \in Days
    BY DEF FoldOK
  <2> QED BY <2>1, <2>2, AppendOutcome DEF Emit
<1>4. CASE WriteLine \/ OpenFails \/ WriteFails
  BY <1>4, TakeOutcome DEF WriteLine, OpenFails, WriteFails
<1>5. CASE FlushTick \/ Prune \/ WriterExit
  BY <1>5 DEF FlushTick, Prune, WriterExit, ChanOK, chanVars
<1>6. CASE CloseChannel
  BY <1>6 DEF CloseChannel, ChanOK
<1>7. CASE \/ \E k \in Keys : Add(k)
           \/ FoldTick \/ FoldFlushed \/ FoldExit
           \/ ServiceStops \/ CloseFolder \/ CloseSwap \/ CloseEmitted
           \/ CloseFile \/ NextDay
  <2>1. UNCHANGED <<chanVars, crashed>>
    BY <1>7 DEF Add, FoldTick, FoldFlushed, FoldExit, ServiceStops, CloseFolder,
                CloseSwap, CloseEmitted, CloseFile, NextDay
  <2> QED BY <2>1 DEF ChanOK, chanVars
<1> QED BY <1>1, <1>2, <1>3, <1>4, <1>5, <1>6, <1>7
        DEF Next, Live, WriterNext, MainNext, FolderNext, FoldEmit, CloseEmit, Flushers

\* The three ways the writer changes the files.
LEMMA WriteLineFiles ==
    ASSUME TypeOK, WriteLine
    PROVE  DiskOK'
<1> DEFINE e == Head(queue)
           open == OpenedFile(e.day)
<1>1. e \in Event /\ e.day \in Days /\ e.id \in Nat \ {0}
  BY TakeOutcome DEF TypeOK, WriteLine, Rest, Event
<1>2. /\ DOMAIN open \subseteq Days
      /\ open \in [DOMAIN open -> Seq(Nat \ {0})]
  BY <1>1, OpenedFileType DEF TypeOK
<1>3. /\ files' = IF e.day \in DOMAIN open
                  THEN [open EXCEPT ![e.day] = Append(@, e.id)] ELSE open
      /\ file' = e.day
      /\ logged' = logged \cup {e}
      /\ failing' = failing
      /\ today' = today
  BY DEF WriteLine, Rest
<1> HIDE DEF open, e
<1>4. files' \in [DOMAIN open -> Seq(Nat \ {0})]
  <2>1. CASE e.day \in DOMAIN open
    <3>1. open[e.day] \in Seq(Nat \ {0})
      BY <1>2, <2>1
    <3>2. Append(open[e.day], e.id) \in Seq(Nat \ {0})
      BY <1>1, <3>1
    <3> QED BY <1>2, <1>3, <2>1, <3>2
  <2> QED BY <1>2, <1>3, <2>1
<1> QED BY <1>1, <1>2, <1>3, <1>4 DEF TypeOK, DiskOK

\* Nor those of the files.
LEMMA StepDisk ==
    ASSUME TypeOK, Next
    PROVE  DiskOK'
<1> USE DEF TypeOK, Rest
<1>1. CASE WriteLine
  BY <1>1, WriteLineFiles
<1>2. CASE OpenFails
  BY <1>2 DEF OpenFails, DiskOK
<1>3. CASE WriteFails
  <2>1. Head(queue).day \in Days
    BY <1>3, TakeOutcome DEF WriteFails, Event
  <2>2. failing' = TRUE /\ logged' = logged /\ today' = today
    BY <1>3 DEF WriteFails
  <2>3. \/ files' = files /\ file' = file
        \/ files' = OpenedFile(Head(queue).day) /\ file' = Head(queue).day
    BY <1>3 DEF WriteFails
  <2> QED BY <2>1, <2>2, <2>3, OpenedFileType DEF DiskOK
<1>4. CASE Prune
  <2>1. DOMAIN files' \subseteq DOMAIN files
    BY <1>4 DEF Prune
  <2>2. files' \in [DOMAIN files' -> Seq(Nat \ {0})]
    BY <1>4 DEF Prune, DiskOK
  <2> QED BY <1>4, <2>1, <2>2 DEF Prune, DiskOK
<1>5. CASE FlushTick \/ WriterExit
  BY <1>5 DEF FlushTick, WriterExit, DiskOK
<1>6. CASE CloseFile
  BY <1>6 DEF CloseFile, DiskOK
<1>7. CASE NextDay
  BY <1>7, JournalAssumption DEF NextDay, DiskOK, diskVars, Days
<1>8. CASE \/ \E recovered \in BOOLEAN : Note(recovered)
           \/ \E f \in Flushers, k \in Keys : Emit(f, k)
           \/ \E k \in Keys : Add(k)
           \/ NoteStop \/ FoldTick \/ FoldFlushed \/ FoldExit
           \/ ServiceStops \/ CloseFolder \/ CloseSwap \/ CloseEmitted
           \/ CloseChannel
  <2>1. UNCHANGED <<diskVars, today>>
    BY <1>8 DEF Note, Emit, Add, NoteStop, FoldTick, FoldFlushed, FoldExit, ServiceStops,
                CloseFolder, CloseSwap, CloseEmitted, CloseChannel
  <2> QED BY <2>1 DEF DiskOK, diskVars
<1> QED BY <1>1, <1>2, <1>3, <1>4, <1>5, <1>6, <1>7, <1>8
        DEF Next, Live, WriterNext, MainNext, FolderNext, FoldEmit, CloseEmit, Flushers

\* Nor those of the writer's goroutine.
LEMMA StepWriter ==
    ASSUME TypeOK, Next
    PROVE  WriterOK'
<1> USE DEF TypeOK, WriterOK, Rest
<1>1. CASE WriterNext
  <2>1. UNCHANGED <<main, folder>>
    BY <1>1 DEF WriterNext, WriteLine, OpenFails, WriteFails, FlushTick, Prune, WriterExit, foldVars
  <2>2. /\ dirty' \in BOOLEAN
        /\ pending' \in BOOLEAN
        /\ writer' \in {"running", "done"}
    BY <1>1 DEF WriterNext, WriteLine, OpenFails, WriteFails, FlushTick, Prune, WriterExit
  <2> QED BY <2>1, <2>2
<1>2. CASE FoldTick \/ FoldFlushed \/ FoldExit
  BY <1>2 DEF FoldTick, FoldFlushed, FoldExit, diskVars
<1>3. CASE \/ NoteStop \/ CloseFolder \/ CloseSwap \/ CloseEmitted
           \/ CloseChannel \/ CloseFile \/ ServiceStops
  <2>1. UNCHANGED <<dirty, pending, writer, folder>>
    BY <1>3 DEF NoteStop, CloseFolder, CloseSwap, CloseEmitted, CloseChannel, CloseFile,
                ServiceStops, diskVars, foldVars
  <2>2. main' \in MainSteps
    BY <1>3 DEF NoteStop, CloseFolder, CloseSwap, CloseEmitted, CloseChannel, CloseFile,
                ServiceStops, MainSteps
  <2> QED BY <2>1, <2>2
<1>4. CASE \/ \E recovered \in BOOLEAN : Note(recovered)
           \/ \E f \in Flushers, k \in Keys : Emit(f, k)
           \/ \E k \in Keys : Add(k)
           \/ NextDay
  BY <1>4 DEF Note, Emit, Add, NextDay, diskVars, foldVars
<1> QED BY <1>1, <1>2, <1>3, <1>4
        DEF Next, Live, MainNext, FolderNext, FoldEmit, CloseEmit, Flushers

\* Nor those of the folder of rejects.
LEMMA StepFold ==
    ASSUME TypeOK, Next
    PROVE  FoldOK'
<1> USE DEF TypeOK, FoldOK, Rest
<1>1. CASE \E k \in Keys : Add(k)
  BY <1>1 DEF Add, DiskOK
<1>2. CASE FoldTick \/ CloseSwap
  <2>1. ASSUME NEW f \in Flushers, Swap(f)
        PROVE  /\ batch' \in [Flushers -> [n : [Keys -> Nat], at : [Keys -> Days]]]
               /\ counts' \in [Keys -> Nat]
               /\ firstAt' \in [Keys -> Days]
    BY <2>1, JournalAssumption DEF Swap, NoBatch, Days
  <2>2. "ticker" \in Flushers /\ "closer" \in Flushers
    BY DEF Flushers
  <2>3. UNCHANGED <<added, emitted>>
    BY <1>2 DEF FoldTick, CloseSwap
  <2> QED BY <1>2, <2>1, <2>2, <2>3 DEF FoldTick, CloseSwap
<1>3. CASE \E f \in Flushers, k \in Keys : Emit(f, k)
  <2>1. PICK f \in Flushers, k \in Keys : Emit(f, k)
    BY <1>3
  <2>2. batch[f].n \in [Keys -> Nat] /\ batch[f].at \in [Keys -> Days]
    OBVIOUS
  <2>3. batch' = [batch EXCEPT ![f] =
                    [n |-> [batch[f].n EXCEPT ![k] = 0],
                     at |-> [batch[f].at EXCEPT ![k] = 0]]]
    BY <2>1, <2>2 DEF Emit
  <2>4. [batch[f].n EXCEPT ![k] = 0] \in [Keys -> Nat]
    BY <2>2
  <2>5. [batch[f].at EXCEPT ![k] = 0] \in [Keys -> Days]
    BY <2>2, JournalAssumption DEF Days
  <2>6. emitted' \in [Keys -> Nat]
    BY <2>1, <2>2 DEF Emit
  <2>7. UNCHANGED <<counts, firstAt, added>>
    BY <2>1 DEF Emit
  <2> QED BY <2>3, <2>4, <2>5, <2>6, <2>7
<1>4. CASE \/ WriterNext
           \/ \E recovered \in BOOLEAN : Note(recovered)
           \/ NoteStop \/ FoldFlushed \/ FoldExit
           \/ ServiceStops \/ CloseFolder \/ CloseEmitted
           \/ CloseChannel \/ CloseFile \/ NextDay
  <2>1. UNCHANGED <<counts, firstAt, batch, added, emitted>>
    BY <1>4 DEF WriterNext, WriteLine, OpenFails, WriteFails, FlushTick, Prune, WriterExit,
                Note, NoteStop, FoldFlushed, FoldExit, ServiceStops,
                CloseFolder, CloseEmitted, CloseChannel, CloseFile, NextDay, foldVars
  <2> QED BY <2>1
<1> QED BY <1>1, <1>2, <1>3, <1>4
        DEF Next, Live, MainNext, FolderNext, FoldEmit, CloseEmit, Flushers

\* A step that changes nothing keeps the types.
LEMMA TypeStutter == TypeOK /\ UNCHANGED vars => TypeOK'
<1> SUFFICES ASSUME TypeOK, UNCHANGED vars PROVE TypeOK'
  OBVIOUS
<1> USE DEF vars, chanVars, diskVars, foldVars, TypeOK
<1>1. ChanOK'
  BY DEF ChanOK
<1>2. DiskOK'
  BY DEF DiskOK
<1>3. WriterOK'
  BY DEF WriterOK
<1>4. FoldOK'
  BY DEF FoldOK
<1> QED BY <1>1, <1>2, <1>3, <1>4

\* Every variable has its type, and the channel never exceeds its capacity.
THEOREM TypeCorrect == Spec => []TypeOK
<1>1. TypeOK /\ [Next]_vars => TypeOK'
  <2>1. CASE Next
    BY <2>1, StepChan, StepDisk, StepWriter, StepFold DEF TypeOK
  <2>2. CASE UNCHANGED vars
    BY <2>2, TypeStutter
  <2> QED BY <2>1, <2>2
<1> QED BY TypeInit, <1>1, PTL DEF Spec

----------------------------------------------------------------------------
(* The rejects.                                                            *)

\* A flush takes what the folder holds and leaves it empty: no reject of the
\* flusher's finished batch is at stake, because the batch was empty.
RejectsInv ==
    /\ RejectsConserved
    /\ folder # "flushing" => batch["ticker"].n = NoBatch
    /\ main \in {"serving", "noting", "stopping", "swapping"} => batch["closer"].n = NoBatch

\* A reject a step takes from one place is in another.
LEMMA RejectsStep ==
    ASSUME TypeOK, RejectsInv, Next
    PROVE  RejectsInv'
<1> USE DEF RejectsInv, RejectsConserved
<1>0. FoldOK /\ WriterOK
  BY DEF TypeOK
<1>1. CASE \E k \in Keys : Add(k)
  <2>1. UNCHANGED <<batch, emitted, folder, main>>
    BY <1>1 DEF Add
  <2>2. \A k \in Keys : added'[k] - added[k] = counts'[k] - counts[k]
    BY <1>0, <1>1 DEF Add, FoldOK
  <2>3. FoldOK'
    BY <1>1, StepFold
  <2> QED BY <1>0, <2>1, <2>2, <2>3 DEF FoldOK, Flushers
<1>2. CASE FoldTick
  <2>1. /\ batch' = [batch EXCEPT !["ticker"] = [n |-> counts, at |-> firstAt]]
        /\ counts' = NoBatch
        /\ folder' = "flushing"
        /\ UNCHANGED <<added, emitted, main>>
        /\ batch["ticker"].n = NoBatch
    BY <1>2 DEF FoldTick, Swap
  <2>2. batch'["ticker"].n = counts /\ batch'["closer"] = batch["closer"]
    BY <1>0, <2>1 DEF FoldOK, Flushers
  <2> QED BY <1>0, <2>1, <2>2 DEF FoldOK, NoBatch, Flushers
<1>3. CASE CloseSwap
  <2>1. /\ batch' = [batch EXCEPT !["closer"] = [n |-> counts, at |-> firstAt]]
        /\ counts' = NoBatch
        /\ main' = "emitting"
        /\ UNCHANGED <<added, emitted, folder>>
        /\ batch["closer"].n = NoBatch
    BY <1>3 DEF CloseSwap, Swap
  <2>2. batch'["closer"].n = counts /\ batch'["ticker"] = batch["ticker"]
    BY <1>0, <2>1 DEF FoldOK, Flushers
  <2> QED BY <1>0, <2>1, <2>2 DEF FoldOK, NoBatch, Flushers
<1>4. CASE \E k \in Keys : FoldEmit(k) \/ CloseEmit(k)
  <2>1. PICK f \in Flushers, k \in Keys :
             /\ Emit(f, k)
             /\ f = "ticker" => folder = "flushing"
             /\ f = "closer" => main = "emitting"
    BY <1>4 DEF FoldEmit, CloseEmit, Flushers
  <2>2. batch[f].n \in [Keys -> Nat]
    BY <1>0 DEF FoldOK
  <2>3. /\ batch'[f].n = [batch[f].n EXCEPT ![k] = 0]
        /\ \A g \in Flushers \ {f} : batch'[g] = batch[g]
    BY <1>0, <2>1, <2>2 DEF Emit, FoldOK
  <2>4. /\ emitted' = [emitted EXCEPT ![k] = @ + batch[f].n[k]]
        /\ UNCHANGED <<counts, added, folder, main>>
    BY <2>1 DEF Emit
  <2>5. ASSUME NEW x \in Keys
        PROVE  added'[x] = counts'[x] + batch'["ticker"].n[x] + batch'["closer"].n[x] + emitted'[x]
    <3>1. CASE f = "ticker"
      <4>1. batch'["closer"] = batch["closer"] /\ batch'["ticker"].n = [batch["ticker"].n EXCEPT ![k] = 0]
        BY <3>1, <2>3 DEF Flushers
      <4> QED BY <1>0, <3>1, <2>2, <2>4, <4>1 DEF FoldOK, Flushers
    <3>2. CASE f = "closer"
      <4>1. batch'["ticker"] = batch["ticker"] /\ batch'["closer"].n = [batch["closer"].n EXCEPT ![k] = 0]
        BY <3>2, <2>3 DEF Flushers
      <4> QED BY <1>0, <3>2, <2>2, <2>4, <4>1 DEF FoldOK, Flushers
    <3> QED BY <3>1, <3>2 DEF Flushers
  <2>6. folder' # "flushing" => batch'["ticker"].n = NoBatch
    BY <2>1, <2>3, <2>4 DEF Flushers
  <2>7. main' \in {"serving", "noting", "stopping", "swapping"} => batch'["closer"].n = NoBatch
    BY <2>1, <2>3, <2>4 DEF Flushers
  <2> QED BY <2>5, <2>6, <2>7
<1>5. CASE \/ WriterNext
           \/ \E recovered \in BOOLEAN : Note(recovered)
           \/ NoteStop \/ FoldFlushed \/ FoldExit
           \/ ServiceStops \/ CloseFolder \/ CloseEmitted
           \/ CloseChannel \/ CloseFile \/ NextDay
  <2>1. UNCHANGED <<counts, batch, added, emitted>>
    BY <1>5 DEF WriterNext, WriteLine, OpenFails, WriteFails, FlushTick, Prune, WriterExit, Rest,
                Note, NoteStop, FoldFlushed, FoldExit, ServiceStops,
                CloseFolder, CloseEmitted, CloseChannel, CloseFile, NextDay, foldVars
  <2>2. folder' # "flushing" => batch["ticker"].n = NoBatch
    BY <1>5 DEF WriterNext, WriteLine, OpenFails, WriteFails, FlushTick, Prune, WriterExit, Rest,
                Note, NoteStop, FoldFlushed, FoldExit, ServiceStops,
                CloseFolder, CloseEmitted, CloseChannel, CloseFile, NextDay, foldVars
  <2>3. main' \in {"serving", "noting", "stopping", "swapping"} => batch["closer"].n = NoBatch
    BY <1>5 DEF WriterNext, WriteLine, OpenFails, WriteFails, FlushTick, Prune, WriterExit, Rest,
                Note, NoteStop, FoldFlushed, FoldExit, ServiceStops,
                CloseFolder, CloseEmitted, CloseChannel, CloseFile, NextDay, foldVars
  <2> QED BY <2>1, <2>2, <2>3
<1> QED BY <1>1, <1>2, <1>3, <1>4, <1>5 DEF Next, Live, MainNext, FolderNext

\* No reject is counted twice or lost between the folder, the two goroutines
\* that may flush it and the events they emit.
THEOREM RejectsCounted == Spec => []RejectsConserved
<1>1. Init => RejectsInv
  BY DEF Init, RejectsInv, RejectsConserved, NoBatch, Flushers
<1>2. TypeOK /\ RejectsInv /\ [Next]_vars => RejectsInv'
  <2>1. CASE Next
    BY <2>1, RejectsStep
  <2>2. CASE UNCHANGED vars
    BY <2>2 DEF vars, foldVars, RejectsInv, RejectsConserved
  <2> QED BY <2>1, <2>2
<1>3. RejectsInv => RejectsConserved
  BY DEF RejectsInv
<1> QED BY <1>1, <1>2, <1>3, TypeCorrect, PTL DEF Spec

----------------------------------------------------------------------------
(* The log.                                                                *)

\* What a step does to the channel and to the disk, by kind of step.
Offer ==
    /\ \/ /\ \E d \in Days : queue' = Append(queue, [id |-> sent + 1, day |-> d])
          /\ sent' = sent + 1
          /\ dropped' = dropped
          /\ offered' = offered + 1
       \/ /\ UNCHANGED <<queue, sent>>
          /\ dropped' = dropped + 1
          /\ offered' = offered + 1
       \/ UNCHANGED <<queue, sent, dropped, offered>>
    /\ UNCHANGED <<file, files, logged, failing, today>>

NoLine == UNCHANGED <<queue, sent, dropped, offered, files, logged, failing>>

\* What a step may do to the queue and the files.
LEMMA StepKinds ==
    ASSUME TypeOK, Next
    PROVE  \/ Offer
           \/ WriteLine \/ OpenFails \/ WriteFails
           \/ Prune
           \/ NoLine /\ today' >= today /\ (file' = file \/ file' = NoFile)
<1>0. ChanOK /\ today \in Days
  BY DEF TypeOK, DiskOK
<1>1. CASE \E recovered \in BOOLEAN : Note(recovered)
  BY <1>0, <1>1, AppendOutcome DEF Note, Offer, diskVars
<1>2. CASE NoteStop
  BY <1>0, <1>2, AppendOutcome DEF NoteStop, Offer, diskVars
<1>3. CASE \E f \in Flushers, k \in Keys : Emit(f, k)
  <2>1. PICK f \in Flushers, k \in Keys : Emit(f, k)
    BY <1>3
  <2>2. batch[f].at[k] \in Days
    BY DEF TypeOK, FoldOK
  <2> QED BY <1>0, <2>1, <2>2, AppendOutcome DEF Emit, Offer, diskVars
<1>4. CASE WriterNext
  BY <1>0, <1>4 DEF WriterNext, FlushTick, WriterExit, NoLine, Rest, chanVars, Days
<1>5. CASE \/ \E k \in Keys : Add(k)
           \/ FoldTick \/ FoldFlushed \/ FoldExit
           \/ ServiceStops \/ CloseFolder \/ CloseSwap \/ CloseEmitted
           \/ CloseChannel \/ CloseFile \/ NextDay
  <2>1. UNCHANGED <<queue, sent, dropped, offered>>
    BY <1>5 DEF Add, FoldTick, FoldFlushed, FoldExit, ServiceStops, CloseFolder,
                CloseSwap, CloseEmitted, CloseChannel, CloseFile, NextDay, chanVars
  <2>2. UNCHANGED <<files, logged, failing>>
    BY <1>5 DEF Add, FoldTick, FoldFlushed, FoldExit, ServiceStops, CloseFolder,
                CloseSwap, CloseEmitted, CloseChannel, CloseFile, NextDay, diskVars
  <2>3. today' >= today
    BY <1>0, <1>5 DEF Add, FoldTick, FoldFlushed, FoldExit, ServiceStops, CloseFolder,
                CloseSwap, CloseEmitted, CloseChannel, CloseFile, NextDay, Days
  <2>4. file' = file \/ file' = NoFile
    BY <1>5 DEF Add, FoldTick, FoldFlushed, FoldExit, ServiceStops, CloseFolder,
                CloseSwap, CloseEmitted, CloseChannel, CloseFile, NextDay, diskVars
  <2> QED BY <2>1, <2>2, <2>3, <2>4 DEF NoLine
<1> QED BY <1>1, <1>2, <1>3, <1>4, <1>5
        DEF Next, Live, MainNext, FolderNext, FoldEmit, CloseEmit, Flushers

\* The numbers in the queue ascend and have all been handed out.
QueueInv ==
    /\ \A i \in DOMAIN queue : queue[i].id \in 1 .. sent
    /\ \A i, j \in DOMAIN queue : i < j => queue[i].id < queue[j].id

\* What has left the queue has a number below everything still in it.
LoggedInv ==
    /\ \A e \in logged : e.id \in 1 .. sent
    /\ \A e \in logged, j \in DOMAIN queue : e.id < queue[j].id

LinesInv ==
    /\ InOrder
    /\ \A d \in DOMAIN files : \A i \in DOMAIN files[d] : files[d][i] \in 1 .. sent

CoverInv ==
    /\ ~failing => \A n \in 1 .. sent : n \in Queued \cup Logged
    /\ offered = sent + dropped

\* A file that has been pruned while open belongs to an expired day.
KeptInv ==
    /\ RetentionKept
    /\ file # NoFile /\ file \notin DOMAIN files => Expired(file)

LogInv == QueueInv /\ LoggedInv /\ LinesInv /\ CoverInv /\ KeptInv

\* The event taken has the smallest number in the queue; the others move up.
LEMMA TakeOrder ==
    ASSUME TypeOK, QueueInv, Take
    PROVE  LET e == Head(queue) IN
           /\ e \in Event
           /\ e.id \in 1 .. sent
           /\ sent' = sent
           /\ \A j \in DOMAIN queue' : j + 1 \in DOMAIN queue /\ queue'[j] = queue[j + 1]
           /\ \A j \in DOMAIN queue' : e.id < queue'[j].id
           /\ Queued = {e.id} \cup Queued'
<1> DEFINE e == Head(queue)
<1>1. /\ queue \in Seq(Event) /\ queue # <<>> /\ queue' = Tail(queue)
      /\ sent' = sent /\ sent \in Nat
  BY DEF TypeOK, ChanOK, Take
<1>2. /\ e \in Event /\ e = queue[1]
      /\ Len(queue) \in Nat \ {0}
      /\ DOMAIN queue = 1 .. Len(queue)
      /\ DOMAIN queue' = 1 .. (Len(queue) - 1)
      /\ \A j \in 1 .. (Len(queue) - 1) : queue'[j] = queue[j + 1]
  <2>1. /\ Tail(queue) \in Seq(Event)
        /\ Len(Tail(queue)) = Len(queue) - 1
        /\ \A j \in 1 .. Len(Tail(queue)) : Tail(queue)[j] = queue[j + 1]
    BY <1>1, HeadTailProperties
  <2>2. e \in Event /\ e = queue[1]
    BY <1>1
  <2>3. Len(queue) \in Nat \ {0} /\ DOMAIN queue = 1 .. Len(queue)
    BY <1>1
  <2>4. DOMAIN queue' = 1 .. (Len(queue) - 1)
    BY <1>1, <2>1
  <2> QED BY <1>1, <2>1, <2>2, <2>3, <2>4
<1>3. \A j \in DOMAIN queue' : j + 1 \in DOMAIN queue /\ queue'[j] = queue[j + 1]
  BY <1>2
<1>4. 1 \in DOMAIN queue
  BY <1>2
<1>5. e.id \in 1 .. sent
  BY <1>2, <1>4 DEF QueueInv
<1>6. \A j \in DOMAIN queue' : e.id < queue'[j].id
  BY <1>2, <1>3, <1>4 DEF QueueInv
<1>7. Queued = {e.id} \cup Queued'
  <2>1. ASSUME NEW i \in DOMAIN queue PROVE queue[i].id \in {e.id} \cup Queued'
    <3>1. CASE i = 1
      BY <1>2, <3>1
    <3>2. CASE i # 1
      <4>1. i - 1 \in DOMAIN queue' /\ queue'[i - 1] = queue[i]
        BY <1>2, <2>1, <3>2
      <4> QED BY <4>1 DEF Queued
    <3> QED BY <3>1, <3>2
  <2>2. Queued' \subseteq Queued
    BY <1>3 DEF Queued
  <2>3. e.id \in Queued
    BY <1>2, <1>4 DEF Queued
  <2> QED BY <2>1, <2>2, <2>3 DEF Queued
<1> QED BY <1>1, <1>2, <1>3, <1>5, <1>6, <1>7

\* The event accepted has a number above all others.
LEMMA AppendOrder ==
    ASSUME TypeOK, QueueInv, NEW d \in Days,
           queue' = Append(queue, [id |-> sent + 1, day |-> d]), sent' = sent + 1
    PROVE  /\ QueueInv'
           /\ \A j \in DOMAIN queue' : \/ j \in DOMAIN queue /\ queue'[j] = queue[j]
                                       \/ queue'[j].id = sent + 1
           /\ Queued' = Queued \cup {sent + 1}
<1> DEFINE n == [id |-> sent + 1, day |-> d]
<1>1. /\ queue \in Seq(Event) /\ sent \in Nat /\ n \in Event
  BY DEF TypeOK, ChanOK, Event
<1>2. /\ Len(queue) \in Nat
      /\ DOMAIN queue = 1 .. Len(queue)
      /\ DOMAIN queue' = 1 .. (Len(queue) + 1)
      /\ \A i \in 1 .. Len(queue) : queue'[i] = queue[i]
      /\ queue'[Len(queue) + 1] = n
  <2>1. /\ Append(queue, n) \in Seq(Event)
        /\ Len(Append(queue, n)) = Len(queue) + 1
        /\ \A i \in 1 .. Len(queue) : Append(queue, n)[i] = queue[i]
        /\ Append(queue, n)[Len(queue) + 1] = n
    BY <1>1, AppendProperties
  <2>2. Len(queue) \in Nat /\ DOMAIN queue = 1 .. Len(queue)
    BY <1>1
  <2>3. DOMAIN queue' = 1 .. (Len(queue) + 1)
    BY <1>1, <2>1
  <2> QED BY <2>1, <2>2, <2>3
<1>3. n.id = sent + 1
  OBVIOUS
<1> HIDE DEF n
<1>4. \A j \in DOMAIN queue' : \/ j \in DOMAIN queue /\ queue'[j] = queue[j]
                               \/ j = Len(queue) + 1 /\ queue'[j].id = sent + 1
  BY <1>2, <1>3
<1>5. QueueInv'
  BY <1>1, <1>2, <1>4 DEF QueueInv
<1>6. Queued' = Queued \cup {sent + 1}
  <2>1. Queued' \subseteq Queued \cup {sent + 1}
    BY <1>4 DEF Queued
  <2>2. Queued \subseteq Queued'
    BY <1>2 DEF Queued
  <2>3. sent + 1 \in Queued'
    <3>1. Len(queue) + 1 \in DOMAIN queue'
      BY <1>2
    <3> QED BY <1>2, <1>3, <3>1 DEF Queued
  <2> QED BY <2>1, <2>2, <2>3
<1> QED BY <1>4, <1>5, <1>6

\* Rotation keeps every line: a file it creates is empty.
LEMMA OpenedFileLines ==
    ASSUME DiskOK, NEW d \in Days
    PROVE  /\ \A x \in DOMAIN files : x \in DOMAIN OpenedFile(d) /\ OpenedFile(d)[x] = files[x]
           /\ \A x \in DOMAIN OpenedFile(d) \ DOMAIN files : OpenedFile(d)[x] = <<>>
           /\ d \in DOMAIN OpenedFile(d) \/ (file = d /\ d \notin DOMAIN files)
BY DEF DiskOK, OpenedFile

\* A written line is the last of its file, and changes no other.
LEMMA WriteLineLines ==
    ASSUME TypeOK, WriteLine
    PROVE  LET e == Head(queue) IN
           /\ \A x \in DOMAIN files :
                 /\ x \in DOMAIN files'
                 /\ \A i \in DOMAIN files[x] :
                       i \in DOMAIN files'[x] /\ files'[x][i] = files[x][i]
           /\ \A x \in DOMAIN files' : \A i \in DOMAIN files'[x] :
                 \/ x \in DOMAIN files /\ i \in DOMAIN files[x] /\ files'[x][i] = files[x][i]
                 \/ files'[x][i] = e.id /\ \A j \in DOMAIN files'[x] : j <= i
           /\ \/ e.day \in DOMAIN files' /\ \E i \in DOMAIN files'[e.day] : files'[e.day][i] = e.id
              \/ file = e.day /\ e.day \notin DOMAIN files
<1> DEFINE e == Head(queue)
           open == OpenedFile(e.day)
<1>1. e \in Event /\ e.day \in Days /\ e.id \in Nat \ {0}
  BY TakeOutcome DEF TypeOK, WriteLine, Rest, Event
<1>2. /\ DOMAIN open \subseteq Days
      /\ open \in [DOMAIN open -> Seq(Nat \ {0})]
  BY <1>1, OpenedFileType DEF TypeOK
<1>3. /\ \A x \in DOMAIN files : x \in DOMAIN open /\ open[x] = files[x]
      /\ \A x \in DOMAIN open \ DOMAIN files : open[x] = <<>>
      /\ e.day \in DOMAIN open \/ (file = e.day /\ e.day \notin DOMAIN files)
  BY <1>1, OpenedFileLines DEF TypeOK
<1>4. files' = IF e.day \in DOMAIN open
               THEN [open EXCEPT ![e.day] = Append(@, e.id)] ELSE open
  BY DEF WriteLine
<1> HIDE DEF open, e
<1>5. CASE e.day \notin DOMAIN open
  <2>1. files' = open /\ \A x \in DOMAIN open : DOMAIN open[x] = {} \/ x \in DOMAIN files
    BY <1>3, <1>4, <1>5
  <2> QED BY <1>3, <1>5, <2>1 DEF e
<1>6. CASE e.day \in DOMAIN open
  <2> DEFINE old == open[e.day]
             new == Append(old, e.id)
  <2>1. old \in Seq(Nat \ {0})
    BY <1>2, <1>6
  <2>2. /\ Len(new) = Len(old) + 1
        /\ Len(old) \in Nat
        /\ DOMAIN old = 1 .. Len(old)
        /\ DOMAIN new = 1 .. (Len(old) + 1)
        /\ \A i \in 1 .. Len(old) : new[i] = old[i]
        /\ new[Len(old) + 1] = e.id
    <3>1. /\ new \in Seq(Nat \ {0})
          /\ Len(new) = Len(old) + 1
          /\ \A i \in 1 .. Len(old) : new[i] = old[i]
          /\ new[Len(old) + 1] = e.id
      BY <1>1, <2>1, AppendProperties
    <3>2. Len(old) \in Nat /\ DOMAIN old = 1 .. Len(old)
      BY <2>1
    <3>3. DOMAIN new = 1 .. (Len(old) + 1)
      BY <3>1
    <3> QED BY <3>1, <3>2, <3>3
  <2>3. /\ DOMAIN files' = DOMAIN open
        /\ files'[e.day] = new
        /\ \A x \in DOMAIN open \ {e.day} : files'[x] = open[x]
    BY <1>4, <1>6
  <2>4. e.day \in DOMAIN files => old = files[e.day]
    BY <1>3
  <2>5. e.day \notin DOMAIN files => old = <<>>
    BY <1>3, <1>6
  <2> HIDE DEF old, new
  <2>6. ASSUME NEW x \in DOMAIN files
        PROVE  /\ x \in DOMAIN files'
               /\ \A i \in DOMAIN files[x] : i \in DOMAIN files'[x] /\ files'[x][i] = files[x][i]
    <3>1. CASE x = e.day
      BY <1>3, <2>2, <2>3, <2>4, <2>6, <3>1
    <3>2. CASE x # e.day
      BY <1>3, <2>3, <2>6, <3>2
    <3> QED BY <3>1, <3>2
  <2>7. ASSUME NEW x \in DOMAIN files', NEW i \in DOMAIN files'[x]
        PROVE  \/ x \in DOMAIN files /\ i \in DOMAIN files[x] /\ files'[x][i] = files[x][i]
               \/ files'[x][i] = e.id /\ \A j \in DOMAIN files'[x] : j <= i
    <3>1. CASE x # e.day
      <4>1. files'[x] = open[x] /\ x \in DOMAIN open
        BY <2>3, <3>1
      <4>2. x \in DOMAIN files
        BY <1>3, <2>7, <4>1
      <4> QED BY <1>3, <4>1, <4>2
    <3>2. CASE x = e.day
      <4>1. CASE i \in 1 .. Len(old)
        <5>1. e.day \in DOMAIN files
          BY <2>2, <2>5, <4>1
        <5> QED BY <2>2, <2>3, <2>4, <3>2, <4>1, <5>1
      <4>2. CASE i = Len(old) + 1
        BY <2>2, <2>3, <3>2, <4>2
      <4> QED BY <2>2, <2>3, <3>2, <4>1, <4>2
    <3> QED BY <3>1, <3>2
  <2>8. e.day \in DOMAIN files' /\ \E i \in DOMAIN files'[e.day] : files'[e.day][i] = e.id
    BY <1>6, <2>2, <2>3
  <2> QED BY <2>6, <2>7, <2>8 DEF e
<1> QED BY <1>5, <1>6

\* The invariant of the files, before anything is sent.
LEMMA LogInvInit == Init => LogInv
<1> SUFFICES ASSUME Init PROVE LogInv
  OBVIOUS
<1>1. queue = <<>> /\ DOMAIN queue = {} /\ sent = 0 /\ offered = 0 /\ dropped = 0
      /\ DOMAIN files = {} /\ logged = {} /\ file = NoFile
  BY DEF Init
<1> QED BY <1>1 DEF LogInv, QueueInv, LoggedInv, LinesInv, InOrder, CoverInv, KeptInv,
                     RetentionKept

\* An event offered goes to the end of the queue, or is counted as dropped.
LEMMA OfferStep ==
    ASSUME TypeOK, LogInv, Offer
    PROVE  LogInv'
<1>0. sent \in Nat /\ dropped \in Nat /\ offered \in Nat
  BY DEF TypeOK, ChanOK
<1>1. UNCHANGED <<file, files, logged, failing, today>>
  BY DEF Offer
<1>2. KeptInv'
  BY <1>1 DEF LogInv, KeptInv, RetentionKept, Expired
<1>3. CASE UNCHANGED <<queue, sent>>
  <2>1. offered' = sent' + dropped'
    BY <1>0, <1>3 DEF Offer, LogInv, CoverInv
  <2> QED BY <1>1, <1>2, <1>3, <2>1
          DEF LogInv, QueueInv, LoggedInv, LinesInv, InOrder, CoverInv, Queued, Logged
<1>4. CASE /\ \E d \in Days : queue' = Append(queue, [id |-> sent + 1, day |-> d])
           /\ sent' = sent + 1
           /\ dropped' = dropped
           /\ offered' = offered + 1
  <2>1. /\ QueueInv'
        /\ \A j \in DOMAIN queue' : \/ j \in DOMAIN queue /\ queue'[j] = queue[j]
                                    \/ queue'[j].id = sent + 1
        /\ Queued' = Queued \cup {sent + 1}
    BY <1>4, AppendOrder DEF LogInv
  <2>2. LoggedInv'
    <3>1. \A e \in logged : e.id \in 1 .. sent
      BY DEF LogInv, LoggedInv
    <3>2. \A e \in logged : e.id \in 1 .. (sent + 1) /\ e.id < sent + 1
      BY <1>0, <3>1
    <3> QED BY <1>1, <1>4, <2>1, <3>2 DEF LogInv, LoggedInv
  <2>3. LinesInv'
    <3>1. \A d \in DOMAIN files : \A i \in DOMAIN files[d] : files[d][i] \in 1 .. sent
      BY DEF LogInv, LinesInv
    <3>2. \A d \in DOMAIN files : \A i \in DOMAIN files[d] :
             files[d][i] \in 1 .. (sent + 1) /\ files[d][i] < sent + 1
      BY <1>0, <3>1
    <3> QED BY <1>1, <1>4, <2>1, <3>2 DEF LogInv, LinesInv, InOrder
  <2>4. CoverInv'
    <3>1. offered' = sent' + dropped'
      BY <1>0, <1>4 DEF LogInv, CoverInv
    <3>2. \A n \in 1 .. (sent + 1) : n \in 1 .. sent \/ n = sent + 1
      BY <1>0
    <3>3. Logged' = Logged
      BY <1>1 DEF Logged
    <3> QED BY <1>1, <1>4, <2>1, <3>1, <3>2, <3>3 DEF LogInv, CoverInv
  <2> QED BY <1>2, <2>1, <2>2, <2>3, <2>4 DEF LogInv
<1> QED BY <1>3, <1>4 DEF Offer

\* What every way of taking an event preserves.
LEMMA TakeStep ==
    ASSUME TypeOK, LogInv, Take
    PROVE  /\ QueueInv'
           /\ offered' = sent' + dropped'
           /\ \A e \in logged : \A j \in DOMAIN queue' : e.id < queue'[j].id
           /\ \A d \in DOMAIN files : \A i \in DOMAIN files[d] :
                 /\ files[d][i] < Head(queue).id
                 /\ \A j \in DOMAIN queue' : files[d][i] < queue'[j].id
<1>1. /\ Head(queue).id \in 1 .. sent
      /\ sent' = sent
      /\ \A j \in DOMAIN queue' : j + 1 \in DOMAIN queue /\ queue'[j] = queue[j + 1]
  BY TakeOrder DEF LogInv
<1>2. queue \in Seq(Event) /\ queue # <<>> /\ queue' = Tail(queue)
  BY DEF TypeOK, ChanOK, Take
<1>3. 1 \in DOMAIN queue /\ Head(queue) = queue[1]
  BY <1>2
<1>4. DOMAIN queue' \subseteq Nat
  BY <1>2
<1>5. QueueInv'
  BY <1>1, <1>4 DEF LogInv, QueueInv
<1>6. offered' = sent' + dropped'
  BY DEF Take, LogInv, CoverInv
<1> QED BY <1>1, <1>3, <1>5, <1>6 DEF LogInv, LoggedInv, LinesInv, InOrder

\* A line written is the next of its day.
LEMMA WriteStep ==
    ASSUME TypeOK, LogInv, WriteLine
    PROVE  LogInv'
<1> DEFINE e == Head(queue)
<1>0. Take /\ file' = e.day /\ logged' = logged \cup {e} /\ failing' = failing /\ today' = today
  BY DEF WriteLine, Rest
<1>1. /\ e \in Event /\ e.id \in 1 .. sent /\ sent' = sent
      /\ \A j \in DOMAIN queue' : e.id < queue'[j].id
      /\ Queued = {e.id} \cup Queued'
  BY <1>0, TakeOrder DEF LogInv
<1>2. /\ QueueInv'
      /\ offered' = sent' + dropped'
      /\ \A x \in logged : \A j \in DOMAIN queue' : x.id < queue'[j].id
      /\ \A d \in DOMAIN files : \A i \in DOMAIN files[d] :
            /\ files[d][i] < e.id
            /\ \A j \in DOMAIN queue' : files[d][i] < queue'[j].id
  BY <1>0, TakeStep
<1>3. /\ \A x \in DOMAIN files :
            /\ x \in DOMAIN files'
            /\ \A i \in DOMAIN files[x] : i \in DOMAIN files'[x] /\ files'[x][i] = files[x][i]
      /\ \A x \in DOMAIN files' : \A i \in DOMAIN files'[x] :
            \/ x \in DOMAIN files /\ i \in DOMAIN files[x] /\ files'[x][i] = files[x][i]
            \/ files'[x][i] = e.id /\ \A j \in DOMAIN files'[x] : j <= i
      /\ \/ e.day \in DOMAIN files' /\ \E i \in DOMAIN files'[e.day] : files'[e.day][i] = e.id
         \/ file = e.day /\ e.day \notin DOMAIN files
  BY WriteLineLines
<1>4. e.day \in Days /\ e.day # NoFile
  BY <1>1 DEF Event, Days, NoFile
<1>5. \A x \in DOMAIN files' : DOMAIN files'[x] \subseteq Nat
  <2>1. DiskOK'
    BY WriteLineFiles
  <2> QED BY <2>1 DEF DiskOK
<1> HIDE DEF e
<1>6. LoggedInv'
  BY <1>0, <1>1, <1>2 DEF LogInv, LoggedInv
<1>7. LinesInv'
  <2>1. ASSUME NEW x \in DOMAIN files', NEW i \in DOMAIN files'[x]
        PROVE  /\ files'[x][i] \in 1 .. sent'
               /\ \A j \in DOMAIN queue' : files'[x][i] < queue'[j].id
    BY <1>1, <1>2, <1>3, <2>1 DEF LogInv, LinesInv
  <2>2. ASSUME NEW x \in DOMAIN files', NEW i \in DOMAIN files'[x], NEW j \in DOMAIN files'[x],
               i < j
        PROVE  files'[x][i] < files'[x][j]
    <3>1. i \in Nat /\ j \in Nat /\ ~(j <= i)
      BY <1>5, <2>2
    <3>2. x \in DOMAIN files /\ i \in DOMAIN files[x] /\ files'[x][i] = files[x][i]
      BY <1>3, <2>2, <3>1
    <3>3. CASE j \in DOMAIN files[x] /\ files'[x][j] = files[x][j]
      BY <2>2, <3>2, <3>3 DEF LogInv, LinesInv, InOrder
    <3>4. CASE files'[x][j] = e.id
      BY <1>2, <3>2, <3>4
    <3> QED BY <1>3, <2>2, <3>3, <3>4
  <2> QED BY <2>1, <2>2 DEF LinesInv, InOrder
<1>8. CoverInv'
  <2>1. Logged' = Logged \cup {e.id}
    BY <1>0 DEF Logged
  <2> QED BY <1>0, <1>1, <1>2, <2>1 DEF LogInv, CoverInv
<1>9. KeptInv'
  <2>1. file # NoFile /\ file \notin DOMAIN files => Expired(file)
    BY DEF LogInv, KeptInv
  <2>2. ASSUME NEW x \in logged', x.day + Retention >= today'
        PROVE  x.day \in DOMAIN files' /\ \E i \in DOMAIN files'[x.day] : files'[x.day][i] = x.id
    <3>1. CASE x \in logged
      <4>1. x.day \in DOMAIN files /\ \E i \in DOMAIN files[x.day] : files[x.day][i] = x.id
        BY <1>0, <2>2, <3>1 DEF LogInv, KeptInv, RetentionKept
      <4> QED BY <1>3, <4>1
    <3>2. CASE x = e
      <4>1. ~Expired(e.day)
        BY <1>0, <1>4, <2>2, <3>2, JournalAssumption DEF Expired, TypeOK, DiskOK, Days
      <4> QED BY <1>3, <1>4, <2>1, <3>2, <4>1
    <3> QED BY <1>0, <2>2, <3>1, <3>2
  <2>3. file' \notin DOMAIN files' => Expired(file)'
    BY <1>0, <1>3, <1>4, <2>1 DEF Expired
  <2> QED BY <2>2, <2>3 DEF KeptInv, RetentionKept
<1> QED BY <1>2, <1>6, <1>7, <1>8, <1>9 DEF LogInv

\* A line that cannot be written is no longer owed.
LEMMA FailStep ==
    ASSUME TypeOK, LogInv, OpenFails \/ WriteFails
    PROVE  LogInv'
<1>0. Take /\ logged' = logged /\ failing' = TRUE /\ today' = today
  BY DEF OpenFails, WriteFails, Rest
<1>1. /\ Head(queue).day \in Days /\ sent' = sent
  BY <1>0, TakeOrder DEF LogInv, Event
<1>2. /\ QueueInv'
      /\ offered' = sent' + dropped'
      /\ \A x \in logged : \A j \in DOMAIN queue' : x.id < queue'[j].id
      /\ \A d \in DOMAIN files : \A i \in DOMAIN files[d] :
            \A j \in DOMAIN queue' : files[d][i] < queue'[j].id
  BY <1>0, TakeStep
<1>3. /\ \A x \in DOMAIN files : x \in DOMAIN files' /\ files'[x] = files[x]
      /\ \A x \in DOMAIN files' \ DOMAIN files : DOMAIN files'[x] = {}
      /\ \/ file' = NoFile
         \/ file' = file /\ files' = files
         \/ file' \in DOMAIN files'
  <2>1. CASE OpenFails
    BY <2>1 DEF OpenFails
  <2>2. CASE WriteFails
    <3>1. CASE file' = file /\ files' = files
      BY <3>1
    <3>2. CASE /\ file # Head(queue).day
               /\ file' = Head(queue).day
               /\ files' = OpenedFile(Head(queue).day)
      BY <1>1, <3>2, OpenedFileLines DEF TypeOK
    <3> QED BY <2>2, <3>1, <3>2 DEF WriteFails
  <2> QED BY <2>1, <2>2
<1>4. LoggedInv'
  BY <1>0, <1>1, <1>2 DEF LogInv, LoggedInv
<1>5. LinesInv'
  BY <1>1, <1>2, <1>3 DEF LogInv, LinesInv, InOrder
<1>6. CoverInv'
  BY <1>0, <1>2 DEF LogInv, CoverInv
<1>7. KeptInv'
  <2>1. RetentionKept'
    BY <1>0, <1>3 DEF LogInv, KeptInv, RetentionKept
  <2>2. file' # NoFile /\ file' \notin DOMAIN files' => Expired(file)'
    BY <1>0, <1>3 DEF LogInv, KeptInv, Expired
  <2> QED BY <2>1, <2>2 DEF KeptInv
<1> QED BY <1>2, <1>4, <1>5, <1>6, <1>7 DEF LogInv

\* A day pruned takes its lines with it, and no other.
LEMMA PruneStep ==
    ASSUME TypeOK, LogInv, Prune
    PROVE  LogInv'
<1>1. UNCHANGED <<queue, sent, dropped, offered, file, logged, failing, today>>
  BY DEF Prune, Rest, chanVars
<1>2. /\ DOMAIN files' \subseteq DOMAIN files
      /\ \A d \in DOMAIN files' : files'[d] = files[d]
      /\ \A d \in DOMAIN files : Expired(d) \/ d \in DOMAIN files'
  BY DEF Prune
<1>3. LinesInv'
  BY <1>1, <1>2 DEF LogInv, LinesInv, InOrder
<1>4. KeptInv'
  <2>1. ASSUME NEW e \in logged, e.day + Retention >= today
        PROVE  ~Expired(e.day)
    BY <2>1, JournalAssumption DEF Expired, TypeOK, DiskOK, Event, Days
  <2>2. RetentionKept'
    BY <1>1, <1>2, <2>1 DEF LogInv, KeptInv, RetentionKept
  <2>3. \A d \in Days : Expired(d) => Expired(d)'
    BY <1>1 DEF Expired
  <2>4. file # NoFile /\ file \notin DOMAIN files' => Expired(file)'
    BY <1>1, <1>2, <2>3 DEF LogInv, KeptInv, TypeOK, DiskOK
  <2> QED BY <1>1, <2>2, <2>4 DEF KeptInv
<1> QED BY <1>1, <1>3, <1>4
        DEF LogInv, QueueInv, LoggedInv, CoverInv, Queued, Logged

\* A step that writes no line leaves all of it as it was.
LEMMA AsideStep ==
    ASSUME TypeOK, LogInv, NoLine, today' \in Days, today' >= today,
           file' = file \/ file' = NoFile
    PROVE  LogInv'
<1>1. KeptInv'
  <2>1. RetentionKept'
    <3>1. \A e \in logged : e.day + Retention >= today' => e.day + Retention >= today
      BY JournalAssumption DEF TypeOK, DiskOK, Event, Days
    <3> QED BY <3>1 DEF LogInv, KeptInv, RetentionKept, NoLine
  <2>2. \A d \in Days : Expired(d) => Expired(d)'
    BY JournalAssumption DEF Expired, TypeOK, DiskOK, Days
  <2> QED BY <2>1, <2>2 DEF LogInv, KeptInv, NoLine, TypeOK, DiskOK
<1> QED BY <1>1
        DEF LogInv, QueueInv, LoggedInv, LinesInv, InOrder, CoverInv, Queued, Logged, NoLine

\* The invariant behind the three theorems on the log.
LEMMA LogCorrect == Spec => []LogInv
<1>1. TypeOK /\ LogInv /\ [Next]_vars => LogInv'
  <2> SUFFICES ASSUME TypeOK, LogInv, [Next]_vars PROVE LogInv'
    OBVIOUS
  <2>1. CASE Next
    <3>1. today' \in Days
      BY <2>1, StepDisk DEF DiskOK
    <3> QED BY <2>1, <3>1, StepKinds, OfferStep, WriteStep, FailStep, PruneStep, AsideStep
  <2>2. CASE UNCHANGED vars
    <3>1. NoLine /\ today' = today /\ file' = file
      BY <2>2 DEF vars, chanVars, diskVars, NoLine
    <3>2. today \in Days /\ today >= today
      BY DEF TypeOK, DiskOK, Days
    <3> QED BY <3>1, <3>2, AsideStep
  <2> QED BY <2>1, <2>2
<1> QED BY LogInvInit, <1>1, TypeCorrect, PTL DEF Spec

\* An event offered before Close is queued, logged, counted as dropped, or
\* covered by a recorded write error; never queued and logged at once.
THEOREM NothingLostUnsaid == Spec => []Accounted
<1>1. TypeOK /\ LogInv => Accounted
  <2> SUFFICES ASSUME TypeOK, LogInv PROVE Accounted
    OBVIOUS
  <2>1. sent \in Nat
    BY DEF TypeOK, ChanOK
  <2>2. Queued \cup Logged \subseteq 1 .. sent
    BY DEF LogInv, QueueInv, LoggedInv, Queued, Logged
  <2>3. Queued \cap Logged = {}
    <3> SUFFICES ASSUME NEW e \in logged, NEW j \in DOMAIN queue PROVE e.id # queue[j].id
      BY DEF Queued, Logged
    <3>1. e.id < queue[j].id /\ e.id \in 1 .. sent /\ queue[j].id \in 1 .. sent
      BY DEF LogInv, LoggedInv, QueueInv
    <3> QED BY <2>1, <3>1
  <2> QED BY <2>2, <2>3 DEF LogInv, CoverInv, Accounted
<1> QED BY <1>1, LogCorrect, TypeCorrect, PTL

\* Rotation back and forth never disturbs the order of a day's lines.
THEOREM LinesInOrder == Spec => []InOrder
<1>1. LogInv => InOrder
  BY DEF LogInv, LinesInv
<1> QED BY <1>1, LogCorrect, PTL

\* A written event stays on disk for the whole retention window.
THEOREM RetentionHolds == Spec => []RetentionKept
<1>1. LogInv => RetentionKept
  BY DEF LogInv, KeptInv
<1> QED BY <1>1, LogCorrect, PTL

\* The files keep their order and their events (write, prune).
THEOREM FilesAreKept == Spec => []FilesKept
<1>1. InOrder /\ RetentionKept => FilesKept
  BY DEF FilesKept
<1> QED BY <1>1, LinesInOrder, RetentionHolds, PTL

----------------------------------------------------------------------------
(* What the log command lists.                                             *)

Line  == [id : Nat, whole : BOOLEAN, at : Nat, says : Contents]
Posed == [since : Int, until : Int, status : Nat, slow : BOOLEAN, named : BOOLEAN,
          failedOnly : BOOLEAN, includeNoise : BOOLEAN, limit : Nat]
Scans == [step : {"idle", "scanning", "answered", "failed"}, todo : SUBSET DayNumbers,
          day : DayNumbers \cup {NoDay}, pos : Nat, ring : Seq(Line), hidden : Nat]

\* The files: each has the lines of its own day, in the order they were written.
FilesOK ==
    /\ moment \in 0 .. LogHorizon
    /\ lines \in [DayNumbers -> Seq(Line)]
    /\ linked \subseteq DayNumbers
    /\ \A d \in DayNumbers : \A i \in DOMAIN lines[d] : DayOf(lines[d][i].at) = d
    /\ \A d \in DayNumbers : \A i, j \in DOMAIN lines[d] : i < j => lines[d][i].id < lines[d][j].id
    /\ IsFiniteSet(Written(lines))
    /\ \A l \in Written(lines) : l.id <= Cardinality(Written(lines))

\* The scan takes the days in order, and each file from its beginning.
ScanOK ==
    /\ scan \in Scans /\ query \in Posed
    /\ scan.day # NoDay => /\ scan.pos <= Len(lines[scan.day])
                           /\ \A d \in scan.todo : scan.day < d
    /\ scan.step # "scanning" => scan.day = NoDay /\ scan.todo = {}

\* A line the scan is past, and one that is still to come.
Past(l) ==
    /\ \A d \in scan.todo : DayOf(l.at) < d
    /\ scan.day # NoDay => \/ DayOf(l.at) < scan.day
                           \/ \E i \in DOMAIN lines[scan.day] : i <= scan.pos /\ l = lines[scan.day][i]
Ahead(l) ==
    \/ DayOf(l.at) \in scan.todo
    \/ scan.day # NoDay /\ \E i \in DOMAIN lines[scan.day] : i > scan.pos /\ l = lines[scan.day][i]

Wanted(l) == l.whole /\ Match(query, l) /\ ~Hides(query, l.says)

\* The ring has what was wanted of the lines the scan is past, in order.
RingOK ==
    /\ \A i \in DOMAIN scan.ring : /\ scan.ring[i] \in Written(lines)
                                   /\ Wanted(scan.ring[i]) /\ Past(scan.ring[i])
    /\ \A i, j \in DOMAIN scan.ring : i < j => Before(scan.ring[i], scan.ring[j])
    /\ query.limit # 0 => Len(scan.ring) <= query.limit

\* Of what was there, what is wanted is to come, is in the ring, or left it for
\* later lines.
Displaced(k) == Cut /\ \A i \in DOMAIN scan.ring : Before(k, scan.ring[i])
PresentOK ==
    /\ present \subseteq Written(lines)
    /\ \A k \in present : DayOf(k.at) \in scan.todo => DayOf(k.at) \in linked
    /\ scan.step \in {"scanning", "answered"} =>
          \A k \in present : Wanted(k) => Ahead(k) \/ (Past(k) /\ (k \in Listed \/ Displaced(k)))

ListInv == FilesOK /\ ScanOK /\ RingOK /\ PresentOK

\* What is counted as noise is so many of the lines the scan is past, and of
\* what was there all that is not to come.
Concealed(l) == l.whole /\ Match(query, l) /\ Hides(query, l.says)
CountedOf(H) ==
    /\ H \subseteq Written(lines) /\ \A l \in H : Concealed(l) /\ Past(l)
    /\ scan.hidden = Weight(H)
    /\ scan.step \in {"scanning", "answered"} =>
          \A k \in present : Concealed(k) => Ahead(k) \/ k \in H
HiddenOK == \E H : CountedOf(H)

\* A step that reads no line: the scan stays past what it is past, and what is
\* still there to be counted stays ahead.
Onward ==
    /\ Written(lines) \subseteq Written(lines)' /\ UNCHANGED query /\ scan'.hidden = scan.hidden
    /\ scan'.step \in {"scanning", "answered"} => scan.step \in {"scanning", "answered"}
    /\ \A k : Past(k) => Past(k)'
    /\ \A k \in present' : k \in present /\ (Concealed(k) /\ Ahead(k) => Ahead(k)')

\* The length of a day is a day.
LEMMA DayFacts ==
    ASSUME NEW n \in Nat
    PROVE  /\ DayOf(n) \in Nat
           /\ DayOf(n) * DayLength <= n /\ n < (DayOf(n) + 1) * DayLength
<1>1. DayLength \in Nat \ {0}
  BY LogAssumption
<1> QED BY <1>1 DEF DayOf

\* Later moments are of later days, or the same.
LEMMA DaysPass ==
    ASSUME NEW n \in Nat, n <= LogHorizon
    PROVE  DayOf(n) \in DayNumbers
<1>1. DayLength \in Nat \ {0} /\ LogHorizon \in Nat
  BY LogAssumption
<1>2. DayOf(n) <= DayOf(LogHorizon) /\ DayOf(n) \in Nat /\ DayOf(LogHorizon) \in Nat
  <2> DEFINE a == DayOf(n)
             b == DayOf(LogHorizon)
  <2>1. /\ a \in Nat /\ b \in Nat /\ a * DayLength <= n
        /\ LogHorizon < (b + 1) * DayLength
    BY <1>1, DayFacts
  <2> HIDE DEF a, b
  <2>2. a * DayLength < (b + 1) * DayLength
    BY <1>1, <2>1
  <2>3. a < b + 1
    BY <1>1, <2>1, <2>2
  <2> QED BY <2>1, <2>3 DEF a, b
<1> QED BY <1>1, <1>2 DEF DayOf, DayNumbers

\* A day that is skipped has nothing of the period.
LEMMA SkippedDay ==
    ASSUME NEW q \in Posed, NEW l \in Line, skipDay(q, DayOf(l.at))
    PROVE  ~InPeriod(q, l.at)
<1> DEFINE d == DayOf(l.at)
<1>1. /\ d \in Nat /\ l.at \in Nat /\ d * DayLength <= l.at /\ l.at < (d + 1) * DayLength
  BY DayFacts DEF Line
<1>2. q.since \in Int /\ q.until \in Int /\ DayLength \in Nat
  BY LogAssumption DEF Posed
<1>3. \/ (d + 1) * DayLength <= q.since
      \/ q.until # NoBound /\ d * DayLength > q.until
  BY DEF skipDay
<1> HIDE DEF d
<1> QED BY <1>1, <1>2, <1>3 DEF InPeriod

----------------------------------------------------------------------------
(* A line is appended.                                                     *)

\* What has been written is in the file of its day.
LEMMA WrittenFacts ==
    ASSUME FilesOK
    PROVE  /\ \A d \in DayNumbers : \A i \in DOMAIN lines[d] :
                 lines[d][i] \in Written(lines) /\ lines[d][i] \in Line
           /\ \A l \in Written(lines) : /\ l \in Line /\ DayOf(l.at) \in DayNumbers
                                        /\ \E i \in DOMAIN lines[DayOf(l.at)] :
                                              l = lines[DayOf(l.at)][i]
<1>1. \A d \in DayNumbers : lines[d] \in Seq(Line)
  BY DEF FilesOK
<1>2. \A d \in DayNumbers : \A i \in DOMAIN lines[d] :
         lines[d][i] \in Written(lines) /\ lines[d][i] \in Line
  BY <1>1 DEF Written
<1>3. ASSUME NEW l \in Written(lines)
      PROVE  \E d \in DayNumbers : \E i \in DOMAIN lines[d] : l = lines[d][i]
  BY DEF Written
<1> QED BY <1>2, <1>3 DEF FilesOK

\* A line goes to the end of the file of its day, with a number of its own.
LEMMA AppendFiles ==
    ASSUME FilesOK, NEW c \in Contents, NEW at \in Nat, at <= moment, AppendLine(c, at)
    PROVE  /\ FilesOK'
           /\ Written(lines) \subseteq Written(lines)'
           /\ \A d \in DayNumbers : /\ DOMAIN lines[d] \subseteq DOMAIN lines'[d]
                                    /\ \A i \in DOMAIN lines[d] : lines'[d][i] = lines[d][i]
                                    /\ Len(lines[d]) <= Len(lines'[d])
<1> DEFINE d == DayOf(at)
           n == Cardinality(Written(lines))
           l == [id |-> n + 1, whole |-> d \notin ragged, at |-> at, says |-> c]
<1>1. n \in Nat
  BY FS_CardinalityType DEF FilesOK
<1>2. d \in DayNumbers
  BY DaysPass, LogAssumption DEF FilesOK
<1>3. l \in Line
  BY <1>1 DEF Line
<1>4. /\ lines' = [lines EXCEPT ![d] = Append(@, l)] /\ linked' = linked \cup {d}
      /\ UNCHANGED moment
  BY DEF AppendLine
<1>5. l.id = n + 1 /\ DayOf(l.at) = d
  OBVIOUS
<1> HIDE DEF d, n, l
<1>6. /\ lines[d] \in Seq(Line) /\ lines \in [DayNumbers -> Seq(Line)]
  BY <1>2 DEF FilesOK
<1>7. /\ lines'[d] \in Seq(Line) /\ lines'[d] = Append(lines[d], l)
      /\ Len(lines'[d]) = Len(lines[d]) + 1 /\ Len(lines[d]) \in Nat
      /\ DOMAIN lines[d] = 1 .. Len(lines[d]) /\ DOMAIN lines'[d] = 1 .. Len(lines[d]) + 1
      /\ \A i \in 1 .. Len(lines[d]) : lines'[d][i] = lines[d][i]
      /\ lines'[d][Len(lines[d]) + 1] = l
  BY <1>2, <1>3, <1>4, <1>6, AppendProperties, LenProperties
<1>8. \A x \in DayNumbers \ {d} : lines'[x] = lines[x]
  BY <1>2, <1>4, <1>6
<1>9. lines' \in [DayNumbers -> Seq(Line)]
  BY <1>2, <1>3, <1>4, <1>6
<1>10. \A x \in DayNumbers : lines[x] \in Seq(Line) /\ Len(lines[x]) \in Nat
  BY <1>6
<1>11. \A x \in DayNumbers : /\ DOMAIN lines[x] \subseteq DOMAIN lines'[x]
                             /\ \A i \in DOMAIN lines[x] : lines'[x][i] = lines[x][i]
                             /\ Len(lines[x]) <= Len(lines'[x])
  BY SMTT(30), <1>7, <1>8, <1>10
<1>12. \A x \in DayNumbers : \A i \in DOMAIN lines'[x] :
          \/ i \in DOMAIN lines[x] /\ lines'[x][i] = lines[x][i]
          \/ x = d /\ i = Len(lines[d]) + 1 /\ lines'[x][i] = l
  BY SMTT(30), <1>7, <1>8
<1>13. Written(lines)' = Written(lines) \cup {l}
  <2>1. ASSUME NEW k \in Written(lines)' PROVE k \in Written(lines) \cup {l}
    <3>1. PICK x \in DayNumbers : \E i \in DOMAIN lines'[x] : k = lines'[x][i]
      BY DEF Written
    <3> QED BY <3>1, <1>12 DEF Written
  <2>2. ASSUME NEW k \in Written(lines) PROVE k \in Written(lines)'
    <3>1. PICK x \in DayNumbers : \E i \in DOMAIN lines[x] : k = lines[x][i]
      BY DEF Written
    <3> QED BY <3>1, <1>11 DEF Written
  <2>3. l \in Written(lines)'
    <3>1. Len(lines[d]) + 1 \in DOMAIN lines'[d] /\ lines'[d][Len(lines[d]) + 1] = l
      BY <1>7
    <3> QED BY <1>2, <3>1 DEF Written
  <2> QED BY <2>1, <2>2, <2>3
<1>14. l \notin Written(lines)
  BY <1>1, <1>5 DEF FilesOK, n
<1>15. IsFiniteSet(Written(lines)') /\ Cardinality(Written(lines)') = n + 1
  BY <1>13, <1>14, FS_AddElement DEF FilesOK, n
<1>16. \A k \in Written(lines)' : k.id <= Cardinality(Written(lines)')
  <2>1. \A k \in Written(lines) : k \in Line /\ k.id <= n
    BY WrittenFacts DEF FilesOK, n
  <2> QED BY <1>1, <1>5, <1>13, <1>15, <2>1 DEF Line
<1>17. \A x \in DayNumbers : \A i \in DOMAIN lines'[x] : DayOf(lines'[x][i].at) = x
  BY <1>5, <1>12 DEF FilesOK
<1>18. ASSUME NEW x \in DayNumbers, NEW i \in DOMAIN lines'[x], NEW j \in DOMAIN lines'[x], i < j
       PROVE  lines'[x][i].id < lines'[x][j].id
  <2>1. CASE j \in DOMAIN lines[x]
    <3>1. i \in DOMAIN lines[x]
      BY <1>7, <1>8, <1>10, <1>18, <2>1
    <3> QED BY <1>11, <1>18, <2>1, <3>1 DEF FilesOK
  <2>2. CASE j \notin DOMAIN lines[x]
    <3>1. x = d /\ j = Len(lines[d]) + 1 /\ lines'[x][j] = l
      BY <1>12, <2>2
    <3>2. i \in DOMAIN lines[x] /\ lines'[x][i] = lines[x][i]
      BY <1>7, <1>12, <1>18, <3>1
    <3>3. lines[x][i] \in Written(lines) /\ lines[x][i] \in Line
      BY <3>2, WrittenFacts
    <3>4. lines[x][i].id <= n /\ lines[x][i].id \in Nat
      BY <3>3 DEF FilesOK, n, Line
    <3> QED BY <1>1, <1>5, <3>1, <3>2, <3>4
  <2> QED BY <2>1, <2>2
<1>19. moment' \in 0 .. LogHorizon /\ linked' \subseteq DayNumbers
  BY <1>2, <1>4 DEF FilesOK
<1>20. FilesOK'
  BY <1>9, <1>15, <1>16, <1>17, <1>18, <1>19 DEF FilesOK
<1> QED BY <1>11, <1>13, <1>20

----------------------------------------------------------------------------
(* The lines in their order.                                               *)

\* What the scan is past comes before the line it reads next.
LEMMA PastBefore ==
    ASSUME FilesOK, scan.day \in DayNumbers, scan.pos \in Nat,
           scan.pos + 1 \in DOMAIN lines[scan.day], NEW k, Past(k)
    PROVE  Before(k, lines[scan.day][scan.pos + 1])
<1> DEFINE m == lines[scan.day][scan.pos + 1]
<1>1. DayOf(m.at) = scan.day
  BY DEF FilesOK
<1>2. scan.day # NoDay
  BY DEF DayNumbers, NoDay
<1>3. CASE DayOf(k.at) < scan.day
  BY <1>1, <1>3 DEF Before
<1>4. ASSUME NEW i \in DOMAIN lines[scan.day], i <= scan.pos, k = lines[scan.day][i]
      PROVE  Before(k, m)
  <2>1. i < scan.pos + 1
    <3>1. lines[scan.day] \in Seq(Line)
      BY DEF FilesOK
    <3>2. i \in Nat
      BY <3>1
    <3> QED BY <1>4, <3>2
  <2>2. k.id < m.id /\ DayOf(k.at) = scan.day
    BY <1>4, <2>1 DEF FilesOK
  <2> QED BY <1>1, <2>2 DEF Before
<1> QED BY <1>2, <1>3, <1>4 DEF Past

\* The scan reads on: what it was past it is past, and the line it read too;
\* what was ahead is ahead, but for that line.
LEMMA ReadOn ==
    ASSUME FilesOK, ScanOK, scan.day # NoDay, scan.pos < Len(lines[scan.day]),
           NEW m, m = lines[scan.day][scan.pos + 1],
           scan'.todo = scan.todo, scan'.day = scan.day, scan'.pos = scan.pos + 1,
           UNCHANGED lines
    PROVE  /\ scan.day \in DayNumbers /\ scan.pos \in Nat /\ scan.pos + 1 \in DOMAIN lines[scan.day]
           /\ m \in Written(lines) /\ m \in Line
           /\ Past(m)' /\ \A k : Past(k) => Past(k)'
           /\ \A k : Ahead(k) => Ahead(k)' \/ k = m
<1>1. scan.day \in DayNumbers /\ scan.pos \in Nat /\ lines[scan.day] \in Seq(Line)
  BY DEF ScanOK, Scans, FilesOK
<1>2. scan.pos + 1 \in DOMAIN lines[scan.day]
  BY <1>1
<1>3. m \in Written(lines) /\ m \in Line /\ DayOf(m.at) = scan.day
  BY <1>1, <1>2, WrittenFacts DEF FilesOK
<1>4. Past(m)'
  <2>1. \A d \in scan'.todo : DayOf(m.at) < d
    BY <1>3 DEF ScanOK
  <2>2. scan.pos + 1 \in DOMAIN lines'[scan'.day] /\ scan.pos + 1 <= scan'.pos
        /\ m = lines'[scan'.day][scan.pos + 1]
    BY <1>1, <1>2
  <2> QED BY <2>1, <2>2 DEF Past
<1>5. ASSUME NEW k, Past(k) PROVE Past(k)'
  <2>1. \A i \in DOMAIN lines[scan.day] : i <= scan.pos => i <= scan.pos + 1
    BY <1>1
  <2> QED BY <1>5, <2>1 DEF Past
<1>6. ASSUME NEW k, Ahead(k) PROVE Ahead(k)' \/ k = m
  <2>1. \A i \in DOMAIN lines[scan.day] : i > scan.pos => i > scan.pos + 1 \/ i = scan.pos + 1
    BY <1>1
  <2> QED BY <1>6, <2>1 DEF Ahead
<1> QED BY <1>1, <1>2, <1>3, <1>4, <1>5, <1>6

\* A line pushed goes to the end of the ring, and takes the place of the first
\* where the limit is reached.
LEMMA PushFacts ==
    ASSUME ScanOK, RingOK, NEW l \in Line
    PROVE  /\ Push(l) \in Scans
           /\ Push(l).step = scan.step /\ Push(l).todo = scan.todo /\ Push(l).day = scan.day
           /\ Push(l).pos = scan.pos
           /\ Hides(query, l.says) => /\ Push(l).ring = scan.ring
                                      /\ Push(l).hidden = scan.hidden + Stands(l.says)
           /\ ~Hides(query, l.says) => Push(l).hidden = scan.hidden
           /\ ~Hides(query, l.says) =>
                 \/ /\ query.limit = 0 \/ Len(scan.ring) < query.limit
                    /\ Push(l).ring = Append(scan.ring, l)
                 \/ /\ query.limit # 0 /\ Len(scan.ring) = query.limit
                    /\ Push(l).ring = Append(Tail(scan.ring), l)
<1>1. /\ scan \in Scans /\ query.limit \in Nat /\ scan.ring \in Seq(Line) /\ scan.hidden \in Nat
  BY DEF ScanOK, Scans, Posed
<1>2. Stands(l.says) \in Nat
  BY LogAssumption DEF Line, Stands
<1>3. CASE Hides(query, l.says)
  <2>1. Push(l) = [scan EXCEPT !.hidden = scan.hidden + Stands(l.says)]
    BY <1>3 DEF Push
  <2>2. scan.hidden + Stands(l.says) \in Nat
    BY <1>1, <1>2
  <2> QED BY <1>1, <1>3, <2>1, <2>2 DEF Scans
<1>4. CASE ~Hides(query, l.says) /\ (query.limit = 0 \/ Len(scan.ring) < query.limit)
  <2>1. Push(l) = [scan EXCEPT !.ring = Append(scan.ring, l)]
    BY <1>4 DEF Push
  <2>2. Append(scan.ring, l) \in Seq(Line)
    BY <1>1
  <2> QED BY <1>1, <1>4, <2>1, <2>2 DEF Scans
<1>5. CASE ~Hides(query, l.says) /\ ~(query.limit = 0 \/ Len(scan.ring) < query.limit)
  <2>1. Push(l) = [scan EXCEPT !.ring = Append(Tail(scan.ring), l)]
    BY <1>5 DEF Push
  <2>2. query.limit # 0 /\ Len(scan.ring) = query.limit
    BY <1>1, <1>5 DEF RingOK
  <2>3. scan.ring # << >>
    BY <1>1, <2>2
  <2>4. Append(Tail(scan.ring), l) \in Seq(Line)
    BY <1>1, <2>3
  <2> QED BY <1>1, <1>5, <2>1, <2>2, <2>4 DEF Scans
<1> QED BY <1>3, <1>4, <1>5

\* A sequence that grows by one at its end: where each element is.
LEMMA Grown ==
    ASSUME NEW S, NEW s \in Seq(S), NEW e \in S, NEW p, p = Append(s, e)
    PROVE  /\ Len(p) = Len(s) + 1
           /\ \A i \in DOMAIN s : i \in DOMAIN p /\ p[i] = s[i]
           /\ Len(s) + 1 \in DOMAIN p /\ p[Len(s) + 1] = e
           /\ \A i \in DOMAIN p : i = Len(s) + 1 \/ i \in DOMAIN s
           /\ \A i, j \in DOMAIN p : i < j => i \in DOMAIN s
<1>1. /\ p \in Seq(S) /\ Len(p) = Len(s) + 1 /\ Len(s) \in Nat /\ Len(p) \in Nat
      /\ \A i \in 1 .. Len(s) : p[i] = s[i]
      /\ p[Len(s) + 1] = e
  BY AppendProperties, LenProperties
<1>2. DOMAIN s = 1 .. Len(s) /\ DOMAIN p = 1 .. Len(p)
  BY <1>1, LenProperties
<1> DEFINE n == Len(s)
<1>3. n \in Nat /\ DOMAIN s = 1 .. n /\ DOMAIN p = 1 .. n + 1
  BY <1>1, <1>2
<1> QED BY <1>1, <1>3

\* And one that loses its first as well.
LEMMA Moved ==
    ASSUME NEW S, NEW s \in Seq(S), NEW e \in S, NEW p, s # << >>, p = Append(Tail(s), e)
    PROVE  /\ Len(p) = Len(s)
           /\ Len(s) \in DOMAIN p /\ p[Len(s)] = e
           /\ \A i \in DOMAIN p : i = Len(s) \/ (i + 1 \in DOMAIN s /\ p[i] = s[i + 1] /\ 1 < i + 1)
           /\ \A i \in DOMAIN s : i = 1 \/ (i - 1 \in DOMAIN p /\ p[i - 1] = s[i])
           /\ \A i, j \in DOMAIN p : i < j => i # Len(s) /\ i + 1 < j + 1
           /\ 1 \in DOMAIN s
<1> DEFINE n == Len(s)
           r == Tail(s)
<1>1. n \in Nat \ {0} /\ DOMAIN s = 1 .. n
  BY EmptySeq, LenProperties
<1>2. r \in Seq(S) /\ Len(r) = n - 1 /\ \A i \in 1 .. Len(r) : r[i] = s[i + 1]
  BY HeadTailProperties
<1>3. p = Append(r, e)
  OBVIOUS
<1> HIDE DEF r
<1>4. /\ p \in Seq(S) /\ Len(p) = Len(r) + 1
      /\ \A i \in 1 .. Len(r) : p[i] = r[i]
      /\ p[Len(r) + 1] = e
  BY <1>2, <1>3, AppendProperties
<1>5. DOMAIN p = 1 .. Len(p)
  BY <1>4, LenProperties
<1> HIDE DEF n
<1>6. n \in Nat \ {0} /\ DOMAIN s = 1 .. n /\ DOMAIN p = 1 .. n /\ Len(p) = n /\ p[n] = e
  BY <1>1, <1>2, <1>4, <1>5
<1>7. \A i \in 1 .. n - 1 : p[i] = s[i + 1]
  BY <1>1, <1>2, <1>4
<1>8. \A i \in DOMAIN p : i = n \/ (i + 1 \in DOMAIN s /\ p[i] = s[i + 1] /\ 1 < i + 1)
  BY <1>6, <1>7
<1>9. ASSUME NEW i \in DOMAIN s, i # 1 PROVE i - 1 \in DOMAIN p /\ p[i - 1] = s[i]
  <2>1. i - 1 \in 1 .. n - 1 /\ (i - 1) + 1 = i
    BY <1>6, <1>9
  <2>2. p[i - 1] = s[(i - 1) + 1]
    BY <1>7, <2>1
  <2> QED BY <1>6, <2>1, <2>2
<1>10. \A i, j \in DOMAIN p : i < j => i # n /\ i + 1 < j + 1
  BY <1>6
<1>11. n \in DOMAIN p /\ 1 \in DOMAIN s
  BY <1>6
<1> QED BY <1>6, <1>8, <1>9, <1>10, <1>11 DEF n

RingInOrder(ring) == \A i, j \in DOMAIN ring : i < j => Before(ring[i], ring[j])
AllBefore(ring, l) == \A i \in DOMAIN ring : Before(ring[i], l)

\* A line pushed to a ring of at most a limit's lines, where 0 is no limit.
Pushed(ring, l, limit, pushed) ==
    \/ (limit = 0 \/ Len(ring) < limit) /\ pushed = Append(ring, l)
    \/ limit # 0 /\ Len(ring) = limit /\ pushed = Append(Tail(ring), l)

\* A ring that is pushed has the former lines and the new one, in order still,
\* and within the limit; a line that left it is before all that are in it.
LEMMA PushedRing ==
    ASSUME NEW ring \in Seq(Line), NEW l \in Line, NEW limit \in Nat, NEW pushed,
           limit # 0 => Len(ring) <= limit,
           RingInOrder(ring), AllBefore(ring, l), Pushed(ring, l, limit, pushed)
    PROVE  /\ limit # 0 => Len(pushed) <= limit
           /\ limit # 0 /\ Len(ring) = limit => Len(pushed) = limit
           /\ \A i \in DOMAIN pushed : pushed[i] = l \/ \E j \in DOMAIN ring : pushed[i] = ring[j]
           /\ RingInOrder(pushed)
           /\ \E i \in DOMAIN pushed : pushed[i] = l
           /\ \A i \in DOMAIN ring :
                 \/ \E j \in DOMAIN pushed : pushed[j] = ring[i]
                 \/ limit # 0 /\ Len(pushed) = limit /\ \A j \in DOMAIN pushed : Before(ring[i], pushed[j])
<1>1. CASE (limit = 0 \/ Len(ring) < limit) /\ pushed = Append(ring, l)
  <2>1. /\ Len(pushed) = Len(ring) + 1
        /\ \A i \in DOMAIN ring : i \in DOMAIN pushed /\ pushed[i] = ring[i]
        /\ Len(ring) + 1 \in DOMAIN pushed /\ pushed[Len(ring) + 1] = l
        /\ \A i \in DOMAIN pushed : i = Len(ring) + 1 \/ i \in DOMAIN ring
        /\ \A i, j \in DOMAIN pushed : i < j => i \in DOMAIN ring
    BY <1>1, Grown
  <2>2. RingInOrder(pushed)
    BY <2>1 DEF RingInOrder, AllBefore
  <2>3. (limit # 0 => Len(pushed) <= limit) /\ (limit # 0 /\ Len(ring) = limit => Len(pushed) = limit)
    <3>1. Len(ring) \in Nat
      BY LenProperties
    <3> QED BY <1>1, <2>1, <3>1
  <2> QED BY <2>1, <2>2, <2>3
<1>2. CASE limit # 0 /\ Len(ring) = limit /\ pushed = Append(Tail(ring), l)
  <2>1. ring # << >>
    BY <1>2, EmptySeq
  <2>2. /\ Len(pushed) = Len(ring)
        /\ Len(ring) \in DOMAIN pushed /\ pushed[Len(ring)] = l
        /\ \A i \in DOMAIN pushed :
              i = Len(ring) \/ (i + 1 \in DOMAIN ring /\ pushed[i] = ring[i + 1] /\ 1 < i + 1)
        /\ \A i \in DOMAIN ring : i = 1 \/ (i - 1 \in DOMAIN pushed /\ pushed[i - 1] = ring[i])
        /\ \A i, j \in DOMAIN pushed : i < j => i # Len(ring) /\ i + 1 < j + 1
        /\ 1 \in DOMAIN ring
    BY <1>2, <2>1, Moved
  <2>3. ASSUME NEW i \in DOMAIN pushed, NEW j \in DOMAIN pushed, i < j
        PROVE  Before(pushed[i], pushed[j])
    <3>1. i # Len(ring) /\ i + 1 < j + 1
      BY <2>2, <2>3
    <3>2. i + 1 \in DOMAIN ring /\ pushed[i] = ring[i + 1]
      BY <2>2, <3>1
    <3>3. CASE j = Len(ring)
      BY <2>2, <3>2, <3>3 DEF AllBefore
    <3>4. CASE j + 1 \in DOMAIN ring /\ pushed[j] = ring[j + 1]
      BY <3>1, <3>2, <3>4 DEF RingInOrder
    <3> QED BY <2>2, <3>3, <3>4
  <2>4. ASSUME NEW j \in DOMAIN pushed PROVE Before(ring[1], pushed[j])
    BY <2>2 DEF RingInOrder, AllBefore
  <2>5. Len(pushed) <= limit /\ Len(pushed) = limit
    BY <1>2, <2>2
  <2> QED BY <1>2, <2>2, <2>3, <2>4, <2>5 DEF RingInOrder
<1> QED BY <1>1, <1>2 DEF Pushed

----------------------------------------------------------------------------
(* Each step keeps the invariant.                                          *)

\* What is said of a line depends on the question and the scan alone.
LEMMA WantedSame ==
    ASSUME UNCHANGED query
    PROVE  \A k : Wanted(k)' <=> Wanted(k)
BY DEF Wanted, Match, InPeriod, Hides, SuppressesNoise

\* Where no line is written the files are as they were.
LEMMA FilesSame ==
    ASSUME FilesOK, UNCHANGED lines, moment' \in 0 .. LogHorizon, linked' \subseteq DayNumbers
    PROVE  FilesOK' /\ Written(lines)' = Written(lines)
<1>1. Written(lines)' = Written(lines)
  BY DEF Written
<1> QED BY <1>1 DEF FilesOK

\* A line appended while the files are read is ahead or in no file of the answer.
LEMMA AppendsKeeps ==
    ASSUME ListInv, Appends
    PROVE  ListInv' /\ Onward
<1>1. PICK c \in Contents, at \in moment - DayLength .. moment : at >= 0 /\ AppendLine(c, at)
  BY DEF Appends
<1>2. moment \in Int /\ DayLength \in Nat
  BY LogAssumption DEF ListInv, FilesOK
<1>3. at \in Nat /\ at <= moment
  BY <1>1, <1>2
<1>4. /\ FilesOK' /\ Written(lines) \subseteq Written(lines)'
      /\ \A d \in DayNumbers : /\ DOMAIN lines[d] \subseteq DOMAIN lines'[d]
                               /\ \A i \in DOMAIN lines[d] : lines'[d][i] = lines[d][i]
                               /\ Len(lines[d]) <= Len(lines'[d])
  BY <1>1, <1>3, AppendFiles DEF ListInv
<1>5. UNCHANGED <<moment, query, scan, present>> /\ linked \subseteq linked'
  BY <1>1 DEF AppendLine
<1>6. \A k : Wanted(k)' <=> Wanted(k)
  BY <1>5, WantedSame
<1>7. scan.day # NoDay => scan.day \in DayNumbers
  BY DEF ListInv, ScanOK, Scans
<1>8. \A k : Past(k) => Past(k)'
  BY <1>4, <1>5, <1>7 DEF Past
<1>9. \A k : Ahead(k) => Ahead(k)'
  BY <1>4, <1>5, <1>7 DEF Ahead
<1>10. ScanOK'
  <2>1. ScanOK /\ scan \in Scans
    BY DEF ListInv, ScanOK
  <2>2. scan.day # NoDay => scan.pos <= Len(lines'[scan.day])
    <3> SUFFICES ASSUME scan.day # NoDay PROVE scan.pos <= Len(lines'[scan.day])
      OBVIOUS
    <3>1. lines[scan.day] \in Seq(Line) /\ lines'[scan.day] \in Seq(Line)
      BY <1>4, <1>7 DEF ListInv, FilesOK
    <3>2. Len(lines[scan.day]) \in Nat /\ Len(lines'[scan.day]) \in Nat /\ scan.pos \in Nat
      BY <2>1, <3>1, LenProperties DEF Scans
    <3> QED BY <1>4, <1>7, <2>1, <3>2 DEF ScanOK
  <2> QED BY <1>5, <2>1, <2>2 DEF ScanOK
<1>11. RingOK'
  BY <1>4, <1>5, <1>6, <1>8 DEF ListInv, RingOK, Before
<1>12. PresentOK'
  BY <1>4, <1>5, <1>6, <1>8, <1>9 DEF ListInv, PresentOK, Listed, Displaced, Cut, Before
<1>13. Onward
  BY <1>4, <1>5, <1>8, <1>9 DEF Onward
<1> QED BY <1>4, <1>10, <1>11, <1>12, <1>13 DEF ListInv

\* A step that neither writes, removes nor reads a line.
LEMMA IdleKeeps ==
    ASSUME ListInv, UNCHANGED <<lines, linked, query, scan, present>>, moment' \in 0 .. LogHorizon
    PROVE  ListInv' /\ Onward
<1>1. UNCHANGED <<lines, linked, query, scan, present>> /\ moment' \in 0 .. LogHorizon
  OBVIOUS
<1>2. FilesOK'
  <2>1. moment' \in 0 .. LogHorizon /\ linked' \subseteq DayNumbers
    BY <1>1 DEF ListInv, FilesOK
  <2> QED BY <1>1, <2>1, FilesSame DEF ListInv
<1>3. ScanOK'
  BY <1>1 DEF ListInv, ScanOK
<1>4. \A k : (Wanted(k)' <=> Wanted(k)) /\ (Past(k)' <=> Past(k)) /\ (Ahead(k)' <=> Ahead(k))
  BY <1>1, WantedSame DEF Past, Ahead
<1>5. RingOK'
  BY <1>1, <1>4 DEF ListInv, RingOK, Before, Written
<1>6. PresentOK'
  BY <1>1, <1>4 DEF ListInv, PresentOK, Listed, Displaced, Cut, Before, Written
<1>7. Onward
  BY <1>1, <1>4 DEF Onward, Written
<1> QED BY <1>2, <1>3, <1>5, <1>6, <1>7 DEF ListInv

\* What is pruned before its day is opened is no longer there to be found.
LEMMA PruneDaysKeeps ==
    ASSUME ListInv, PruneDays
    PROVE  ListInv' /\ Onward
<1> DEFINE old == {d \in linked : d + 1 + KeepDays <= DayOf(moment)}
<1>1. /\ linked' = linked \ old
      /\ present' = {l \in present : DayOf(l.at) \notin old \cap scan.todo}
      /\ UNCHANGED <<moment, lines, query, scan>>
  BY DEF PruneDays
<1> HIDE DEF old
<1>2. FilesOK'
  <2>1. moment' \in 0 .. LogHorizon /\ linked' \subseteq DayNumbers
    BY <1>1 DEF ListInv, FilesOK
  <2> QED BY <1>1, <2>1, FilesSame DEF ListInv
<1>3. ScanOK'
  BY <1>1 DEF ListInv, ScanOK
<1>4. \A k : (Wanted(k)' <=> Wanted(k)) /\ (Past(k)' <=> Past(k)) /\ (Ahead(k)' <=> Ahead(k))
  BY <1>1, WantedSame DEF Past, Ahead
<1>5. RingOK'
  BY <1>1, <1>4 DEF ListInv, RingOK, Before, Written
<1>6. PresentOK'
  <2>1. present' \subseteq Written(lines)'
    BY <1>1 DEF ListInv, PresentOK, Written
  <2>2. \A k \in present' : DayOf(k.at) \in scan'.todo => DayOf(k.at) \in linked'
    BY <1>1 DEF ListInv, PresentOK
  <2>3. ASSUME scan'.step \in {"scanning", "answered"}, NEW k \in present', Wanted(k)'
        PROVE  Ahead(k)' \/ (Past(k)' /\ (k \in Listed' \/ Displaced(k)'))
    <3>1. Ahead(k) \/ (Past(k) /\ (k \in Listed \/ Displaced(k)))
      BY <1>1, <1>4, <2>3 DEF ListInv, PresentOK
    <3>2. (k \in Listed <=> k \in Listed') /\ (Displaced(k) <=> Displaced(k)')
      BY <1>1 DEF Listed, Displaced, Cut, Before
    <3> QED BY <1>4, <3>1, <3>2
  <2> QED BY <2>1, <2>2, <2>3 DEF PresentOK
<1>7. Onward
  BY <1>1, <1>4 DEF Onward, Written
<1> QED BY <1>2, <1>3, <1>5, <1>6, <1>7 DEF ListInv

\* A question: every file there is is to come.
LEMMA AskKeeps ==
    ASSUME ListInv, NEW q \in Queries, Ask(q)
    PROVE  ListInv'
<1>1. /\ query' = [q EXCEPT !.since = moment - @, !.until = IF @ = NoBound THEN @ ELSE moment - @]
      /\ scan' = [Unread EXCEPT !.step = "scanning", !.todo = linked]
      /\ present' = {l \in Written(lines) : l.whole /\ DayOf(l.at) \in linked}
      /\ UNCHANGED <<moment, lines, linked>>
  BY DEF Ask
<1>2. q \in Posed /\ moment \in Int
  BY LogAssumption DEF Posed, ListInv, FilesOK
<1>3. query' \in Posed
  <2> DEFINE u == IF q.until = NoBound THEN q.until ELSE moment - q.until
  <2>1. q.since \in Int /\ q.until \in Int /\ moment - q.since \in Int /\ u \in Int
    BY <1>2 DEF Posed
  <2>2. query' = [q EXCEPT !.since = moment - q.since, !.until = u]
    BY <1>1
  <2> HIDE DEF u
  <2> QED BY <1>2, <2>1, <2>2 DEF Posed
<1>4. /\ scan'.step = "scanning" /\ scan'.todo = linked /\ scan'.day = NoDay /\ scan'.ring = << >>
      /\ scan' \in Scans
  <2>1. linked \subseteq DayNumbers
    BY DEF ListInv, FilesOK
  <2>2. scan' = [step |-> "scanning", todo |-> linked, day |-> NoDay, pos |-> 0, ring |-> << >>,
                 hidden |-> 0]
    BY <1>1 DEF Unread, Reading
  <2>3. << >> \in Seq(Line)
    BY EmptySeq
  <2> QED BY <2>1, <2>2, <2>3 DEF Scans
<1>5. FilesOK'
  <2>1. moment' \in 0 .. LogHorizon /\ linked' \subseteq DayNumbers
    BY <1>1 DEF ListInv, FilesOK
  <2> QED BY <1>1, <2>1, FilesSame DEF ListInv
<1>6. ScanOK'
  BY <1>3, <1>4 DEF ScanOK
<1>7. RingOK'
  <2>1. DOMAIN scan'.ring = {} /\ Len(scan'.ring) = 0
    BY <1>4
  <2>2. query'.limit \in Nat
    BY <1>3 DEF Posed
  <2> QED BY <2>1, <2>2 DEF RingOK
<1>8. PresentOK'
  <2>1. \A k \in present' : Ahead(k)'
    BY <1>1, <1>4 DEF Ahead
  <2>2. present' \subseteq Written(lines)' /\ \A k \in present' : DayOf(k.at) \in linked'
    BY <1>1 DEF Written
  <2> QED BY <2>1, <2>2 DEF PresentOK
<1> QED BY <1>5, <1>6, <1>7, <1>8 DEF ListInv


\* A set of days has a first.
LEMMA Least ==
    ASSUME NEW T, T \subseteq Nat, T # {}
    PROVE  \E x \in T : \A y \in T : x <= y
<1> DEFINE R == OpToRel(<, Nat)
<1>1. IsWellFoundedOn(R, Nat)
  BY NatLessThanWellFounded
<1>2. \A x, y \in Nat : x < y => <<x, y>> \in R
  BY DEF OpToRel
<1> HIDE DEF R
<1>3. PICK x \in T : \A y \in T : ~ (<<y, x>> \in R)
  BY <1>1, WFMin
<1>4. \A y \in T : ~ (y < x)
  BY <1>2, <1>3
<1>5. \A y \in T : x <= y
  BY <1>4
<1> QED BY <1>5

\* The day that is read next is the first of those to come.
LEMMA FirstDay ==
    ASSUME ScanOK, Looking
    PROVE  DayToRead \in scan.todo /\ \A x \in scan.todo : x \in Nat /\ DayToRead <= x
<1>1. scan.todo \subseteq Nat /\ scan.todo # {}
  BY LogAssumption DEF ScanOK, Scans, Looking, DayNumbers
<1>2. \E d \in scan.todo : \A x \in scan.todo : d <= x
  BY <1>1, Least
<1> QED BY <1>1, <1>2 DEF DayToRead

\* A line torn, and the clock.
LEMMA AsideKeeps ==
    ASSUME ListInv, Tear \/ Pass
    PROVE  ListInv' /\ Onward
<1>1. moment \in 0 .. LogHorizon /\ LogHorizon \in Nat
  BY LogAssumption DEF ListInv, FilesOK
<1>2. UNCHANGED <<lines, linked, query, scan, present>> /\ moment' \in 0 .. LogHorizon
  BY <1>1 DEF Tear, Pass
<1> QED BY <1>2, IdleKeeps

\* What every step of the command leaves alone.
LEMMA ReadsOnly ==
    ASSUME ListInv, Aside, UNCHANGED present
    PROVE  /\ FilesOK' /\ Written(lines)' = Written(lines)
           /\ UNCHANGED <<lines, linked, query, present>>
           /\ \A k : Wanted(k)' <=> Wanted(k)
<1>1. moment' \in 0 .. LogHorizon /\ linked' \subseteq DayNumbers
  BY DEF Aside, ListInv, FilesOK
<1> QED BY <1>1, FilesSame, WantedSame DEF Aside, ListInv

\* A day that is passed over has nothing the question is about.
LEMMA PassDayKeeps ==
    ASSUME ListInv, PassDay
    PROVE  ListInv' /\ Onward
<1> DEFINE d == DayToRead
<1>1. /\ Looking /\ (skipDay(query, d) \/ d \notin linked)
      /\ scan' = [scan EXCEPT !.todo = scan.todo \ {d}]
      /\ FilesOK' /\ Written(lines)' = Written(lines)
      /\ UNCHANGED <<lines, linked, query, present>>
      /\ \A k : Wanted(k)' <=> Wanted(k)
  BY ReadsOnly DEF PassDay
<1>2. scan \in Scans /\ scan.step = "scanning" /\ scan.day = NoDay
  BY <1>1 DEF ListInv, ScanOK, Looking
<1> HIDE DEF d
<1>3. /\ scan' \in Scans /\ scan'.step = scan.step /\ scan'.todo = scan.todo \ {d}
      /\ scan'.day = NoDay /\ scan'.ring = scan.ring /\ scan'.hidden = scan.hidden
  BY <1>1, <1>2 DEF Scans
<1>4. ScanOK'
  BY <1>1, <1>2, <1>3 DEF ListInv, ScanOK
<1>5. \A k : Past(k) => Past(k)'
  BY <1>3 DEF Past
<1>6. RingOK'
  BY <1>1, <1>3, <1>5 DEF ListInv, RingOK, Before
<1>7. ASSUME NEW k \in present, Match(query, k), Ahead(k)
      PROVE  Ahead(k)'
  <2>1. DayOf(k.at) \in scan.todo /\ DayOf(k.at) \in linked
    BY <1>2, <1>7 DEF Ahead, ListInv, PresentOK
  <2>2. k \in Line
    BY WrittenFacts DEF ListInv, PresentOK
  <2>3. InPeriod(query, k.at) /\ query \in Posed
    BY <1>7 DEF Match, ListInv, ScanOK
  <2>4. DayOf(k.at) # d
    BY <1>1, <2>1, <2>2, <2>3, SkippedDay
  <2> QED BY <1>3, <2>1, <2>4 DEF Ahead
<1>8. PresentOK'
  <2>1. ASSUME NEW k \in present, Wanted(k)
        PROVE  Ahead(k)' \/ (Past(k)' /\ (k \in Listed' \/ Displaced(k)'))
    <3>1. Ahead(k) \/ (Past(k) /\ (k \in Listed \/ Displaced(k)))
      BY <1>2, <2>1 DEF ListInv, PresentOK
    <3>2. (k \in Listed <=> k \in Listed') /\ (Displaced(k) <=> Displaced(k)')
      BY <1>1, <1>3 DEF Listed, Displaced, Cut, Before
    <3> QED BY <1>5, <1>7, <2>1, <3>1, <3>2 DEF Wanted
  <2> QED BY <1>1, <1>3, <2>1 DEF ListInv, PresentOK
<1>9. Onward
  BY <1>1, <1>3, <1>5, <1>7 DEF Onward, Concealed
<1> QED BY <1>1, <1>4, <1>6, <1>8, <1>9 DEF ListInv

\* The first of the days to come is opened: what is past it is of days before.
LEMMA OpenDayKeeps ==
    ASSUME ListInv, OpenDay
    PROVE  ListInv' /\ Onward
<1> DEFINE d == DayToRead
<1>1. /\ scan' = [scan EXCEPT !.todo = scan.todo \ {d}, !.day = d, !.pos = 0]
      /\ FilesOK' /\ Written(lines)' = Written(lines)
      /\ UNCHANGED <<lines, linked, query, present>>
      /\ \A k : Wanted(k)' <=> Wanted(k)
  BY ReadsOnly DEF OpenDay
<1>2. scan \in Scans /\ scan.step = "scanning" /\ scan.day = NoDay
  BY DEF ListInv, ScanOK, Looking, OpenDay
<1>3. d \in scan.todo /\ \A x \in scan.todo : x \in Nat /\ d <= x
  BY FirstDay DEF OpenDay, ListInv
<1> HIDE DEF d
<1>4. d \in DayNumbers /\ d # NoDay
  BY <1>2, <1>3 DEF Scans, NoDay
<1>5. /\ scan' \in Scans /\ scan'.step = scan.step /\ scan'.todo = scan.todo \ {d}
      /\ scan'.day = d /\ scan'.pos = 0 /\ scan'.ring = scan.ring /\ scan'.hidden = scan.hidden
  BY <1>1, <1>2, <1>4 DEF Scans
<1>6. lines[d] \in Seq(Line) /\ Len(lines[d]) \in Nat /\ DOMAIN lines[d] = 1 .. Len(lines[d])
  BY <1>4, LenProperties DEF ListInv, FilesOK
<1>7. ScanOK'
  <2>1. \A x \in scan'.todo : d < x
    BY <1>3, <1>5
  <2>2. scan'.pos <= Len(lines'[scan'.day])
    BY <1>1, <1>5, <1>6
  <2> QED BY <1>1, <1>2, <1>5, <2>1, <2>2 DEF ListInv, ScanOK
<1>8. \A k : Past(k) => Past(k)'
  BY <1>3, <1>5 DEF Past
<1>9. ASSUME NEW k \in Written(lines), Ahead(k)
      PROVE  Ahead(k)'
  <2>1. DayOf(k.at) \in scan.todo
    BY <1>2, <1>9 DEF Ahead
  <2>2. CASE DayOf(k.at) = d
    <3>1. PICK i \in DOMAIN lines[d] : k = lines[d][i]
      BY <2>2, WrittenFacts DEF ListInv
    <3>2. i > 0
      BY <1>6
    <3> QED BY <1>1, <1>4, <1>5, <3>1, <3>2 DEF Ahead
  <2>3. CASE DayOf(k.at) # d
    BY <1>5, <2>1, <2>3 DEF Ahead
  <2> QED BY <2>2, <2>3
<1>10. RingOK'
  BY <1>1, <1>5, <1>8 DEF ListInv, RingOK, Before
<1>11. PresentOK'
  <2>1. ASSUME NEW k \in present, Wanted(k)
        PROVE  Ahead(k)' \/ (Past(k)' /\ (k \in Listed' \/ Displaced(k)'))
    <3>1. k \in Written(lines) /\ (Ahead(k) \/ (Past(k) /\ (k \in Listed \/ Displaced(k))))
      BY <1>2, <2>1 DEF ListInv, PresentOK
    <3>2. (k \in Listed <=> k \in Listed') /\ (Displaced(k) <=> Displaced(k)')
      BY <1>1, <1>5 DEF Listed, Displaced, Cut, Before
    <3> QED BY <1>8, <1>9, <3>1, <3>2
  <2> QED BY <1>1, <1>5, <2>1 DEF ListInv, PresentOK
<1>12. Onward
  BY <1>1, <1>5, <1>8, <1>9 DEF Onward, ListInv, PresentOK
<1> QED BY <1>1, <1>7, <1>10, <1>11, <1>12 DEF ListInv

\* The end of the file: nothing of it is ahead.
LEMMA EndOfDayKeeps ==
    ASSUME ListInv, EndOfDay
    PROVE  ListInv' /\ Onward
<1>1. /\ scan.step = "scanning" /\ scan.day # NoDay /\ scan.pos = Len(lines[scan.day])
      /\ scan' = [scan EXCEPT !.day = NoDay]
      /\ FilesOK' /\ Written(lines)' = Written(lines)
      /\ UNCHANGED <<lines, linked, query, present>>
      /\ \A k : Wanted(k)' <=> Wanted(k)
  BY ReadsOnly DEF EndOfDay
<1>2. scan \in Scans
  BY DEF ListInv, ScanOK
<1>3. /\ scan' \in Scans /\ scan'.step = scan.step /\ scan'.todo = scan.todo
      /\ scan'.day = NoDay /\ scan'.ring = scan.ring /\ scan'.hidden = scan.hidden
  BY <1>1, <1>2 DEF Scans
<1>4. ScanOK'
  BY <1>1, <1>3 DEF ListInv, ScanOK
<1>5. \A k : Past(k) => Past(k)'
  BY <1>3 DEF Past
<1>6. \A k : Ahead(k) => Ahead(k)'
  <2>1. scan.day \in DayNumbers
    BY <1>1, <1>2 DEF Scans
  <2>2. lines[scan.day] \in Seq(Line)
    BY <2>1 DEF ListInv, FilesOK
  <2>3. \A i \in DOMAIN lines[scan.day] : ~(i > scan.pos)
    BY <1>1, <2>2
  <2> QED BY <1>3, <2>3 DEF Ahead
<1>7. RingOK'
  BY <1>1, <1>3, <1>5 DEF ListInv, RingOK, Before
<1>8. PresentOK'
  <2>1. ASSUME NEW k \in present, Wanted(k)
        PROVE  Ahead(k)' \/ (Past(k)' /\ (k \in Listed' \/ Displaced(k)'))
    <3>1. Ahead(k) \/ (Past(k) /\ (k \in Listed \/ Displaced(k)))
      BY <1>1, <2>1 DEF ListInv, PresentOK
    <3>2. (k \in Listed <=> k \in Listed') /\ (Displaced(k) <=> Displaced(k)')
      BY <1>1, <1>3 DEF Listed, Displaced, Cut, Before
    <3> QED BY <1>5, <1>6, <3>1, <3>2
  <2> QED BY <1>1, <1>3, <2>1 DEF ListInv, PresentOK
<1>9. Onward
  BY <1>1, <1>3, <1>5, <1>6 DEF Onward
<1> QED BY <1>1, <1>4, <1>7, <1>8, <1>9 DEF ListInv


\* What reading a line makes of the scan.
LEMMA ReadShape ==
    ASSUME ListInv, ReadLine, NEW m, m = lines[scan.day][scan.pos + 1]
    PROVE  /\ m \in Line /\ scan' \in Scans /\ scan'.step = scan.step /\ scan'.todo = scan.todo
           /\ scan'.day = scan.day /\ scan'.pos = scan.pos + 1
           /\ scan'.hidden = IF Concealed(m) THEN scan.hidden + Stands(m.says) ELSE scan.hidden
           /\ ~Wanted(m) => scan'.ring = scan.ring
           /\ Wanted(m) =>
                 \/ /\ query.limit = 0 \/ Len(scan.ring) < query.limit
                    /\ scan'.ring = Append(scan.ring, m)
                 \/ /\ query.limit # 0 /\ Len(scan.ring) = query.limit
                    /\ scan'.ring = Append(Tail(scan.ring), m)
<1>1. /\ scan.step = "scanning" /\ scan.day # NoDay /\ scan.pos < Len(lines[scan.day])
      /\ scan' = [(IF m.whole /\ Match(query, m) THEN Push(m) ELSE scan) EXCEPT !.pos = @ + 1]
  BY DEF ReadLine
<1>2. scan \in Scans /\ scan.day \in DayNumbers /\ lines[scan.day] \in Seq(Line)
  BY <1>1 DEF ListInv, ScanOK, Scans, FilesOK
<1>3. m \in Line
  <2>1. scan.pos \in Nat /\ Len(lines[scan.day]) \in Nat
    BY <1>2, LenProperties DEF Scans
  <2>2. scan.pos + 1 \in 1 .. Len(lines[scan.day])
    BY <1>1, <2>1
  <2> QED BY <1>2, <2>2, LenProperties
<1>4. ScanOK /\ RingOK
  BY DEF ListInv
<1>5. CASE m.whole /\ Match(query, m)
  <2> DEFINE p == Push(m)
  <2>1. scan' = [p EXCEPT !.pos = p.pos + 1]
    BY <1>1, <1>5
  <2>2. /\ p \in Scans /\ p.step = scan.step /\ p.todo = scan.todo /\ p.day = scan.day /\ p.pos = scan.pos
        /\ Hides(query, m.says) => /\ p.ring = scan.ring
                                   /\ p.hidden = scan.hidden + Stands(m.says)
        /\ ~Hides(query, m.says) => p.hidden = scan.hidden
        /\ ~Hides(query, m.says) =>
              \/ /\ query.limit = 0 \/ Len(scan.ring) < query.limit
                 /\ p.ring = Append(scan.ring, m)
              \/ /\ query.limit # 0 /\ Len(scan.ring) = query.limit
                 /\ p.ring = Append(Tail(scan.ring), m)
    BY <1>3, <1>4, PushFacts
  <2> HIDE DEF p
  <2>3. /\ scan' \in Scans /\ scan'.step = p.step /\ scan'.todo = p.todo /\ scan'.day = p.day
        /\ scan'.pos = p.pos + 1 /\ scan'.ring = p.ring /\ scan'.hidden = p.hidden
    <3>1. /\ scan'.step = p.step /\ scan'.todo = p.todo /\ scan'.day = p.day
          /\ scan'.pos = p.pos + 1 /\ scan'.ring = p.ring /\ scan'.hidden = p.hidden
      BY <2>1, <2>2 DEF Scans
    <3>2. p.pos + 1 \in Nat
      BY <2>2 DEF Scans
    <3> QED BY SMTT(30), <2>1, <2>2, <3>1, <3>2 DEF Scans
  <2>4. (Wanted(m) <=> ~Hides(query, m.says)) /\ (Concealed(m) <=> Hides(query, m.says))
    BY <1>5 DEF Wanted, Concealed
  <2> QED BY <1>3, <2>2, <2>3, <2>4
<1>6. CASE ~(m.whole /\ Match(query, m))
  <2>1. scan' = [scan EXCEPT !.pos = scan.pos + 1] /\ ~Wanted(m) /\ ~Concealed(m)
    BY <1>1, <1>6 DEF Wanted, Concealed
  <2> QED BY <1>2, <1>3, <2>1 DEF Scans
<1> QED BY <1>5, <1>6

\* A line is read.
LEMMA ReadLineKeeps ==
    ASSUME ListInv, ReadLine
    PROVE  ListInv'
<1>1. PICK m : m = lines[scan.day][scan.pos + 1]
  OBVIOUS
<1>2. /\ FilesOK' /\ Written(lines)' = Written(lines)
      /\ UNCHANGED <<lines, linked, query, present>>
      /\ \A k : Wanted(k)' <=> Wanted(k)
  BY ReadsOnly DEF ReadLine
<1>3. /\ scan.step = "scanning" /\ scan.day # NoDay /\ scan.pos < Len(lines[scan.day])
      /\ FilesOK /\ ScanOK /\ RingOK /\ PresentOK
  BY DEF ReadLine, ListInv
<1>4. /\ m \in Line /\ scan' \in Scans /\ scan'.step = scan.step /\ scan'.todo = scan.todo
      /\ scan'.day = scan.day /\ scan'.pos = scan.pos + 1
      /\ ~Wanted(m) => scan'.ring = scan.ring
      /\ Wanted(m) =>
            \/ /\ query.limit = 0 \/ Len(scan.ring) < query.limit
               /\ scan'.ring = Append(scan.ring, m)
            \/ /\ query.limit # 0 /\ Len(scan.ring) = query.limit
               /\ scan'.ring = Append(Tail(scan.ring), m)
  BY <1>1, ReadShape
<1>5. /\ scan.day \in DayNumbers /\ scan.pos \in Nat /\ scan.pos + 1 \in DOMAIN lines[scan.day]
      /\ m \in Written(lines)
      /\ Past(m)' /\ \A k : Past(k) => Past(k)'
      /\ \A k : Ahead(k) => Ahead(k)' \/ k = m
  BY <1>1, <1>2, <1>3, <1>4, ReadOn
<1>6. \A k : Past(k) => Before(k, m)
  BY <1>1, <1>3, <1>5, PastBefore
<1>7. scan.ring \in Seq(Line) /\ query.limit \in Nat
  BY <1>3 DEF ScanOK, Scans, Posed
<1>8. ScanOK'
  <2>1. Len(lines[scan.day]) \in Nat
    BY <1>3, <1>5, LenProperties DEF FilesOK
  <2>2. scan'.pos <= Len(lines'[scan'.day])
    BY <1>2, <1>3, <1>4, <1>5, <2>1
  <2> QED BY <1>2, <1>3, <1>4, <2>2 DEF ScanOK
<1>9. CASE ~Wanted(m)
  <2>1. scan'.ring = scan.ring
    BY <1>4, <1>9
  <2>2. RingOK'
    BY <1>2, <1>3, <1>5, <2>1 DEF RingOK, Before
  <2>3. PresentOK'
    <3>1. ASSUME NEW k \in present, Wanted(k)
          PROVE  Ahead(k)' \/ (Past(k)' /\ (k \in Listed' \/ Displaced(k)'))
      <4>1. (Ahead(k) \/ (Past(k) /\ (k \in Listed \/ Displaced(k)))) /\ k # m
        BY <1>3, <1>9, <3>1 DEF PresentOK
      <4>2. (k \in Listed <=> k \in Listed') /\ (Displaced(k) <=> Displaced(k)')
        BY <1>2, <2>1 DEF Listed, Displaced, Cut, Before
      <4> QED BY <1>5, <4>1, <4>2
    <3> QED BY <1>2, <1>3, <1>4, <3>1 DEF PresentOK
  <2> QED BY <1>2, <1>8, <2>2, <2>3 DEF ListInv
<1>10. CASE Wanted(m)
  <2>0. PICK ring, pushed, limit : ring = scan.ring /\ pushed = scan'.ring /\ limit = query.limit
    OBVIOUS
  <2>1. /\ limit # 0 => Len(ring) <= limit
        /\ RingInOrder(ring) /\ AllBefore(ring, m)
    BY <1>3, <1>6, <2>0 DEF RingOK, RingInOrder, AllBefore
  <2>2. /\ limit # 0 => Len(pushed) <= limit
        /\ limit # 0 /\ Len(ring) = limit => Len(pushed) = limit
        /\ \A i \in DOMAIN pushed : pushed[i] = m \/ \E j \in DOMAIN ring : pushed[i] = ring[j]
        /\ RingInOrder(pushed)
        /\ \E i \in DOMAIN pushed : pushed[i] = m
        /\ \A i \in DOMAIN ring :
              \/ \E j \in DOMAIN pushed : pushed[j] = ring[i]
              \/ limit # 0 /\ Len(pushed) = limit /\ \A j \in DOMAIN pushed : Before(ring[i], pushed[j])
    <3>1. Pushed(ring, m, limit, pushed)
      BY <1>4, <1>10, <2>0 DEF Pushed
    <3>2. ring \in Seq(Line) /\ limit \in Nat /\ m \in Line
      BY <1>4, <1>7, <2>0
    <3> QED BY <2>1, <3>1, <3>2, PushedRing
  <2>3. \A i \in DOMAIN pushed : pushed[i] \in Written(lines) /\ Wanted(pushed[i]) /\ Past(pushed[i])'
    <3> SUFFICES ASSUME NEW i \in DOMAIN pushed
                 PROVE  pushed[i] \in Written(lines) /\ Wanted(pushed[i]) /\ Past(pushed[i])'
      OBVIOUS
    <3>1. CASE pushed[i] = m
      BY <1>5, <1>10, <3>1
    <3>2. CASE \E j \in DOMAIN ring : pushed[i] = ring[j]
      BY <1>3, <1>5, <2>0, <3>2 DEF RingOK
    <3> QED BY <2>2, <3>1, <3>2
  <2>4. RingOK'
    BY <1>2, <2>0, <2>2, <2>3 DEF RingOK, RingInOrder, Before
  <2>5. ASSUME NEW k \in present, Wanted(k)
        PROVE  Ahead(k)' \/ (Past(k)' /\ (k \in Listed' \/ Displaced(k)'))
    <3>1. Ahead(k) \/ (Past(k) /\ (k \in Listed \/ Displaced(k)))
      BY <1>3, <2>5 DEF PresentOK
    <3>2. CASE k = m
      BY <1>5, <2>0, <2>2, <3>2 DEF Listed
    <3>3. CASE Ahead(k)
      BY <1>5, <3>2, <3>3
    <3>4. CASE Past(k) /\ k \in Listed
      <4>1. PICK i \in DOMAIN ring : k = ring[i]
        BY <2>0, <3>4 DEF Listed
      <4>2. k \in Listed' \/ Displaced(k)'
        BY <1>2, <2>0, <2>2, <4>1 DEF Listed, Displaced, Cut, Before
      <4> QED BY <1>5, <3>4, <4>2
    <3>5. CASE Past(k) /\ Displaced(k)
      <4>1. \A i \in DOMAIN pushed : Before(k, pushed[i])
        BY <1>6, <2>0, <2>2, <3>5 DEF Displaced
      <4>2. limit # 0 /\ Len(pushed) = limit
        BY <2>0, <2>2, <3>5 DEF Displaced, Cut
      <4>3. Displaced(k)'
        BY <1>2, <2>0, <4>1, <4>2 DEF Displaced, Cut, Before
      <4> QED BY <1>5, <3>5, <4>3
    <3> QED BY <3>1, <3>3, <3>4, <3>5
  <2>6. PresentOK'
    BY <1>2, <1>3, <1>4, <2>5 DEF PresentOK
  <2> QED BY <1>2, <1>8, <2>4, <2>6 DEF ListInv
<1> QED BY <1>9, <1>10

\* The command fails, and lists nothing, or ends.
LEMMA EndsKeep ==
    ASSUME ListInv, ReadFails \/ ReadEnds
    PROVE  ListInv' /\ (ReadEnds => Onward)
<1>1. /\ FilesOK' /\ Written(lines)' = Written(lines)
      /\ UNCHANGED <<lines, linked, query, present>>
      /\ \A k : Wanted(k)' <=> Wanted(k)
  BY ReadsOnly DEF ReadFails, ReadEnds
<1>2. scan \in Scans /\ query \in Posed
  BY DEF ListInv, ScanOK
<1>3. CASE ReadFails
  <2>1. scan' = [step |-> "failed", todo |-> {}, day |-> NoDay, pos |-> 0, ring |-> << >>, hidden |-> 0]
    BY <1>3 DEF ReadFails, Unread, Reading
  <2>2. << >> \in Seq(Line) /\ Len(<< >>) = 0 /\ DOMAIN << >> = {} /\ query.limit \in Nat
    BY <1>2, EmptySeq DEF Posed
  <2>3. scan' \in Scans
    BY <2>1, <2>2 DEF Scans
  <2>4. ScanOK'
    BY <1>1, <1>2, <2>1, <2>3 DEF ScanOK
  <2>5. RingOK'
    BY <1>1, <2>1, <2>2 DEF RingOK
  <2>6. PresentOK'
    BY <1>1, <2>1 DEF ListInv, PresentOK
  <2>7. ~ReadEnds
    BY <2>1 DEF ReadEnds
  <2> QED BY <1>1, <2>4, <2>5, <2>6, <2>7 DEF ListInv
<1>4. CASE ReadEnds
  <2>1. scan' = [scan EXCEPT !.step = "answered"] /\ scan.day = NoDay /\ scan.todo = {}
        /\ scan.step = "scanning"
    BY <1>4 DEF ReadEnds
  <2>2. /\ scan' \in Scans /\ scan'.step = "answered" /\ scan'.todo = scan.todo
        /\ scan'.day = scan.day /\ scan'.ring = scan.ring /\ scan'.hidden = scan.hidden
    BY <1>2, <2>1 DEF Scans
  <2>3. ScanOK'
    BY <1>1, <1>2, <2>1, <2>2 DEF ScanOK
  <2>4. \A k : (Past(k)' <=> Past(k)) /\ (Ahead(k)' <=> Ahead(k))
    BY <2>1, <2>2 DEF Past, Ahead
  <2>5. RingOK'
    BY <1>1, <2>2, <2>4 DEF ListInv, RingOK, Before
  <2>6. PresentOK'
    BY <1>1, <2>1, <2>2, <2>4 DEF ListInv, PresentOK, Listed, Displaced, Cut, Before
  <2>7. Onward
    BY <1>1, <2>1, <2>2, <2>4 DEF Onward
  <2> QED BY <1>1, <2>3, <2>5, <2>6, <2>7 DEF ListInv
<1> QED BY <1>3, <1>4

\* The invariant holds before anything is written.
LEMMA ListInvInit == LogInit => ListInv
<1> SUFFICES ASSUME LogInit PROVE ListInv
  OBVIOUS
<1>1. << >> \in Seq(Line) /\ Len(<< >>) = 0 /\ DOMAIN << >> = {}
  BY EmptySeq
<1>2. \A d \in DayNumbers : lines[d] = << >>
  BY DEF LogInit
<1>3. Written(lines) = {}
  BY <1>1, <1>2 DEF Written
<1>4. IsFiniteSet({}) /\ LogHorizon \in Nat
  BY FS_EmptySet, LogAssumption
<1>5. FilesOK
  <2>1. lines \in [DayNumbers -> Seq(Line)]
    BY <1>1 DEF LogInit
  <2>2. moment \in 0 .. LogHorizon /\ linked \subseteq DayNumbers
    BY <1>4 DEF LogInit
  <2>3. \A d \in DayNumbers : DOMAIN lines[d] = {}
    BY <1>1, <1>2
  <2> QED BY <1>3, <1>4, <2>1, <2>2, <2>3 DEF FilesOK
<1>6. scan = [step |-> "idle", todo |-> {}, day |-> NoDay, pos |-> 0, ring |-> << >>, hidden |-> 0]
  BY DEF LogInit, Unread, Reading
<1>7. query \in Posed /\ query.limit = 0
  BY DEF LogInit, Everything, Posed, NoBound
<1>8. ScanOK
  BY <1>1, <1>6, <1>7 DEF ScanOK, Scans
<1>9. RingOK
  BY <1>1, <1>6, <1>7 DEF RingOK
<1>10. PresentOK
  BY <1>6 DEF LogInit, PresentOK
<1> QED BY <1>5, <1>8, <1>9, <1>10 DEF ListInv

\* Every step of the proxy and of the command keeps it.
LEMMA ListInvStep ==
    ListInv /\ [LogNext]_logVars =>
        ListInv' /\ (Onward \/ ReadLine \/ ReadFails \/ \E q \in Queries : Ask(q))
<1> SUFFICES ASSUME ListInv, [LogNext]_logVars
             PROVE  ListInv' /\ (Onward \/ ReadLine \/ ReadFails \/ \E q \in Queries : Ask(q))
  OBVIOUS
<1>1. CASE Appends
  BY <1>1, AppendsKeeps
<1>2. CASE Tear \/ Pass
  BY <1>2, AsideKeeps
<1>3. CASE PruneDays
  BY <1>3, PruneDaysKeeps
<1>4. ASSUME NEW q \in Queries, Ask(q) PROVE ListInv'
  BY <1>4, AskKeeps
<1>5. CASE PassDay
  BY <1>5, PassDayKeeps
<1>6. CASE OpenDay
  BY <1>6, OpenDayKeeps
<1>7. CASE ReadLine
  BY <1>7, ReadLineKeeps
<1>8. CASE EndOfDay
  BY <1>8, EndOfDayKeeps
<1>9. CASE ReadFails \/ ReadEnds
  BY <1>9, EndsKeep
<1>10. CASE UNCHANGED logVars
  BY <1>10, IdleKeeps DEF logVars, ListInv, FilesOK
<1> QED BY <1>1, <1>2, <1>3, <1>4, <1>5, <1>6, <1>7, <1>8, <1>9, <1>10 DEF LogNext

\* What the query hides is what strangers were refused for asking.
LEMMA HiddenIsHides ==
    ASSUME NEW ls, NEW k \in ls, k \in Line, k.whole, Match(query, k)
    PROVE  k \in Hidden(ls) <=> Hides(query, k.says)
<1>1. k.says \in Contents
  BY DEF Line
<1>2. k.says.kind = "rej" => k.says.src \in {"local", "tunnel", "remote"}
  BY <1>1, LogAssumption DEF Sources
<1> QED BY <1>2 DEF Hidden, Of, Asked, Hides, Noise, SuppressesNoise

\* When the command has read everything, nothing is ahead.
LEMMA InvLists == ListInv /\ scan.step = "answered" => ListingTrue
<1> SUFFICES ASSUME ListInv, scan.step = "answered" PROVE ListingTrue
  OBVIOUS
<1>1. scan.day = NoDay /\ scan.todo = {} /\ RingOK /\ PresentOK
  BY DEF ListInv, ScanOK
<1>2. \A l \in Written(lines) : l \in Line
  BY WrittenFacts DEF ListInv
<1>3. Listed \subseteq Asked(Ever) \ Hidden(Ever)
  <2> SUFFICES ASSUME NEW l \in Listed PROVE l \in Asked(Ever) \ Hidden(Ever)
    OBVIOUS
  <2>1. l \in Written(lines) /\ Wanted(l)
    BY <1>1 DEF Listed, RingOK
  <2>2. l \in Line /\ l.whole /\ Match(query, l) /\ ~Hides(query, l.says)
    BY <1>2, <2>1 DEF Wanted
  <2> QED BY <2>1, <2>2, HiddenIsHides DEF Asked, Ever
<1>4. ASSUME NEW k \in Asked(present) \ (Listed \cup Hidden(present))
      PROVE  Cut /\ \A l \in Listed : Before(k, l)
  <2>1. k \in present /\ k \in Line /\ k.whole /\ Match(query, k)
    BY <1>1, <1>2, <1>4 DEF Asked, PresentOK
  <2>2. Wanted(k)
    BY <1>4, <2>1, HiddenIsHides DEF Wanted
  <2>3. ~Ahead(k)
    BY <1>1 DEF Ahead
  <2>4. Displaced(k)
    BY <1>1, <1>4, <2>1, <2>2, <2>3 DEF PresentOK
  <2> QED BY <2>4 DEF Displaced, Listed
<1> QED BY <1>1, <1>3, <1>4 DEF ListingTrue, RingOK

----------------------------------------------------------------------------
(* What the command counts: the noise it left out, and the rows it listed. *)

\* A line stands for a request at least.
LEMMA StandsFor ==
    ASSUME NEW l \in Line
    PROVE  Stands(l.says) \in Nat \ {0}
<1>1. l.says.count \in Nat
  BY LogAssumption DEF Line
<1> QED BY <1>1 DEF Stands

\* What lines stand for is finite, and that of more lines is more.
LEMMA WeightFacts ==
    ASSUME NEW A \in SUBSET Line, IsFiniteSet(A)
    PROVE  /\ IsFiniteSet(Requests(A)) /\ Weight(A) \in Nat
           /\ \A B \in SUBSET A : Weight(B) <= Weight(A)
<1> DEFINE T == {{l} \X (1 .. Stands(l.says)) : l \in A}
           f == [l \in A |-> {l} \X (1 .. Stands(l.says))]
<1>1. IsFiniteSet(T)
  <2>1. f \in Surjection(A, T)
    BY DEF Surjection
  <2> HIDE DEF f, T
  <2> QED BY <2>1, FS_Surjection
<1>2. ASSUME NEW l \in A PROVE IsFiniteSet({l} \X (1 .. Stands(l.says)))
  <2> DEFINE n == Stands(l.says)
  <2>1. n \in Int /\ 1 \in Int
    BY StandsFor
  <2> HIDE DEF n
  <2>2. IsFiniteSet({l}) /\ IsFiniteSet(1 .. n)
    <3>1. IsFiniteSet({l})
      BY FS_Singleton
    <3>2. IsFiniteSet(1 .. n)
      BY <2>1, FS_Interval
    <3> QED BY <3>1, <3>2
  <2>3. IsFiniteSet({l} \X (1 .. n))
    BY <2>2, FS_Product
  <2> QED BY <2>3 DEF n
<1>3. \A t \in T : IsFiniteSet(t)
  BY <1>2
<1>4. IsFiniteSet(UNION T)
  <2> HIDE DEF T
  <2> QED BY <1>1, <1>3, FS_UNION
<1>5. IsFiniteSet(Requests(A))
  BY <1>4 DEF Requests
<1>6. \A B \in SUBSET A : Requests(B) \subseteq Requests(A)
  BY DEF Requests
<1> QED BY <1>5, <1>6, FS_Subset, FS_CardinalityType DEF Weight

\* Two sets of lines that have none in common: their weights add up.
LEMMA WeightAdds ==
    ASSUME NEW A \in SUBSET Line, NEW B \in SUBSET Line, IsFiniteSet(A), IsFiniteSet(B),
           A \cap B = {}
    PROVE  Weight(A \cup B) = Weight(A) + Weight(B)
<1>1. Requests(A \cup B) = Requests(A) \cup Requests(B)
  BY DEF Requests
<1>2. Requests(A) \cap Requests(B) = {}
  <2> SUFFICES ASSUME NEW p \in Requests(A) \cap Requests(B) PROVE FALSE
    OBVIOUS
  <2>1. PICK a \in A : p \in {a} \X (1 .. Stands(a.says))
    BY DEF Requests
  <2>2. PICK b \in B : p \in {b} \X (1 .. Stands(b.says))
    BY DEF Requests
  <2>3. p[1] = a /\ p[1] = b
    BY <2>1, <2>2
  <2> QED BY <2>3
<1>3. IsFiniteSet(Requests(A)) /\ IsFiniteSet(Requests(B)) /\ Weight(A) \in Nat /\ Weight(B) \in Nat
  BY WeightFacts
<1>4. Cardinality(Requests(A) \cup Requests(B))
        = Cardinality(Requests(A)) + Cardinality(Requests(B)) - Cardinality({})
  <2>1. Cardinality(Requests(A) \cup Requests(B))
          = Cardinality(Requests(A)) + Cardinality(Requests(B)) - Cardinality(Requests(A) \cap Requests(B))
    BY <1>3, FS_Union
  <2> QED BY <1>2, <2>1
<1>5. Weight(A \cup B) = Weight(A) + Weight(B) - 0
  BY <1>1, <1>4, FS_EmptySet DEF Weight
<1> QED BY <1>3, <1>5

\* No line weighs nothing, and one what it stands for.
LEMMA WeightOfOne ==
    /\ Weight({}) = 0
    /\ \A l \in Line : Weight({l}) = Stands(l.says)
<1>1. Requests({}) = {}
  BY DEF Requests
<1>2. ASSUME NEW l \in Line PROVE Weight({l}) = Stands(l.says)
  <2> DEFINE n == Stands(l.says)
  <2>1. n \in Nat \ {0}
    BY StandsFor
  <2>2. Requests({l}) = {l} \X (1 .. n)
    BY DEF Requests
  <2> HIDE DEF n
  <2>3. IsFiniteSet(1 .. n) /\ Cardinality(1 .. n) = n
    BY <2>1, FS_Interval
  <2>4. IsFiniteSet({l}) /\ Cardinality({l}) = 1
    BY FS_Singleton
  <2>5. Cardinality({l} \X (1 .. n)) = Cardinality({l}) * Cardinality(1 .. n)
    BY <2>3, <2>4, FS_Product
  <2>6. 1 * n = n
    BY <2>1
  <2> QED BY <2>2, <2>3, <2>4, <2>5, <2>6 DEF Weight, n
<1> QED BY <1>1, <1>2, FS_EmptySet DEF Weight

\* What is written is finite, and any part of it.
LEMMA PartFinite ==
    ASSUME FilesOK, NEW A, A \subseteq Written(lines)
    PROVE  A \in SUBSET Line /\ IsFiniteSet(A)
BY WrittenFacts, FS_Subset DEF FilesOK

\* Whether a line is hidden depends on the question alone.
LEMMA ConcealedSame ==
    ASSUME UNCHANGED query
    PROVE  \A k : Concealed(k)' <=> Concealed(k)
BY DEF Concealed, Match, InPeriod, Hides, SuppressesNoise

\* A step that reads no line leaves the count as true as it was.
LEMMA OnwardCounts ==
    ASSUME HiddenOK, Onward
    PROVE  HiddenOK'
<1>1. PICK H : CountedOf(H)
  BY DEF HiddenOK
<1>2. \A k : Concealed(k)' <=> Concealed(k)
  BY ConcealedSame DEF Onward
<1>3. PICK w : w = Weight(H)
  OBVIOUS
<1>4. w = Weight(H)'
  BY <1>3 DEF Weight, Requests, Stands
<1>5. CountedOf(H)'
  <2>1. H \subseteq Written(lines)' /\ \A l \in H : Concealed(l)' /\ Past(l)'
    BY <1>1, <1>2 DEF CountedOf, Onward
  <2>2. scan'.hidden = Weight(H)'
    BY <1>1, <1>3, <1>4 DEF CountedOf, Onward
  <2>3. ASSUME scan'.step \in {"scanning", "answered"}, NEW k \in present', Concealed(k)'
        PROVE  Ahead(k)' \/ k \in H
    BY <1>1, <1>2, <2>3 DEF CountedOf, Onward
  <2> QED BY <2>1, <2>2, <2>3 DEF CountedOf
<1> QED BY <1>5 DEF HiddenOK

\* The line that is read is counted where it is hidden, and was not before.
LEMMA ReadCounts ==
    ASSUME ListInv, HiddenOK, ReadLine
    PROVE  HiddenOK'
<1>1. PICK H : CountedOf(H)
  BY DEF HiddenOK
<1>2. PICK m : m = lines[scan.day][scan.pos + 1]
  OBVIOUS
<1>3. /\ Written(lines)' = Written(lines) /\ UNCHANGED <<lines, query, present>>
      /\ \A k : Concealed(k)' <=> Concealed(k)
  BY ReadsOnly, ConcealedSame DEF ReadLine
<1>4. /\ scan.step = "scanning" /\ scan.day # NoDay /\ scan.pos < Len(lines[scan.day])
      /\ FilesOK /\ ScanOK
  BY DEF ReadLine, ListInv
<1>5. /\ m \in Line /\ scan'.step = scan.step /\ scan'.todo = scan.todo
      /\ scan'.day = scan.day /\ scan'.pos = scan.pos + 1
      /\ scan'.hidden = IF Concealed(m) THEN scan.hidden + Stands(m.says) ELSE scan.hidden
  BY <1>2, ReadShape
<1>6. /\ scan.day \in DayNumbers /\ scan.pos \in Nat /\ scan.pos + 1 \in DOMAIN lines[scan.day]
      /\ m \in Written(lines)
      /\ Past(m)' /\ \A k : Past(k) => Past(k)'
      /\ \A k : Ahead(k) => Ahead(k)' \/ k = m
  BY <1>2, <1>3, <1>4, <1>5, ReadOn
<1>7. m \notin H
  <2>1. SUFFICES ASSUME m \in H PROVE FALSE
    OBVIOUS
  <2>2. Before(m, m)
    BY <1>1, <1>2, <1>4, <1>6, <2>1, PastBefore DEF CountedOf
  <2>3. DayOf(m.at) \in Nat /\ m.id \in Nat
    BY <1>5, DayFacts DEF Line
  <2> QED BY <2>2, <2>3 DEF Before
<1>8. PICK G : G = IF Concealed(m) THEN H \cup {m} ELSE H
  OBVIOUS
<1>9. scan'.hidden = Weight(G)
  <2>1. H \in SUBSET Line /\ IsFiniteSet(H) /\ {m} \in SUBSET Line /\ IsFiniteSet({m})
    BY <1>1, <1>4, <1>5, PartFinite, FS_Singleton DEF CountedOf
  <2>2. H \cap {m} = {}
    BY <1>7
  <2>3. Weight(H \cup {m}) = Weight(H) + Weight({m})
    BY <2>1, <2>2, WeightAdds
  <2>4. Weight({m}) = Stands(m.says)
    BY <1>5, WeightOfOne
  <2> QED BY <1>1, <1>5, <1>8, <2>3, <2>4 DEF CountedOf
<1>10. PICK w : w = Weight(G)
  OBVIOUS
<1>11. w = Weight(G)'
  BY <1>10 DEF Weight, Requests, Stands
<1>12. CountedOf(G)'
  <2>1. G \subseteq Written(lines)' /\ \A l \in G : Concealed(l)' /\ Past(l)'
    BY <1>1, <1>3, <1>6, <1>8 DEF CountedOf
  <2>2. ASSUME NEW k \in present', Concealed(k)'
        PROVE  Ahead(k)' \/ k \in G
    <3>1. Ahead(k) \/ k \in H
      BY <1>1, <1>3, <1>4, <2>2 DEF CountedOf
    <3> QED BY <1>3, <1>6, <1>8, <2>2, <3>1
  <2> QED BY <1>9, <1>10, <1>11, <2>1, <2>2 DEF CountedOf
<1> QED BY <1>12 DEF HiddenOK

\* A command that begins has counted nothing, and none that has failed answers.
LEMMA NothingCounted ==
    ASSUME scan'.hidden = 0,
           scan'.step \in {"scanning", "answered"} => \A k \in present' : Ahead(k)'
    PROVE  HiddenOK'
<1>1. Weight({})' = 0
  <2>1. PICK w : w = Weight({})
    OBVIOUS
  <2>2. w = Weight({})'
    BY <2>1 DEF Weight, Requests, Stands
  <2> QED BY <2>1, <2>2, WeightOfOne
<1>2. CountedOf({})'
  BY <1>1 DEF CountedOf
<1> QED BY <1>2 DEF HiddenOK

\* What is counted stays true, step by step.
LEMMA HiddenStep == ListInv /\ HiddenOK /\ [LogNext]_logVars => HiddenOK'
<1> SUFFICES ASSUME ListInv, HiddenOK, [LogNext]_logVars PROVE HiddenOK'
  OBVIOUS
<1>1. CASE Onward
  BY <1>1, OnwardCounts
<1>2. CASE ReadLine
  BY <1>2, ReadCounts
<1>3. CASE ReadFails
  <2>1. scan'.hidden = 0 /\ scan'.step = "failed"
    BY <1>3 DEF ReadFails, Unread, Reading
  <2> QED BY <2>1, NothingCounted
<1>4. ASSUME NEW q \in Queries, Ask(q) PROVE HiddenOK'
  <2>1. scan'.hidden = 0 /\ scan'.todo = linked
    BY <1>4 DEF Ask, Unread, Reading
  <2>2. \A k \in present' : Ahead(k)'
    BY <1>4, <2>1 DEF Ask, Ahead
  <2> QED BY <2>1, <2>2, NothingCounted
<1> QED BY <1>1, <1>2, <1>3, <1>4, ListInvStep

\* Before anything is asked nothing is counted.
LEMMA HiddenInit == LogInit => HiddenOK
<1> SUFFICES ASSUME LogInit PROVE HiddenOK
  OBVIOUS
<1>1. scan.hidden = 0 /\ scan.step = "idle"
  BY DEF LogInit, Unread, Reading
<1>2. CountedOf({})
  BY <1>1, WeightOfOne DEF CountedOf
<1> QED BY <1>2 DEF HiddenOK

\* The parts of a summary that a reader of the footnotes compares.
LEMMA SummaryIs ==
    ASSUME NEW rows
    PROVE  /\ Summarise(rows).rejects = Weight({l \in rows : l.says.kind = "rej"})
           /\ Summarise(rows).noise = Weight({l \in rows : Noise(l.says)})
           /\ Summarise(rows).failed = Cardinality({l \in rows : Failed(l.says) /\ ~Canceled(l.says)})
           /\ Summarise(rows).canceled = Cardinality({l \in rows : Canceled(l.says)})
BY DEF Summarise

\* At most one of the two footnotes is there.
LEMMA OneFootnote ==
    ASSUME NEW s, NEW hidden, ~(s.noise > 0) \/ ~(hidden > 0)
    PROVE  Cardinality(Footnotes(s, hidden)) <= 1
<1>0. PICK a, b : a = "more refused requests are not listed" /\ b = "rows above are refused requests"
  OBVIOUS
<1>1. Footnotes(s, hidden) = {} \/ Footnotes(s, hidden) = {a} \/ Footnotes(s, hidden) = {b}
  BY <1>0 DEF Footnotes
<1>2. Cardinality({}) = 0 /\ Cardinality({a}) = 1 /\ Cardinality({b}) = 1
  BY FS_EmptySet, FS_Singleton
<1> QED BY <1>1, <1>2

\* When the command has read everything, the counts are true of the files.
LEMMA InvCounts == ListInv /\ HiddenOK /\ scan.step = "answered" => CountsTrue
<1> SUFFICES ASSUME ListInv, HiddenOK, scan.step = "answered" PROVE CountsTrue
  OBVIOUS
<1>1. scan.day = NoDay /\ scan.todo = {} /\ FilesOK /\ RingOK /\ PresentOK /\ ListingTrue
  BY InvLists DEF ListInv, ScanOK
<1>2. PICK H : CountedOf(H)
  BY DEF HiddenOK
<1>3. \A l \in Written(lines) : l \in Line
  BY <1>1, WrittenFacts
<1> DEFINE Rejected == {l \in Listed : l.says.kind = "rej"}
           Noisy    == {l \in Listed : Noise(l.says)}
           Broken   == {l \in Listed : Failed(l.says) /\ ~Canceled(l.says)}
           Dropped  == {l \in Listed : Canceled(l.says)}
<1>4. PICK said : said = Summarise(Listed)
  OBVIOUS
<1>5. /\ said.rejects = Weight(Rejected) /\ said.noise = Weight(Noisy)
      /\ said.failed = Cardinality(Broken) /\ said.canceled = Cardinality(Dropped)
  BY <1>4, SummaryIs
<1>6. \A l \in Listed : l \in Written(lines) /\ Wanted(l)
  BY <1>1 DEF Listed, RingOK
<1>7. \A k : ~Ahead(k)
  BY <1>1 DEF Ahead
<1>8. H \subseteq Written(lines) /\ scan.hidden = Weight(H) /\ \A l \in H : Concealed(l)
  BY <1>2 DEF CountedOf
<1>9. \A k \in present : Concealed(k) => k \in H
  BY <1>2, <1>7 DEF CountedOf
<1>10. \A ls \in SUBSET Written(lines) : \A k \in ls : k \in Hidden(ls) <=> Concealed(k)
  <2> SUFFICES ASSUME NEW ls \in SUBSET Written(lines), NEW k \in ls
               PROVE  k \in Hidden(ls) <=> Concealed(k)
    OBVIOUS
  <2>1. k \in Hidden(ls) => k.whole /\ Match(query, k)
    BY DEF Hidden, Of, Asked
  <2>2. k.whole /\ Match(query, k) => (k \in Hidden(ls) <=> Hides(query, k.says))
    BY <1>3, HiddenIsHides
  <2> QED BY <2>1, <2>2 DEF Concealed
<1>11. present \subseteq Written(lines) /\ Ever = Written(lines)
  BY <1>1 DEF PresentOK, Ever
<1>12. \A k : Concealed(k) => k.says.kind = "rej"
  BY DEF Concealed, Hides, Noise
<1>13. Hidden(present) \subseteq H /\ H \subseteq Hidden(Ever) /\ Hidden(Ever) \subseteq Written(lines)
  <2>1. Hidden(present) \subseteq present /\ Hidden(Ever) \subseteq Ever
    BY DEF Hidden, Of, Asked
  <2> QED BY <1>8, <1>9, <1>10, <1>11, <2>1
<1>14. H \in SUBSET Line /\ IsFiniteSet(H)
  BY <1>1, <1>8, PartFinite
<1>15. Weight(Hidden(present)) <= scan.hidden /\ scan.hidden <= Weight(Hidden(Ever))
  <2>1. Hidden(Ever) \in SUBSET Line /\ IsFiniteSet(Hidden(Ever))
    BY <1>1, <1>13, PartFinite
  <2> QED BY <1>8, <1>13, <1>14, <2>1, WeightFacts
<1>16. Cardinality(Footnotes(said, scan.hidden)) <= 1
  <2>1. CASE H = {}
    <3>1. ~(scan.hidden > 0)
      BY <1>8, <2>1, WeightOfOne
    <3> QED BY <3>1, OneFootnote
  <2>2. CASE H # {}
    <3>1. SuppressesNoise(query)
      BY <1>8, <2>2 DEF Concealed, Hides
    <3>2. Noisy = {}
      BY <1>6, <3>1 DEF Wanted, Hides
    <3>3. said.noise = Weight({})
      BY <1>5, <3>2
    <3>4. ~(said.noise > 0)
      BY <3>3, WeightOfOne
    <3> QED BY <3>4, OneFootnote
  <2> QED BY <2>1, <2>2
<1>17. Rejected \cap H = {}
  BY <1>6, <1>8 DEF Wanted, Concealed
<1>18. Rejected \in SUBSET Line /\ IsFiniteSet(Rejected)
  BY <1>1, <1>6, PartFinite
<1>19. Weight(Rejected \cup H) = said.rejects + scan.hidden
  BY <1>5, <1>8, <1>14, <1>17, <1>18, WeightAdds
<1>20. said.rejects + scan.hidden <= Weight(Of(Ever, "rej"))
  <2>1. Rejected \cup H \subseteq Of(Ever, "rej")
    BY <1>6, <1>8, <1>11, <1>12 DEF Of, Asked, Wanted, Concealed
  <2>2. Of(Ever, "rej") \in SUBSET Line /\ IsFiniteSet(Of(Ever, "rej"))
    <3>1. Of(Ever, "rej") \subseteq Written(lines)
      BY <1>11 DEF Of, Asked
    <3> QED BY <1>1, <3>1, PartFinite
  <2> QED BY <1>19, <2>1, <2>2, WeightFacts
<1>21. ASSUME ~Cut
       PROVE  /\ Weight(Of(present, "rej")) <= said.rejects + scan.hidden
              /\ Cardinality({l \in Of(present, "req") : Failed(l.says)}) <= said.failed + said.canceled
  <2>1. Asked(present) \subseteq Listed \cup Hidden(present)
    BY <1>1, <1>21 DEF ListingTrue
  <2>2. Weight(Of(present, "rej")) <= said.rejects + scan.hidden
    <3>1. Of(present, "rej") \subseteq Rejected \cup H
      BY <1>13, <2>1 DEF Of
    <3>2. Rejected \cup H \subseteq Written(lines)
      BY <1>6, <1>8
    <3>3. Rejected \cup H \in SUBSET Line /\ IsFiniteSet(Rejected \cup H)
      BY <1>1, <3>2, PartFinite
    <3> QED BY <1>19, <3>1, <3>3, WeightFacts
  <2>3. {l \in Of(present, "req") : Failed(l.says)} \subseteq Broken \cup Dropped
    <3>1. \A k \in Hidden(present) : k.says.kind = "rej"
      BY DEF Hidden, Of
    <3> QED BY <2>1, <3>1 DEF Of, Failed
  <2>4. /\ IsFiniteSet(Broken) /\ IsFiniteSet(Dropped)
    <3>1. Broken \subseteq Written(lines) /\ Dropped \subseteq Written(lines)
      BY <1>6
    <3> QED BY <1>1, <3>1, PartFinite
  <2> HIDE DEF Broken, Dropped
  <2>5. /\ IsFiniteSet(Broken \cup Dropped)
        /\ Cardinality(Broken \cup Dropped)
             = Cardinality(Broken) + Cardinality(Dropped) - Cardinality(Broken \cap Dropped)
        /\ Cardinality(Broken) \in Nat /\ Cardinality(Dropped) \in Nat
        /\ Cardinality(Broken \cap Dropped) \in Nat
    BY <2>4, FS_Union, FS_Intersection, FS_CardinalityType
  <2>6. /\ Cardinality({l \in Of(present, "req") : Failed(l.says)}) <= Cardinality(Broken \cup Dropped)
        /\ Cardinality({l \in Of(present, "req") : Failed(l.says)}) \in Nat
    BY <2>3, <2>5, FS_Subset, FS_CardinalityType
  <2> QED BY <1>5, <2>2, <2>5, <2>6
<1> HIDE DEF Rejected, Noisy, Broken, Dropped
<1> QED BY <1>4, <1>15, <1>16, <1>20, <1>21 DEF CountsTrue

\* Of an answer of the log command (Read, writeJournalRows, Summarise): every
\* row was asked for and is no noise left out, the rows are in the order of the
\* files, what was in the files when the command began, and asked for, is
\* listed, is noise, or makes place for later rows; and every refused request is
\* in one of the two counts the reader is shown, none of them short, whatever
\* the proxy appends and prunes meanwhile.
THEOREM AnswersAreTrue == LogSpec => []AnswerTrue
<1>1. LogSpec => []ListInv
  BY ListInvInit, ListInvStep, PTL DEF LogSpec
<1>2. LogSpec => []HiddenOK
  BY <1>1, HiddenInit, HiddenStep, PTL DEF LogSpec
<1>3. ListInv /\ HiddenOK => AnswerTrue
  BY InvLists, InvCounts DEF AnswerTrue
<1> QED BY <1>1, <1>2, <1>3, PTL
=============================================================================
