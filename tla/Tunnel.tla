------------------------------- MODULE Tunnel -------------------------------
(***************************************************************************)
(* The cloudflared child and its record (tunnel/manager.go, process.go).   *)
(* Several callers, each a command or the panel, run `up` (detached),      *)
(* `down` and `status` against one state directory.  What they share is    *)
(* the record file, the operating system's process table and the log.     *)
(*                                                                         *)
(* A file is an inode under a path: what is written to a claim that was    *)
(* unlinked is lost.  Processes are named by their order of birth, which   *)
(* stands for their start times.  A caller's steps are its accesses to     *)
(* what is shared; what it computes in between is part of the step before. *)
(***************************************************************************)
EXTENDS Integers

CONSTANTS Callers,
          Pids,
          NoPid,
          Inodes,
          NoFile,
          Unix,       \* a dead child keeps its row until it is reaped
          Strangers,  \* what else a recycled pid may carry
          MaxBirths   \* bound: processes born

ASSUME TunnelAssumption ==
    /\ NoFile \notin Inodes
    /\ NoPid \notin Pids
    /\ Unix \in BOOLEAN
    /\ Strangers \subseteq {"cloudflared", "program"}
    /\ MaxBirths \in Nat

VARIABLES
    path,       \* the inode the record's path names
    content,    \* what that inode holds
    proc,       \* the process table
    births,     \* the number of processes born
    pc,         \* where each caller is
    op,         \* its command
    rec,        \* the record it works from
    file,       \* the inode of that record
    handle,     \* down's handle on a process
    seen,       \* the markers in the launch's part of the log, by whose they are
    usurped,    \* history: a record was removed on the evidence of an older one
    forsaken    \* history: the record was claimed by an `up` that died before it wrote

fileVars   == <<path, content, usurped, forsaken>>
procVars   == <<proc, births>>
callerVars == <<pc, op, rec, file, handle, seen>>
vars == <<fileVars, procVars, callerVars>>

Empty  == [pid |-> NoPid, started |-> 0]      \* claimed, not yet written
Absent == [pid |-> NoPid, started |-> -1]     \* errNoRecord
Records == [pid : Pids \cup {NoPid}, started : -1 .. MaxBirths]
Readable(r) == r.pid # NoPid

\* A row of the process table.  A child of slimproxy has connected, or was
\* given up: said to the operator, or left behind by a crash.
Row(n, k) == [born |-> n, kind |-> k, alive |-> TRUE, up |-> FALSE, lost |-> FALSE]
Free      == [born |-> 0, kind |-> "none", alive |-> FALSE, up |-> FALSE, lost |-> FALSE]

Child(p) == proc[p].kind = "child" /\ proc[p].alive

----------------------------------------------------------------------------
(* The operating system.                                                   *)

\* verifyRecord of a present process: the image is the recorded one, and the
\* process does not predate the launch.
Verified(p, r) == proc[p].kind \in {"child", "cloudflared"} /\ ~(proc[p].born < r.started)

\* identityOf: tasklist lists no dead process, ps does; any query may fail.
Identity(r) ==
    LET p == r.pid
        present == proc[p].alive \/ (Unix /\ proc[p] # Free)
    IN  {"unknown", IF ~present THEN "gone" ELSE IF Verified(p, r) THEN "match" ELSE "mismatch"}

\* Nobody waits for a child while its launch is being confirmed (reap).
Launching(c) == pc[c] \in {"write", "confirm", "launched"}

Spawn(p, k) ==
    /\ births < MaxBirths
    /\ proc[p] = Free
    /\ births' = births + 1
    /\ proc' = [proc EXCEPT ![p] = Row(births + 1, k)]

Recycle(p, k) == Spawn(p, k) /\ UNCHANGED <<fileVars, callerVars>>

Exit(p) ==
    /\ proc[p].alive
    /\ proc' = [proc EXCEPT ![p] = IF @.kind = "child" THEN [@ EXCEPT !.alive = FALSE] ELSE Free]
    /\ UNCHANGED <<births, fileVars, callerVars>>

Reap(p) ==
    /\ proc[p] # Free /\ ~proc[p].alive
    /\ \A c \in Callers : Launching(c) => rec[c].started # proc[p].born
    /\ proc' = [proc EXCEPT ![p] = Free]
    /\ UNCHANGED <<births, fileVars, callerVars>>

\* A child logs the marker, in what is every current launch's part of the log;
\* markers no launch waits for are left out.
Connect(p) ==
    /\ Child(p)
    /\ \E c \in Callers : pc[c] = "start" \/ Launching(c)
    /\ proc' = [proc EXCEPT ![p].up = TRUE]
    /\ seen' = [c \in Callers |->
                  IF pc[c] = "start" \/ Launching(c)
                  THEN seen[c] \cup {IF proc[p].lost THEN "lost" ELSE "kept"} ELSE seen[c]]
    /\ UNCHANGED <<births, fileVars, pc, op, rec, file, handle>>

----------------------------------------------------------------------------
(* What the steps are made of.                                             *)

At(c, l)   == pc[c] = l
Goto(c, l) == pc' = [pc EXCEPT ![c] = l]
Quiet      == UNCHANGED <<op, handle, seen>>

\* readRecord: an empty claim does not parse, and is not absent.
ReadRecord(c) ==
    /\ rec' = [rec EXCEPT ![c] = content]
    /\ file' = [file EXCEPT ![c] = path]

\* removeRecord removes whatever the path names by now.
RemoveRecord(c) ==
    /\ path' = NoFile
    /\ content' = Absent
    /\ forsaken' = FALSE
    /\ usurped' = (usurped \/ (path # NoFile /\ path # file[c]))

\* A command returns; what it worked with is forgotten.
Leave(c) ==
    /\ pc' = [pc EXCEPT ![c] = "idle"]
    /\ op' = [op EXCEPT ![c] = "none"]
    /\ rec' = [rec EXCEPT ![c] = Absent]
    /\ file' = [file EXCEPT ![c] = NoFile]
    /\ handle' = [handle EXCEPT ![c] = 0]
    /\ seen' = [seen EXCEPT ![c] = {}]

\* Whatever became of a down, it ends in localStatus.
Report(c) ==
    /\ pc' = [pc EXCEPT ![c] = "read"]
    /\ op' = [op EXCEPT ![c] = "status"]
    /\ rec' = [rec EXCEPT ![c] = Absent]
    /\ file' = [file EXCEPT ![c] = NoFile]
    /\ handle' = [handle EXCEPT ![c] = 0]
    /\ UNCHANGED seen

Begin(c, o) ==
    /\ At(c, "idle")
    /\ op' = [op EXCEPT ![c] = o]
    /\ Goto(c, IF o = "down" THEN "downread" ELSE "read")
    /\ UNCHANGED <<fileVars, procVars, rec, file, handle, seen>>

----------------------------------------------------------------------------
(* localStatus: the whole of `status` but for its remote queries, the      *)
(* first half of `up`, and the end of every `down`.                        *)

Read(c) ==
    /\ At(c, "read")
    /\ ReadRecord(c)
    /\ Goto(c, IF Readable(content) THEN "verify" ELSE "decide")
    /\ Quiet /\ UNCHANGED <<fileVars, procVars>>

\* What is kept is whether a managed child runs.
Verify(c) ==
    /\ At(c, "verify")
    /\ \E id \in Identity(rec[c]) :
          /\ Goto(c, IF id \in {"gone", "mismatch"} THEN "clean" ELSE "decide")
          /\ rec' = [rec EXCEPT ![c] = IF id = "match" THEN @ ELSE Absent]
    /\ Quiet /\ UNCHANGED <<fileVars, procVars, file>>

Clean(c) ==
    /\ At(c, "clean")
    /\ RemoveRecord(c)
    /\ Goto(c, "decide")
    /\ Quiet /\ UNCHANGED <<procVars, rec, file>>

\* The status is reported; an `up` may stop here for want of a configuration,
\* a tunnel id or a binary, and does when the claim is refused.
Done(c) ==
    /\ At(c, "decide")
    /\ Leave(c)
    /\ UNCHANGED <<fileVars, procVars>>

----------------------------------------------------------------------------
(* startDetached.                                                          *)

\* A new file is an inode nobody holds.
Create(c) ==
    \E i \in Inodes \ ({path} \cup {file[d] : d \in Callers}) :
        /\ path' = i
        /\ content' = Empty
        /\ file' = [file EXCEPT ![c] = i]
        /\ Goto(c, "start")
        /\ Quiet /\ UNCHANGED <<usurped, forsaken, procVars, rec>>

\* Mutant of Claim: the record is created without O_EXCL.
ClaimShared(c) == At(c, "decide") /\ op[c] = "up" /\ ~Readable(rec[c]) /\ Create(c)

\* claimRecord, O_EXCL, and openLog: Up goes on unless a managed child runs.  An
\* unknown state does not stop it, a record that is there does.
Claim(c) ==
    /\ At(c, "decide")
    /\ op[c] = "up" /\ ~Readable(rec[c])
    /\ path = NoFile
    /\ Create(c)

\* The log may not open, the command may not start.
Start(c) ==
    /\ At(c, "start")
    /\ \/ \E p \in Pids :
             /\ Spawn(p, "child")
             /\ rec' = [rec EXCEPT ![c] = [pid |-> p, started |-> births + 1]]
             /\ Goto(c, "write")
       \/ Goto(c, "undo") /\ UNCHANGED <<procVars, rec>>
    /\ Quiet /\ UNCHANGED <<fileVars, file>>

\* writeRecordTo writes the inode it holds open, wherever the path points.
Write(c) ==
    /\ At(c, "write")
    /\ \/ content' = (IF path = file[c] THEN rec[c] ELSE content) /\ Goto(c, "confirm")
       \/ Goto(c, "kill") /\ UNCHANGED content
    /\ Quiet /\ UNCHANGED <<path, usurped, forsaken, procVars, rec, file>>

\* logContains from logStart onwards.
Registered(c) == seen[c] # {}

\* One poll of confirmStarted.
Poll(c) ==
    /\ At(c, "confirm")
    /\ \E id \in Identity(rec[c]) :
          \/ id \in {"gone", "mismatch"} /\ Goto(c, "kill")
          \/ id \in {"match", "unknown"} /\ Registered(c) /\ Goto(c, "launched")
    /\ Quiet /\ UNCHANGED <<fileVars, procVars, rec, file>>

\* The startup grace runs out, or the operator presses Ctrl-C.
GraceOver(c) ==
    /\ At(c, "confirm")
    /\ Goto(c, "kill")
    /\ Quiet /\ UNCHANGED <<fileVars, procVars, rec, file>>

\* Success is reported, and the child reaped when it ends.
Launched(c) ==
    /\ At(c, "launched")
    /\ Leave(c)
    /\ UNCHANGED <<fileVars, procVars>>

\* The deferred removal of a launch that failed.
Undo(c) ==
    /\ At(c, "undo")
    /\ RemoveRecord(c)
    /\ Leave(c)
    /\ UNCHANGED procVars

----------------------------------------------------------------------------
(* killAndConfirm and Down.                                                *)

\* The kill goes to whoever has the pid, and is no guarantee: a process dies in
\* its own time, killed or not (Exit).
KillByPid(c) ==
    /\ At(c, "kill")
    /\ Goto(c, "killwait")
    /\ Quiet /\ UNCHANGED <<fileVars, procVars, rec, file>>

\* Mutant of Killed: a query that fails counts as an answer.
KilledUnless(c) == \E id \in Identity(rec[c]) : id # "match"

Killed(c) == \E id \in Identity(rec[c]) : id \in {"gone", "mismatch"}

\* The caller's child is nobody's from here on.
GiveUp(c) == proc' = [p \in Pids |-> IF proc[p].born = rec[c].started /\ Child(p)
                                     THEN [proc[p] EXCEPT !.lost = TRUE] ELSE proc[p]]

\* The poll says so, or the five seconds (or the context) run out.
KillWait(c) ==
    /\ At(c, "killwait")
    /\ \/ /\ Killed(c)
          /\ Goto(c, IF op[c] = "up" THEN "undo" ELSE "remove")
          /\ Quiet /\ UNCHANGED <<proc, rec, file>>
       \/ op[c] = "up" /\ Goto(c, "undo") /\ GiveUp(c) /\ Quiet /\ UNCHANGED <<rec, file>>
       \/ op[c] = "down" /\ Report(c) /\ UNCHANGED proc
    /\ UNCHANGED <<fileVars, births>>

DownRead(c) ==
    /\ At(c, "downread")
    /\ \/ Readable(content) /\ ReadRecord(c) /\ Goto(c, "downopen") /\ Quiet
       \/ ~Readable(content) /\ Report(c)
    /\ UNCHANGED <<fileVars, procVars>>

\* os.FindProcess: a handle on the process that has the pid now.
DownOpen(c) ==
    /\ At(c, "downopen")
    /\ handle' = [handle EXCEPT ![c] = proc[rec[c].pid].born]
    /\ Goto(c, "downverify")
    /\ UNCHANGED <<fileVars, procVars, op, rec, file, seen>>

DownVerify(c) ==
    /\ At(c, "downverify")
    /\ \E id \in Identity(rec[c]) :
          \/ id \in {"gone", "mismatch"} /\ Goto(c, "remove") /\ Quiet /\ UNCHANGED <<rec, file>>
          \/ id = "unknown" /\ Report(c)
          \/ id = "match" /\ Goto(c, "downkill") /\ Quiet /\ UNCHANGED <<rec, file>>
    /\ UNCHANGED <<fileVars, procVars>>

\* proc.Kill on the handle; a process that is over is an error.
DownKill(c) ==
    /\ At(c, "downkill")
    /\ LET held == handle[c] # 0 /\ proc[rec[c].pid].born = handle[c] IN
       \/ held /\ Goto(c, "kill") /\ Quiet /\ UNCHANGED <<rec, file>>
       \/ ~(held /\ proc[rec[c].pid].alive) /\ Report(c)
    /\ UNCHANGED <<fileVars, procVars>>

Remove(c) ==
    /\ At(c, "remove")
    /\ RemoveRecord(c)
    /\ Report(c)
    /\ UNCHANGED procVars

\* The record is the caller's claim, as yet empty.
Claimed(c) ==
    /\ content = Empty /\ file[c] = path
    /\ pc[c] \in {"start", "write", "kill", "killwait", "undo"}

\* The caller's process dies; a child it had not finished launching is nobody's.
Crash(c) ==
    /\ ~At(c, "idle")
    /\ IF op[c] = "up" THEN GiveUp(c) ELSE UNCHANGED proc
    /\ forsaken' = (forsaken \/ Claimed(c))
    /\ Leave(c)
    /\ UNCHANGED <<births, path, content, usurped>>

----------------------------------------------------------------------------
Init ==
    /\ path = NoFile /\ content = Absent /\ usurped = FALSE /\ forsaken = FALSE
    /\ proc = [p \in Pids |-> Free] /\ births = 0
    /\ pc = [c \in Callers |-> "idle"] /\ op = [c \in Callers |-> "none"]
    /\ rec = [c \in Callers |-> Absent] /\ file = [c \in Callers |-> NoFile]
    /\ handle = [c \in Callers |-> 0] /\ seen = [c \in Callers |-> {}]

Status(c) == Read(c) \/ Verify(c) \/ Clean(c) \/ Done(c)
Up(c)     == Claim(c) \/ Start(c) \/ Write(c) \/ Poll(c) \/ GraceOver(c) \/ Launched(c) \/ Undo(c)
Down(c)   == DownRead(c) \/ DownOpen(c) \/ DownVerify(c) \/ DownKill(c) \/ Remove(c)
Step(c)   == Status(c) \/ Up(c) \/ Down(c) \/ KillByPid(c) \/ KillWait(c)

System == \E p \in Pids : Exit(p) \/ Reap(p) \/ Connect(p) \/ \E k \in Strangers : Recycle(p, k)

Next ==
    \/ \E c \in Callers : Step(c) \/ Crash(c) \/ \E o \in {"up", "down", "status"} : Begin(c, o)
    \/ System

Spec == Init /\ [][Next]_vars

----------------------------------------------------------------------------
(* Properties.                                                             *)

Places == {"idle", "read", "verify", "clean", "decide", "start", "write", "confirm", "launched",
           "undo", "kill", "killwait", "downread", "downopen", "downverify", "downkill", "remove"}

\* Every variable has its type, and the path names a file exactly when there
\* is something to read.
TypeOK ==
    /\ path \in Inodes \cup {NoFile}
    /\ content \in Records
    /\ content = Absent <=> path = NoFile
    /\ usurped \in BOOLEAN /\ forsaken \in BOOLEAN
    /\ births \in 0 .. MaxBirths
    /\ proc \in [Pids -> [born : 0 .. births, kind : {"none", "child", "cloudflared", "program"},
                          alive : BOOLEAN, up : BOOLEAN, lost : BOOLEAN]]
    /\ pc \in [Callers -> Places]
    /\ op \in [Callers -> {"none", "up", "down", "status"}]
    /\ rec \in [Callers -> Records]
    /\ file \in [Callers -> Inodes \cup {NoFile}]
    /\ handle \in [Callers -> 0 .. births]
    /\ seen \in [Callers -> SUBSET {"kept", "lost"}]

InHand(n) == \E c \in Callers : op[c] = "up" /\ rec[c].started = n
                                /\ pc[c] \in {"write", "confirm", "kill", "killwait"}

\* A child that lives can be found again: it is in the record or in the hands
\* of the `up` that launched it, or the operator was told to end it, or that
\* `up` died; unless a record was removed on the evidence of an older one.
NoOrphan ==
    ~usurped => \A p \in Pids :
        Child(p) => content.started = proc[p].born \/ InHand(proc[p].born) \/ proc[p].lost

\* An empty claim, which every later `up` and `down` refuses, is in the hands of
\* an `up` that will write or remove it, or was left by a crash: no failure leaves
\* one (the deferred removal of startDetached).
ClaimHeld == content = Empty => forsaken \/ \E c \in Callers : Claimed(c)

\* What was begun is finished or can be found.
NothingLost == NoOrphan /\ ClaimHeld

\* "The mutual exclusion between two concurrent `up` calls" (claimRecord): two
\* children live at once only if one was given up.
OneChild ==
    \A p, q \in Pids : Child(p) /\ ~proc[p].lost /\ Child(q) /\ ~proc[q].lost => p = q

\* A `down` removes the record only of a child that has died (killAndConfirm).
DownTrue ==
    \A c \in Callers, p \in Pids : At(c, "remove") /\ proc[p].born = rec[c].started => ~Child(p)

\* An `up` reports success only for a child that has connected: the log it read,
\* to which every child appends, held no other's marker, or that of a child that
\* was given up (logContains, confirmStarted).  It takes a system that still shows
\* a dead child while its launch is being confirmed.
UpTrue ==
    Unix /\ ~usurped => \A c \in Callers : At(c, "launched") /\ "lost" \notin seen[c] =>
        \E p \in Pids : proc[p].born = rec[c].started /\ proc[p].up

\* The operator is told the truth of what became of the child, both ways.
CommandsTell == DownTrue /\ UpTrue
=============================================================================
