---------------------------- MODULE TunnelProofs ----------------------------
(***************************************************************************)
(* Proofs about Tunnel, for any callers, processes and files, on either    *)
(* kind of system: its types, that nothing begun is lost (NothingLost) and *)
(* that commands tell the truth (CommandsTell).                            *)
(*                                                                         *)
(* The inductive invariant (TunnelInv) says of every caller what it has by *)
(* where it is (PlaceOK), what the file it knows holds if the path still   *)
(* names it (FileOK), of whom it removes the record (EndOK), whose record  *)
(* it is that the path names (Kept) and whose markers it has read          *)
(* (MarksOK); that no two launches share a file (OwnersApart); and that a  *)
(* record names one process for ever (RowsOK).                             *)
(***************************************************************************)
EXTENDS Tunnel, TLAPS

\* An `up` from its claim to its end, and whoever works on a record it read.
Owner(c)  == \/ pc[c] \in {"start", "write", "confirm", "launched", "undo"}
             \/ pc[c] \in {"kill", "killwait"} /\ op[c] = "up"
Reader(c) == \/ pc[c] \in {"verify", "downopen", "downverify", "downkill", "remove"}
             \/ pc[c] \in {"kill", "killwait"} /\ op[c] = "down"

\* No process shows that birth any more.
Gone(n) == \A p \in Pids : proc[p].born = n => ~proc[p].alive /\ ~Unix

\* A record names one process, by its birth and for ever.
Sound(r) ==
    /\ Readable(r) \/ r \in {Empty, Absent}
    /\ Readable(r) => /\ r.started \in 1 .. births
                      /\ \A p \in Pids : proc[p].born = r.started =>
                            p = r.pid /\ proc[p].kind = "child"

RowsOK ==
    /\ \A p \in Pids : proc[p].kind # "none" => proc[p].born # 0
    /\ \A p \in Pids : proc[p].kind = "none" => proc[p] = Free
    /\ Sound(content) /\ \A c \in Callers : Sound(rec[c])

\* What a caller has by where it is.
PlaceOK(c) ==
    /\ Owner(c) => op[c] = "up" /\ file[c] # NoFile
    /\ Reader(c) => Readable(rec[c]) /\ file[c] # NoFile
    /\ pc[c] \in {"downread", "downopen", "downverify", "downkill", "remove"} => op[c] = "down"
    /\ pc[c] \in {"kill", "killwait"} => op[c] \in {"up", "down"}
    /\ pc[c] \in {"write", "confirm", "launched", "kill", "killwait"} => Readable(rec[c])
    /\ pc[c] = "start" => ~Readable(rec[c])
    /\ pc[c] = "clean" => file[c] # NoFile
    /\ Launching(c) => proc[rec[c].pid].born = rec[c].started

OwnersApart == \A c, d \in Callers : Owner(c) /\ Owner(d) /\ file[c] = file[d] => c = d

\* What the file a caller knows holds, if the path still names it.
FileOK(c) ==
    path = file[c] =>
        /\ pc[c] \in {"start", "write"} => content = Empty
        /\ pc[c] \in {"confirm", "launched"} => content = rec[c]
        /\ Reader(c) => content = rec[c]
        /\ Owner(c) => content \in {Empty, rec[c]}
        /\ pc[c] = "clean" => Readable(content) /\ Gone(content.started)

\* Of whom the record is removed.
EndOK(c) ==
    /\ pc[c] = "remove" => Gone(rec[c].started)
    /\ pc[c] = "undo" /\ Readable(rec[c]) =>
          \A p \in Pids : Child(p) /\ proc[p].born = rec[c].started => proc[p].lost

\* Whose record it is.
Kept(c) ==
    /\ pc[c] \in {"start", "write"} => path = file[c]
    /\ Owner(c) /\ pc[c] # "undo" => path = file[c] \/ Gone(rec[c].started)

\* Whose markers the launch has read.
MarksOK(c) ==
    /\ ~Launching(c) /\ pc[c] \notin {"start", "kill", "killwait", "undo"} => seen[c] = {}
    /\ pc[c] \in {"kill", "killwait"} /\ op[c] = "down" => seen[c] = {}
    /\ pc[c] = "launched" => seen[c] # {}
    /\ Unix /\ ~usurped /\ (Launching(c) \/ pc[c] = "start") /\ "kept" \in seen[c] =>
          \E p \in Pids : proc[p].born = rec[c].started /\ proc[p].up

TunnelInv ==
    /\ TypeOK /\ RowsOK /\ OwnersApart
    /\ \A c \in Callers : PlaceOK(c) /\ FileOK(c) /\ EndOK(c) /\ MarksOK(c)
    /\ ~usurped => \A c \in Callers : Kept(c)
    /\ NoOrphan /\ ClaimHeld

----------------------------------------------------------------------------
(* What steps are made of.                                                 *)

WorldSame == UNCHANGED <<path, content, usurped, forsaken, proc, births>>

Holds(c) == pc'[c] = pc[c] /\ op'[c] = op[c] /\ rec'[c] = rec[c] /\ file'[c] = file[c]
Stays(c) == Holds(c) /\ seen'[c] = seen[c]

\* A step of caller d, and what it has after it.
Acts(d, l, o, r, f, s) ==
    /\ pc'[d] = l /\ op'[d] = o /\ rec'[d] = r /\ file'[d] = f /\ seen'[d] = s
    /\ \A c \in Callers \ {d} : Stays(c)

Advances(d, l) == Acts(d, l, op[d], rec[d], file[d], seen[d])
Leaves(d)      == Acts(d, "idle", "none", Absent, NoFile, {})
Reports(d)     == Acts(d, "read", "status", Absent, NoFile, seen[d])

\* Each action of a caller, told without its functions.
DoesBegin(d) == \E o \in {"up", "down", "status"} :
    /\ pc[d] = "idle" /\ WorldSame
    /\ Acts(d, IF o = "down" THEN "downread" ELSE "read", o, rec[d], file[d], seen[d])
DoesRead(d) ==
    /\ WorldSame
    /\ \/ pc[d] = "read" /\ Acts(d, IF Readable(content) THEN "verify" ELSE "decide", op[d],
                                 content, path, seen[d])
       \/ pc[d] = "downread" /\ Readable(content)
          /\ Acts(d, "downopen", op[d], content, path, seen[d])
DoesVerify(d) ==
    /\ pc[d] = "verify" /\ WorldSame
    /\ \/ "gone" \in Identity(rec[d]) /\ Acts(d, "clean", op[d], Absent, file[d], seen[d])
       \/ "mismatch" \in Identity(rec[d]) /\ Acts(d, "clean", op[d], Absent, file[d], seen[d])
       \/ \E r \in {rec[d], Absent} : Acts(d, "decide", op[d], r, file[d], seen[d])
DoesClaim(d) ==
    /\ pc[d] = "decide" /\ op[d] = "up" /\ ~Readable(rec[d]) /\ path = NoFile
    /\ path' \in Inodes /\ (\A c \in Callers : file[c] # path') /\ content' = Empty
    /\ Acts(d, "start", op[d], rec[d], path', seen[d])
    /\ UNCHANGED <<usurped, forsaken, proc, births>>
DoesStart(d) ==
    /\ pc[d] = "start" /\ UNCHANGED <<path, content, usurped, forsaken>>
    /\ \/ \E p \in Pids : /\ Spawn(p, "child")
                          /\ Acts(d, "write", op[d], [pid |-> p, started |-> births + 1],
                                  file[d], seen[d])
       \/ UNCHANGED <<proc, births>> /\ Advances(d, "undo")
DoesWrite(d) ==
    /\ pc[d] = "write" /\ UNCHANGED <<path, usurped, forsaken, proc, births>>
    /\ \/ content' = (IF path = file[d] THEN rec[d] ELSE content) /\ Advances(d, "confirm")
       \/ content' = content /\ Advances(d, "kill")
DoesConfirm(d) ==
    /\ pc[d] = "confirm" /\ WorldSame
    /\ Advances(d, "kill") \/ (seen[d] # {} /\ Advances(d, "launched"))
DoesLeave(d) == pc[d] \in {"decide", "launched"} /\ WorldSame /\ Leaves(d)
DoesRemove(d) ==
    /\ pc[d] \in {"clean", "undo", "remove"} /\ RemoveRecord(d) /\ UNCHANGED <<proc, births>>
    /\ \/ pc[d] = "clean" /\ Advances(d, "decide")
       \/ pc[d] = "undo" /\ Leaves(d)
       \/ pc[d] = "remove" /\ Reports(d)
DoesKill(d) == pc[d] = "kill" /\ WorldSame /\ Advances(d, "killwait")
DoesKillWait(d) ==
    /\ pc[d] = "killwait" /\ UNCHANGED <<path, content, usurped, forsaken, births>>
    /\ \/ /\ "gone" \in Identity(rec[d]) \/ "mismatch" \in Identity(rec[d])
          /\ UNCHANGED proc /\ Advances(d, IF op[d] = "up" THEN "undo" ELSE "remove")
       \/ op[d] = "up" /\ GiveUp(d) /\ Advances(d, "undo")
       \/ op[d] = "down" /\ UNCHANGED proc /\ Reports(d)
DoesDown(d) ==
    /\ WorldSame
    /\ \/ pc[d] = "downopen" /\ Advances(d, "downverify")
       \/ pc[d] = "downverify" /\ Advances(d, "remove")
          /\ ("gone" \in Identity(rec[d]) \/ "mismatch" \in Identity(rec[d]))
       \/ pc[d] = "downverify" /\ Advances(d, "downkill")
       \/ pc[d] = "downkill" /\ Advances(d, "kill")
       \/ pc[d] \in {"downread", "downverify", "downkill"} /\ Reports(d)
DoesCrash(d) ==
    /\ pc[d] # "idle" /\ UNCHANGED <<path, content, usurped, births>> /\ Leaves(d)
    /\ IF op[d] = "up" THEN GiveUp(d) ELSE UNCHANGED proc
    /\ forsaken' = (forsaken \/ Claimed(d))

Does(d) == \/ DoesBegin(d) \/ DoesRead(d) \/ DoesVerify(d) \/ DoesClaim(d) \/ DoesStart(d)
           \/ DoesWrite(d) \/ DoesConfirm(d) \/ DoesLeave(d) \/ DoesRemove(d) \/ DoesKill(d)
           \/ DoesKillWait(d) \/ DoesDown(d) \/ DoesCrash(d)

\* A step of a caller, told by the values it leaves that caller with.
LEMMA ActsFacts ==
    ASSUME TypeOK, NEW d \in Callers, NEW l, NEW o, NEW r, NEW f, NEW s,
           pc' = [pc EXCEPT ![d] = l], op' = [op EXCEPT ![d] = o],
           rec' = [rec EXCEPT ![d] = r], file' = [file EXCEPT ![d] = f],
           seen' = [seen EXCEPT ![d] = s]
    PROVE  Acts(d, l, o, r, f, s)
  BY DEF TypeOK, Acts, Stays, Holds

\* The same, of variables that do not change.
LEMMA SameFacts ==
    ASSUME TypeOK, NEW d \in Callers
    PROVE  /\ op = [op EXCEPT ![d] = op[d]] /\ rec = [rec EXCEPT ![d] = rec[d]]
           /\ file = [file EXCEPT ![d] = file[d]] /\ seen = [seen EXCEPT ![d] = seen[d]]
  BY DEF TypeOK

\* A command returns.
LEMMA LeaveFacts ==
    ASSUME TypeOK, NEW d \in Callers, Leave(d)
    PROVE  Leaves(d)
  BY ActsFacts DEF Leave, Leaves

\* A `down` goes on to report the status.
LEMMA ReportFacts ==
    ASSUME TypeOK, NEW d \in Callers, Report(d)
    PROVE  Reports(d)
  BY ActsFacts, SameFacts DEF Report, Reports

\* A caller moves on and keeps what it has.
LEMMA AdvanceFacts ==
    ASSUME TypeOK, NEW d \in Callers, NEW l, Goto(d, l), Quiet, UNCHANGED <<rec, file>>
    PROVE  Advances(d, l)
  BY ActsFacts, SameFacts DEF Goto, Quiet, Advances

\* Every step of a caller is one of those above.
LEMMA CallerSteps ==
    ASSUME TypeOK, NEW d \in Callers,
           Step(d) \/ Crash(d) \/ \E o \in {"up", "down", "status"} : Begin(d, o)
    PROVE  Does(d)
<1> USE DEF At, fileVars, procVars, callerVars
<1>1. ASSUME NEW o \in {"up", "down", "status"}, Begin(d, o)
      PROVE  DoesBegin(d)
  <2>1. Acts(d, IF o = "down" THEN "downread" ELSE "read", o, rec[d], file[d], seen[d])
    BY <1>1, ActsFacts, SameFacts DEF Begin, Goto
  <2> QED BY <1>1, <2>1 DEF Begin, DoesBegin, WorldSame
<1>2. CASE Read(d)
  <2>1. Acts(d, IF Readable(content) THEN "verify" ELSE "decide", op[d], content, path, seen[d])
    BY <1>2, ActsFacts, SameFacts DEF Read, ReadRecord, Goto, Quiet
  <2>2. DoesRead(d)
    BY <1>2, <2>1 DEF Read, DoesRead, WorldSame
  <2> QED BY <2>2 DEF Does
<1>3. CASE Verify(d)
  <2>1. PICK id \in Identity(rec[d]) :
            /\ Goto(d, IF id \in {"gone", "mismatch"} THEN "clean" ELSE "decide")
            /\ rec' = [rec EXCEPT ![d] = IF id = "match" THEN @ ELSE Absent]
    BY <1>3 DEF Verify
  <2>2. Acts(d, IF id \in {"gone", "mismatch"} THEN "clean" ELSE "decide", op[d],
             IF id = "match" THEN rec[d] ELSE Absent, file[d], seen[d])
    BY <1>3, <2>1, ActsFacts, SameFacts DEF Verify, Goto, Quiet
  <2>3. pc[d] = "verify" /\ WorldSame
    BY <1>3 DEF Verify, WorldSame
  <2>4. CASE id = "gone"
    BY <2>1, <2>2, <2>3, <2>4 DEF Does, DoesVerify
  <2>5. CASE id = "mismatch"
    BY <2>1, <2>2, <2>3, <2>5 DEF Does, DoesVerify
  <2>6. CASE id \notin {"gone", "mismatch"}
    <3>1. \E r \in {rec[d], Absent} : Acts(d, "decide", op[d], r, file[d], seen[d])
      BY <2>2, <2>6
    <3> QED BY <2>3, <3>1 DEF Does, DoesVerify
  <2> QED BY <2>4, <2>5, <2>6
<1>4. CASE Claim(d)
  <2>1. PICK i \in Inodes \ ({path} \cup {file[c] : c \in Callers}) :
            /\ path' = i /\ content' = Empty /\ file' = [file EXCEPT ![d] = i]
            /\ Goto(d, "start") /\ Quiet /\ UNCHANGED <<usurped, forsaken, procVars, rec>>
    BY <1>4 DEF Claim, Create
  <2>2. Acts(d, "start", op[d], rec[d], i, seen[d])
    BY <2>1, ActsFacts, SameFacts DEF Goto, Quiet
  <2>3. DoesClaim(d)
    BY <1>4, <2>1, <2>2 DEF Claim, DoesClaim
  <2> QED BY <2>3 DEF Does
<1>5. CASE Start(d)
  <2>1. CASE \E p \in Pids : /\ Spawn(p, "child")
                             /\ rec' = [rec EXCEPT ![d] = [pid |-> p, started |-> births + 1]]
                             /\ Goto(d, "write")
    <3>1. PICK p \in Pids : /\ Spawn(p, "child")
                            /\ rec' = [rec EXCEPT ![d] = [pid |-> p, started |-> births + 1]]
                            /\ Goto(d, "write")
      BY <2>1
    <3>2. Acts(d, "write", op[d], [pid |-> p, started |-> births + 1], file[d], seen[d])
      BY <1>5, <3>1, ActsFacts, SameFacts DEF Start, Goto, Quiet
    <3>3. DoesStart(d)
      BY <1>5, <3>1, <3>2 DEF Start, DoesStart
    <3> QED BY <3>3 DEF Does
  <2>2. CASE Goto(d, "undo") /\ UNCHANGED <<procVars, rec>>
    <3>1. Advances(d, "undo")
      BY <1>5, <2>2, AdvanceFacts DEF Start
    <3>2. DoesStart(d)
      BY <1>5, <2>2, <3>1 DEF Start, DoesStart
    <3> QED BY <3>2 DEF Does
  <2> QED BY <1>5, <2>1, <2>2 DEF Start
<1>6. CASE Write(d)
  <2>1. pc[d] = "write" /\ UNCHANGED <<path, usurped, forsaken, proc, births>> /\ Quiet
        /\ UNCHANGED <<rec, file>>
    BY <1>6 DEF Write
  <2>2. Goto(d, "confirm") => Advances(d, "confirm")
    BY <2>1, AdvanceFacts
  <2>3. Goto(d, "kill") => Advances(d, "kill")
    BY <2>1, AdvanceFacts
  <2>4. DoesWrite(d)
    BY <1>6, <2>1, <2>2, <2>3 DEF Write, DoesWrite
  <2> QED BY <2>4 DEF Does
<1>7. CASE Poll(d) \/ GraceOver(d)
  <2>1. pc[d] = "confirm" /\ WorldSame /\ Quiet /\ UNCHANGED <<rec, file>>
        /\ (Goto(d, "kill") \/ (seen[d] # {} /\ Goto(d, "launched")))
    BY <1>7 DEF Poll, GraceOver, WorldSame, Registered
  <2>2. Goto(d, "launched") => Advances(d, "launched")
    BY <2>1, AdvanceFacts
  <2>3. Goto(d, "kill") => Advances(d, "kill")
    BY <2>1, AdvanceFacts
  <2>4. DoesConfirm(d)
    BY <2>1, <2>2, <2>3 DEF DoesConfirm
  <2> QED BY <2>4 DEF Does
<1>8. CASE Done(d) \/ Launched(d)
  BY <1>8, LeaveFacts DEF Done, Launched, DoesLeave, WorldSame, Does
<1>9. CASE Clean(d)
  <2>1. Advances(d, "decide")
    BY <1>9, AdvanceFacts DEF Clean
  <2>2. DoesRemove(d)
    BY <1>9, <2>1 DEF Clean, DoesRemove
  <2> QED BY <2>2 DEF Does
<1>10. CASE Undo(d)
  BY <1>10, LeaveFacts DEF Undo, DoesRemove, Does
<1>11. CASE Remove(d)
  BY <1>11, ReportFacts DEF Remove, DoesRemove, Does
<1>12. CASE KillByPid(d)
  <2>1. Advances(d, "killwait")
    BY <1>12, AdvanceFacts DEF KillByPid
  <2>2. DoesKill(d)
    BY <1>12, <2>1 DEF KillByPid, DoesKill, WorldSame
  <2> QED BY <2>2 DEF Does
<1>13. CASE KillWait(d)
  <2>1. pc[d] = "killwait" /\ UNCHANGED <<path, content, usurped, forsaken, births>>
    BY <1>13 DEF KillWait
  <2>2. CASE /\ Killed(d) /\ Goto(d, IF op[d] = "up" THEN "undo" ELSE "remove")
             /\ Quiet /\ UNCHANGED <<proc, rec, file>>
    <3>1. Advances(d, IF op[d] = "up" THEN "undo" ELSE "remove")
      BY <2>2, AdvanceFacts
    <3>2. "gone" \in Identity(rec[d]) \/ "mismatch" \in Identity(rec[d])
      BY <2>2 DEF Killed
    <3>3. DoesKillWait(d)
      BY <2>1, <2>2, <3>1, <3>2 DEF DoesKillWait
    <3> QED BY <3>3 DEF Does
  <2>3. CASE op[d] = "up" /\ Goto(d, "undo") /\ GiveUp(d) /\ Quiet /\ UNCHANGED <<rec, file>>
    <3>1. Advances(d, "undo")
      BY <2>3, AdvanceFacts
    <3>2. DoesKillWait(d)
      BY <2>1, <2>3, <3>1 DEF DoesKillWait
    <3> QED BY <3>2 DEF Does
  <2>4. CASE op[d] = "down" /\ Report(d) /\ UNCHANGED proc
    <3>1. DoesKillWait(d)
      BY <2>1, <2>4, ReportFacts DEF DoesKillWait
    <3> QED BY <3>1 DEF Does
  <2> QED BY <1>13, <2>2, <2>3, <2>4 DEF KillWait
<1>14. CASE DownRead(d)
  <2>1. pc[d] = "downread" /\ WorldSame
    BY <1>14 DEF DownRead, WorldSame
  <2>2. CASE Readable(content) /\ ReadRecord(d) /\ Goto(d, "downopen") /\ Quiet
    <3>1. Acts(d, "downopen", op[d], content, path, seen[d])
      BY <2>2, ActsFacts, SameFacts DEF ReadRecord, Goto, Quiet
    <3> QED BY <2>1, <2>2, <3>1 DEF Does, DoesRead
  <2>3. CASE Report(d)
    BY <2>1, <2>3, ReportFacts DEF Does, DoesDown
  <2> QED BY <1>14, <2>2, <2>3 DEF DownRead
<1>15. CASE DownOpen(d)
  <2>1. Advances(d, "downverify")
    BY <1>15, ActsFacts, SameFacts DEF DownOpen, Goto, Advances
  <2> QED BY <1>15, <2>1 DEF DownOpen, WorldSame, DoesDown, Does
<1>16. CASE DownVerify(d)
  <2>1. pc[d] = "downverify" /\ WorldSame
    BY <1>16 DEF DownVerify, WorldSame
  <2>2. PICK id \in Identity(rec[d]) :
          \/ id \in {"gone", "mismatch"} /\ Goto(d, "remove") /\ Quiet /\ UNCHANGED <<rec, file>>
          \/ id = "unknown" /\ Report(d)
          \/ id = "match" /\ Goto(d, "downkill") /\ Quiet /\ UNCHANGED <<rec, file>>
    BY <1>16 DEF DownVerify
  <2>3. CASE id \in {"gone", "mismatch"} /\ Goto(d, "remove") /\ Quiet /\ UNCHANGED <<rec, file>>
    <3>1. Advances(d, "remove")
      BY <2>3, AdvanceFacts
    <3> QED BY <2>1, <2>3, <3>1 DEF Does, DoesDown
  <2>4. CASE Report(d)
    BY <2>1, <2>4, ReportFacts DEF Does, DoesDown
  <2>5. CASE Goto(d, "downkill") /\ Quiet /\ UNCHANGED <<rec, file>>
    <3>1. Advances(d, "downkill")
      BY <2>5, AdvanceFacts
    <3> QED BY <2>1, <3>1 DEF Does, DoesDown
  <2> QED BY <2>2, <2>3, <2>4, <2>5
<1>17. CASE DownKill(d)
  <2>1. pc[d] = "downkill" /\ WorldSame
    BY <1>17 DEF DownKill, WorldSame
  <2>2. (Goto(d, "kill") /\ Quiet /\ UNCHANGED <<rec, file>>) \/ Report(d)
    BY <1>17 DEF DownKill
  <2>3. CASE Goto(d, "kill") /\ Quiet /\ UNCHANGED <<rec, file>>
    <3>1. Advances(d, "kill")
      BY <2>3, AdvanceFacts
    <3> QED BY <2>1, <3>1 DEF Does, DoesDown
  <2>4. CASE Report(d)
    BY <2>1, <2>4, ReportFacts DEF Does, DoesDown
  <2> QED BY <2>2, <2>3, <2>4
<1>18. CASE Crash(d)
  <2>1. Leaves(d)
    BY <1>18, LeaveFacts DEF Crash
  <2>2. DoesCrash(d)
    BY <1>18, <2>1 DEF Crash, DoesCrash
  <2> QED BY <2>2 DEF Does
<1>19. DoesBegin(d) => Does(d)
  BY DEF Does
<1> QED BY <1>1, <1>2, <1>3, <1>4, <1>5, <1>6, <1>7, <1>8, <1>9, <1>10, <1>11, <1>12, <1>13,
           <1>14, <1>15, <1>16, <1>17, <1>18, <1>19 DEF Step, Status, Up, Down

----------------------------------------------------------------------------
(* The process table.                                                      *)

\* A row that stays, one that is freed, and a new one.
Aged(p)     == /\ proc'[p].born = proc[p].born /\ proc'[p].kind = proc[p].kind
               /\ proc'[p].alive => proc[p].alive
               /\ proc[p].up => proc'[p].up
               /\ proc[p].lost => proc'[p].lost
               /\ proc[p] = Free => proc'[p] = Free
Cleared(p)  == /\ proc'[p] = Free
               /\ \A c \in Callers : Launching(c) =>
                     rec[c].started # proc[p].born \/ proc[p].kind # "child"
Fresh(p, k) == /\ proc[p] = Free /\ proc'[p] = Row(births + 1, k)
               /\ births' = births + 1 /\ births < MaxBirths
               /\ \A q \in Pids \ {p} : proc'[q] = proc[q]

GoneNext(n)  == \A p \in Pids : proc'[p].born = n => ~proc'[p].alive /\ ~Unix
SoundNext(r) ==
    /\ Readable(r) \/ r \in {Empty, Absent}
    /\ Readable(r) => /\ r.started \in 1 .. births'
                      /\ \A p \in Pids : proc'[p].born = r.started =>
                            p = r.pid /\ proc'[p].kind = "child"

RowsAge  == births' = births /\ \A p \in Pids : Aged(p) \/ Cleared(p)
RowsMove == RowsAge \/ \E p \in Pids, k \in {"child", "cloudflared", "program"} : Fresh(p, k)

Kinds    == {"none", "child", "cloudflared", "program"}
Rows(n)  == [born : 0 .. n, kind : Kinds, alive : BOOLEAN, up : BOOLEAN, lost : BOOLEAN]

\* The rows of the process table, as the births are counted on.
LEMMA RowTypes ==
    ASSUME NEW n \in Nat
    PROVE  /\ \A k \in Kinds : Row(n, k) \in Rows(n)
           /\ Free \in Rows(n) /\ Rows(n) \subseteq Rows(n + 1)
           /\ \A r \in Rows(n) : /\ [r EXCEPT !.alive = FALSE] \in Rows(n)
                                 /\ [r EXCEPT !.up = TRUE] \in Rows(n)
                                 /\ [r EXCEPT !.lost = TRUE] \in Rows(n)
<1>1. /\ TRUE \in BOOLEAN /\ FALSE \in BOOLEAN /\ n \in 0 .. n /\ 0 \in 0 .. n
      /\ 0 .. n \subseteq 0 .. (n + 1) /\ "none" \in Kinds
  BY DEF Kinds
<1>2. \A k \in Kinds : Row(n, k) \in Rows(n)
  BY <1>1 DEF Row, Rows
<1>3. Free \in Rows(n)
  BY <1>1 DEF Free, Rows
<1>4. Rows(n) \subseteq Rows(n + 1)
  BY <1>1 DEF Rows
<1>5. ASSUME NEW r \in Rows(n), NEW b \in BOOLEAN
      PROVE  /\ [r EXCEPT !.alive = b] \in Rows(n)
             /\ [r EXCEPT !.up = b] \in Rows(n)
             /\ [r EXCEPT !.lost = b] \in Rows(n)
  BY DEF Rows
<1> QED BY <1>1, <1>2, <1>3, <1>4, <1>5

\* What each change of the table is.
LEMMA SpawnRows ==
    ASSUME TypeOK, NEW p \in Pids, NEW k \in {"child", "cloudflared", "program"}, Spawn(p, k)
    PROVE  Fresh(p, k) /\ births' \in 0 .. MaxBirths /\ proc' \in [Pids -> Rows(births')]
<1>1. births \in Nat /\ births < MaxBirths /\ births' = births + 1 /\ births' \in 0 .. MaxBirths
  BY TunnelAssumption DEF TypeOK, Spawn
<1>2. proc \in [Pids -> Rows(births)]
  BY DEF TypeOK, Rows, Kinds
<1>3. Row(births + 1, k) \in Rows(births + 1) /\ Rows(births) \subseteq Rows(births + 1)
  BY <1>1, RowTypes DEF Kinds
<1>4. proc' = [proc EXCEPT ![p] = Row(births + 1, k)] /\ proc[p] = Free
  BY DEF Spawn
<1>5. proc' \in [Pids -> Rows(births')]
  BY <1>1, <1>2, <1>3, <1>4
<1>6. proc'[p] = Row(births + 1, k) /\ \A q \in Pids \ {p} : proc'[q] = proc[q]
  BY <1>2, <1>4
<1> QED BY <1>1, <1>4, <1>5, <1>6 DEF Fresh

\* A row that does not change has aged.
LEMMA AgedSame == ASSUME UNCHANGED proc, NEW p \in Pids PROVE Aged(p)
  BY DEF Aged

\* A process ends, or is reaped.
LEMMA ExitRows ==
    ASSUME TypeOK, NEW p \in Pids, Exit(p) \/ Reap(p)
    PROVE  RowsAge /\ proc' \in [Pids -> Rows(births')]
<1>1. births \in Nat /\ births' = births /\ proc \in [Pids -> Rows(births)]
  BY TunnelAssumption DEF TypeOK, Exit, Reap, Rows, Kinds
<1>2. Free \in Rows(births) /\ [proc[p] EXCEPT !.alive = FALSE] \in Rows(births)
  BY <1>1, RowTypes
<1>3. \/ /\ proc' = [proc EXCEPT ![p] = [proc[p] EXCEPT !.alive = FALSE]]
         /\ proc[p].kind = "child"
      \/ proc' = [proc EXCEPT ![p] = Free] /\ proc[p].kind # "child"
      \/ /\ proc' = [proc EXCEPT ![p] = Free]
         /\ \A c \in Callers : Launching(c) => rec[c].started # proc[p].born
  BY DEF Exit, Reap
<1>4. proc' \in [Pids -> Rows(births')]
  BY <1>1, <1>2, <1>3
<1>5. \A q \in Pids \ {p} : proc'[q] = proc[q]
  BY <1>1, <1>3
<1>6. Aged(p) \/ Cleared(p)
  <2>1. CASE proc' = [proc EXCEPT ![p] = [proc[p] EXCEPT !.alive = FALSE]] /\ proc[p].kind = "child"
    <3>1. proc'[p] = [proc[p] EXCEPT !.alive = FALSE] /\ proc[p] \in Rows(births)
      BY <1>1, <2>1
    <3>2. proc[p] # Free
      BY <2>1 DEF Free
    <3> QED BY <3>1, <3>2 DEF Aged, Rows
  <2>2. CASE proc' = [proc EXCEPT ![p] = Free] /\ proc[p].kind # "child"
    BY <1>1, <2>2 DEF Cleared
  <2>3. CASE /\ proc' = [proc EXCEPT ![p] = Free]
             /\ \A c \in Callers : Launching(c) => rec[c].started # proc[p].born
    BY <1>1, <2>3 DEF Cleared
  <2> QED BY <1>3, <2>1, <2>2, <2>3
<1>7. \A q \in Pids \ {p} : Aged(q)
  BY <1>5 DEF Aged
<1> QED BY <1>1, <1>4, <1>6, <1>7 DEF RowsAge

\* A child is connected.
LEMMA ConnectRows ==
    ASSUME TypeOK, NEW p \in Pids, Connect(p)
    PROVE  /\ RowsAge /\ proc' \in [Pids -> Rows(births')]
           /\ proc'[p].up /\ \A q \in Pids : Child(q)' => Child(q) /\ (proc'[q].lost <=> proc[q].lost)
<1>1. births \in Nat /\ births' = births /\ proc \in [Pids -> Rows(births)]
  BY TunnelAssumption DEF TypeOK, Connect, Rows, Kinds
<1>2. [proc[p] EXCEPT !.up = TRUE] \in Rows(births) /\ proc[p] \in Rows(births)
  BY <1>1, RowTypes
<1>3. proc' = [proc EXCEPT ![p] = [proc[p] EXCEPT !.up = TRUE]]
  BY DEF Connect
<1>4. proc' \in [Pids -> Rows(births')]
  BY <1>1, <1>2, <1>3
<1>5. proc'[p] = [proc[p] EXCEPT !.up = TRUE] /\ \A q \in Pids \ {p} : proc'[q] = proc[q]
  BY <1>1, <1>3
<1>6. /\ proc'[p].up /\ proc'[p].born = proc[p].born /\ proc'[p].kind = proc[p].kind
      /\ (proc'[p].alive <=> proc[p].alive) /\ (proc'[p].lost <=> proc[p].lost)
  BY <1>2, <1>5 DEF Rows
<1>7. proc[p] # Free
  BY DEF Connect, Child, Free
<1>8. \A q \in Pids : Aged(q)
  BY <1>5, <1>6, <1>7 DEF Aged
<1> QED BY <1>1, <1>4, <1>5, <1>6, <1>8 DEF RowsAge, Child

\* A child is given up by its `up`.
LEMMA GiveUpRows ==
    ASSUME TypeOK, NEW d \in Callers, GiveUp(d), UNCHANGED births
    PROVE  /\ RowsAge /\ proc' \in [Pids -> Rows(births')]
           /\ \A q \in Pids : /\ Child(q)' => Child(q) /\ proc'[q].born = proc[q].born
                              /\ Child(q)' /\ proc[q].born = rec[d].started => proc'[q].lost
<1>1. births \in Nat /\ births' = births /\ proc \in [Pids -> Rows(births)]
  BY TunnelAssumption DEF TypeOK, Rows, Kinds
<1>2. \A q \in Pids : proc'[q] = IF proc[q].born = rec[d].started /\ Child(q)
                                THEN [proc[q] EXCEPT !.lost = TRUE] ELSE proc[q]
  BY DEF GiveUp
<1>3. ASSUME NEW q \in Pids
      PROVE  /\ proc'[q] \in Rows(births) /\ Aged(q)
             /\ Child(q)' => Child(q) /\ proc'[q].born = proc[q].born
             /\ Child(q)' /\ proc[q].born = rec[d].started => proc'[q].lost
  <2>1. CASE proc[q].born = rec[d].started /\ Child(q)
    <3>1. proc'[q] = [proc[q] EXCEPT !.lost = TRUE] /\ proc[q] \in Rows(births)
      BY <1>1, <1>2, <2>1
    <3>2. proc[q] # Free
      BY <2>1 DEF Child, Free
    <3>3. proc'[q] \in Rows(births)
      BY <1>1, <3>1, RowTypes
    <3>4. /\ proc'[q].born = proc[q].born /\ proc'[q].kind = proc[q].kind
          /\ (proc'[q].alive <=> proc[q].alive) /\ (proc'[q].up <=> proc[q].up) /\ proc'[q].lost
      BY <3>1 DEF Rows
    <3> QED BY <2>1, <3>2, <3>3, <3>4 DEF Aged, Child
  <2>2. CASE ~(proc[q].born = rec[d].started /\ Child(q))
    <3>1. proc'[q] = proc[q]
      BY <1>2, <2>2
    <3> QED BY <1>1, <2>2, <3>1 DEF Aged, Child
  <2> QED BY <2>1, <2>2
<1>4. proc' \in [Pids -> Rows(births')]
  BY <1>1, <1>3 DEF GiveUp
<1> QED BY <1>1, <1>3, <1>4 DEF RowsAge

\* What no change of the table undoes.
LEMMA RowsKeep ==
    ASSUME TypeOK, RowsMove,
           \A p \in Pids : proc[p].kind # "none" => proc[p].born # 0,
           \A p \in Pids : proc[p].kind = "none" => proc[p] = Free
    PROVE  /\ \A p \in Pids : proc'[p].kind # "none" => proc'[p].born # 0
           /\ \A p \in Pids : proc'[p].kind = "none" => proc'[p] = Free
           /\ \A n \in 1 .. births : Gone(n) => GoneNext(n)
           /\ \A r : Sound(r) => SoundNext(r)
           /\ \A p \in Pids : /\ proc'[p].born = births + 1 \/ proc'[p].born \in 0 .. births
                              /\ Child(p)' /\ proc'[p].born # births + 1 =>
                                    /\ Child(p) /\ proc'[p].born = proc[p].born
                                    /\ proc[p].lost => proc'[p].lost
           /\ births \in Nat /\ births' \in Nat /\ births <= births'
<1>1. births \in Nat /\ births' \in {births, births + 1}
  BY DEF TypeOK, RowsMove, RowsAge, Fresh
<1>2. \A p \in Pids : proc[p].born \in 0 .. births
  BY DEF TypeOK
<1>3. ASSUME NEW p \in Pids
      PROVE  /\ proc'[p].kind # "none" => proc'[p].born # 0
             /\ proc'[p].kind = "none" => proc'[p] = Free
             /\ \A n \in 1 .. births : proc'[p].born = n =>
                   /\ proc[p].born = n /\ proc'[p].kind = proc[p].kind
                   /\ proc'[p].alive => proc[p].alive
  <2>1. CASE Aged(p)
    BY <1>2, <2>1 DEF Aged, Free
  <2>2. CASE proc'[p] = Free
    BY <2>2 DEF Free
  <2>3. CASE \E k \in {"child", "cloudflared", "program"} : proc'[p] = Row(births + 1, k)
    BY <1>1, <2>3 DEF Row
  <2>4. CASE proc'[p] = proc[p]
    BY <2>4
  <2> QED BY <2>1, <2>2, <2>3, <2>4 DEF RowsMove, RowsAge, Cleared, Fresh
<1>4. \A n \in 1 .. births : Gone(n) => GoneNext(n)
  BY <1>3 DEF Gone, GoneNext
<1>5. ASSUME NEW r, Sound(r)
      PROVE  SoundNext(r)
  BY <1>1, <1>3, <1>5 DEF Sound, SoundNext, Readable
<1>6. ASSUME NEW p \in Pids
      PROVE  /\ proc'[p].born = births + 1 \/ proc'[p].born \in 0 .. births
             /\ Child(p)' /\ proc'[p].born # births + 1 =>
                   /\ Child(p) /\ proc'[p].born = proc[p].born
                   /\ proc[p].lost => proc'[p].lost
  <2>1. CASE Aged(p)
    BY <1>2, <2>1 DEF Aged, Child
  <2>2. CASE proc'[p] = Free
    BY <1>1, <2>2 DEF Free, Child
  <2>3. CASE \E k \in {"child", "cloudflared", "program"} : proc'[p] = Row(births + 1, k)
    BY <2>3 DEF Row
  <2>4. CASE proc'[p] = proc[p]
    BY <1>2, <2>4 DEF Child
  <2> QED BY <2>1, <2>2, <2>3, <2>4 DEF RowsMove, RowsAge, Cleared, Fresh
<1> QED BY <1>1, <1>3, <1>4, <1>5, <1>6

----------------------------------------------------------------------------
(* Types.                                                                  *)

FileTypes   == /\ path \in Inodes \cup {NoFile} /\ content \in Records
               /\ (content = Absent <=> path = NoFile)
               /\ usurped \in BOOLEAN /\ forsaken \in BOOLEAN
ProcTypes   == births \in 0 .. MaxBirths /\ proc \in [Pids -> Rows(births)]
CallerTypes == /\ pc \in [Callers -> Places]
               /\ op \in [Callers -> {"none", "up", "down", "status"}]
               /\ rec \in [Callers -> Records]
               /\ file \in [Callers -> Inodes \cup {NoFile}]
               /\ seen \in [Callers -> SUBSET {"kept", "lost"}]
HandleTypes == handle \in [Callers -> 0 .. births]

\* The type invariant, in four parts.
LEMMA TypeParts == TypeOK <=> FileTypes /\ ProcTypes /\ CallerTypes /\ HandleTypes
  BY DEF TypeOK, FileTypes, ProcTypes, CallerTypes, HandleTypes, Rows, Kinds

\* The same, after a step.
LEMMA TypePartsNext == TypeOK' <=> FileTypes' /\ ProcTypes' /\ CallerTypes' /\ HandleTypes'
  BY DEF TypeOK, FileTypes, ProcTypes, CallerTypes, HandleTypes, Rows, Kinds

\* The records: those of a process, the empty one and none.
LEMMA RecordTypes ==
    /\ Empty \in Records /\ Absent \in Records /\ Empty # Absent
    /\ ~Readable(Empty) /\ ~Readable(Absent)
    /\ \A p \in Pids, n \in 1 .. MaxBirths :
          LET r == [pid |-> p, started |-> n]
          IN /\ r \in Records /\ Readable(r) /\ r # Absent /\ r # Empty
             /\ r.pid = p /\ r.started = n
  BY TunnelAssumption DEF Empty, Absent, Records, Readable

\* The file, for a step of a caller.
LEMMA FileTyped ==
    ASSUME TypeOK, NEW d \in Callers, RowsOK, PlaceOK(d),
           Step(d) \/ Crash(d) \/ \E o \in {"up", "down", "status"} : Begin(d, o)
    PROVE  FileTypes'
<1>1. Does(d)
  BY CallerSteps
<1>2. FileTypes /\ rec[d] \in Records
  BY TypeParts DEF CallerTypes
<1>3. CASE WorldSame
  BY <1>2, <1>3 DEF WorldSame, FileTypes
<1>4. CASE UNCHANGED <<path, content, usurped, forsaken>>
  BY <1>2, <1>4 DEF FileTypes
<1>5. CASE DoesClaim(d)
  BY <1>2, <1>5, RecordTypes, TunnelAssumption DEF DoesClaim, FileTypes
<1>6. CASE DoesWrite(d)
  <2>1. Readable(rec[d]) /\ file[d] # NoFile
    BY <1>6 DEF DoesWrite, PlaceOK, Owner
  <2>2. rec[d] # Absent
    BY <2>1, RecordTypes
  <2> QED BY <1>2, <1>6, <2>1, <2>2 DEF DoesWrite, FileTypes
<1>7. CASE DoesRemove(d)
  BY <1>2, <1>7, RecordTypes DEF DoesRemove, RemoveRecord, FileTypes
<1>8. CASE DoesCrash(d)
  BY <1>2, <1>8 DEF DoesCrash, FileTypes
<1> QED BY <1>1, <1>3, <1>4, <1>5, <1>6, <1>7, <1>8
       DEF Does, DoesBegin, DoesRead, DoesVerify, DoesStart, DoesConfirm, DoesLeave, DoesKill,
           DoesKillWait, DoesDown

\* The process table, for a step of a caller.
LEMMA ProcTyped ==
    ASSUME TypeOK, NEW d \in Callers, Does(d)
    PROVE  ProcTypes' /\ RowsMove
<1>1. ProcTypes
  BY TypeParts
<1>2. CASE UNCHANGED <<proc, births>>
  BY <1>1, <1>2, AgedSame DEF ProcTypes, RowsMove, RowsAge
<1>3. ASSUME NEW p \in Pids, Spawn(p, "child")
      PROVE  ProcTypes' /\ RowsMove
  BY <1>3, SpawnRows DEF ProcTypes, RowsMove
<1>4. CASE GiveUp(d) /\ UNCHANGED births
  BY <1>1, <1>4, GiveUpRows DEF ProcTypes, RowsMove
<1>5. CASE DoesStart(d)
  BY <1>2, <1>3, <1>5 DEF DoesStart
<1>6. CASE DoesKillWait(d) \/ DoesCrash(d)
  BY <1>2, <1>4, <1>6 DEF DoesKillWait, DoesCrash
<1>7. CASE ~(DoesStart(d) \/ DoesKillWait(d) \/ DoesCrash(d))
  BY <1>2, <1>7 DEF Does, DoesBegin, DoesRead, DoesVerify, DoesClaim, DoesWrite, DoesConfirm,
           DoesLeave, DoesRemove, DoesKill, DoesDown, WorldSame
<1> QED BY <1>5, <1>6, <1>7

\* What the callers have, for a step of a caller.
LEMMA CallerTyped ==
    ASSUME TypeOK, NEW d \in Callers,
           Step(d) \/ Crash(d) \/ \E o \in {"up", "down", "status"} : Begin(d, o)
    PROVE  CallerTypes'
<1>1. /\ CallerTypes /\ content \in Records /\ path \in Inodes \cup {NoFile}
      /\ Absent \in Records
  BY TypeParts, RecordTypes DEF FileTypes
<1> USE <1>1 DEF CallerTypes, Places, Goto, Quiet
<1>2. CASE Leave(d) \/ Report(d)
  BY <1>2 DEF Leave, Report
<1>3. CASE Read(d) \/ Verify(d) \/ Clean(d) \/ Done(d)
  BY <1>2, <1>3 DEF Read, ReadRecord, Verify, Clean, Done
<1>4. CASE Claim(d)
  BY <1>4 DEF Claim, Create
<1>5. CASE Start(d)
  <2>1. ASSUME NEW p \in Pids, Spawn(p, "child")
        PROVE  [pid |-> p, started |-> births + 1] \in Records
    BY <2>1, SpawnRows, RecordTypes DEF TypeOK, Fresh
  <2> QED BY <1>5, <2>1 DEF Start
<1>6. CASE Write(d) \/ Poll(d) \/ GraceOver(d) \/ Launched(d) \/ Undo(d) \/ KillByPid(d)
  BY <1>2, <1>6 DEF Write, Poll, GraceOver, Launched, Undo, KillByPid
<1>7. CASE KillWait(d)
  BY <1>2, <1>7 DEF KillWait
<1>8. CASE DownRead(d) \/ DownOpen(d) \/ DownVerify(d) \/ DownKill(d) \/ Remove(d)
  BY <1>2, <1>8 DEF DownRead, ReadRecord, DownOpen, DownVerify, DownKill, Remove
<1>9. CASE Crash(d) \/ \E o \in {"up", "down", "status"} : Begin(d, o)
  BY <1>2, <1>9 DEF Crash, Begin
<1> QED BY <1>3, <1>4, <1>5, <1>6, <1>7, <1>8, <1>9 DEF Step, Status, Up, Down

\* What the handles know, for a step of a caller.
LEMMA HandleTyped ==
    ASSUME TypeOK, RowsMove, NEW d \in Callers, PlaceOK(d),
           Step(d) \/ Crash(d) \/ \E o \in {"up", "down", "status"} : Begin(d, o)
    PROVE  HandleTypes'
<1>1. /\ HandleTypes /\ births \in Nat /\ births' \in Nat /\ births <= births'
      /\ 0 .. births \subseteq 0 .. births'
  BY TypeParts DEF ProcTypes, RowsMove, RowsAge, Fresh
<1>2. CASE UNCHANGED handle
  BY <1>1, <1>2 DEF HandleTypes
<1>3. CASE Leave(d) \/ Report(d)
  BY <1>1, <1>3 DEF HandleTypes, Leave, Report
<1>4. CASE DownOpen(d)
  <2>1. rec[d].pid \in Pids
    BY <1>4, TypeParts DEF DownOpen, At, PlaceOK, Reader, Readable, CallerTypes, Records
  <2>2. proc[rec[d].pid].born \in 0 .. births
    BY <2>1 DEF TypeOK
  <2> QED BY <1>1, <1>4, <2>2 DEF HandleTypes, DownOpen
<1>5. CASE Read(d) \/ Verify(d) \/ Clean(d) \/ Done(d) \/ Claim(d) \/ Start(d)
  BY <1>2, <1>3, <1>5 DEF Read, Verify, Clean, Done, Claim, Create, Start, Quiet
<1>6. CASE Write(d) \/ Poll(d) \/ GraceOver(d) \/ Launched(d) \/ Undo(d) \/ KillByPid(d)
  BY <1>2, <1>3, <1>6 DEF Write, Poll, GraceOver, Launched, Undo, KillByPid, Quiet
<1>7. CASE KillWait(d) \/ DownRead(d) \/ DownVerify(d) \/ DownKill(d) \/ Remove(d)
  BY <1>2, <1>3, <1>7 DEF KillWait, DownRead, DownVerify, DownKill, Remove, Quiet
<1>8. CASE Crash(d) \/ \E o \in {"up", "down", "status"} : Begin(d, o)
  BY <1>2, <1>3, <1>8 DEF Crash, Begin
<1> QED BY <1>4, <1>5, <1>6, <1>7, <1>8 DEF Step, Status, Up, Down

\* A step of the operating system.
OwnSame == UNCHANGED <<path, content, usurped, forsaken, pc, op, rec, file, handle>>

\* A step of the system leaves the file and the callers alone.
LEMMA SystemSteps ==
    ASSUME TypeOK, System
    PROVE  /\ OwnSame /\ RowsMove /\ ProcTypes' /\ seen' \in [Callers -> SUBSET {"kept", "lost"}]
           /\ seen' = seen \/ \E p \in Pids : Connect(p)
           /\ \A q \in Pids : Child(q)' => /\ Child(q) /\ proc'[q].born = proc[q].born
                                           /\ proc[q].lost => proc'[q].lost
<1>0. ProcTypes /\ seen \in [Callers -> SUBSET {"kept", "lost"}]
  BY TypeParts DEF CallerTypes
<1> USE DEF OwnSame, fileVars, callerVars
<1>1. ASSUME RowsAge, NEW q \in Pids, Child(q)'
      PROVE  Child(q) /\ proc'[q].born = proc[q].born /\ (proc[q].lost => proc'[q].lost)
  BY <1>1 DEF RowsAge, Aged, Cleared, Child, Free
<1>2. ASSUME NEW p \in Pids, Exit(p) \/ Reap(p)
      PROVE  OwnSame /\ RowsAge /\ ProcTypes' /\ seen' = seen
  <2>1. OwnSame /\ seen' = seen /\ births' = births
    BY <1>2 DEF Exit, Reap
  <2> QED BY <1>0, <1>2, <2>1, ExitRows DEF ProcTypes
<1>3. ASSUME NEW p \in Pids, Connect(p)
      PROVE  /\ OwnSame /\ RowsAge /\ ProcTypes'
             /\ seen' \in [Callers -> SUBSET {"kept", "lost"}]
  <2>1. OwnSame /\ births' = births
    BY <1>3 DEF Connect
  <2>2. seen' \in [Callers -> SUBSET {"kept", "lost"}]
    BY <1>0, <1>3 DEF Connect
  <2> QED BY <1>0, <1>3, <2>1, <2>2, ConnectRows DEF ProcTypes
<1>4. ASSUME NEW p \in Pids, NEW k \in Strangers, Recycle(p, k)
      PROVE  /\ OwnSame /\ RowsMove /\ ProcTypes' /\ seen' = seen
             /\ \A q \in Pids : Child(q)' => Child(q) /\ proc'[q] = proc[q]
  <2>1. k \in {"cloudflared", "program"}
    BY TunnelAssumption
  <2>2. Fresh(p, k) /\ ProcTypes'
    BY <1>4, <2>1, SpawnRows DEF Recycle, ProcTypes
  <2>3. \A q \in Pids : Child(q)' => Child(q) /\ proc'[q] = proc[q]
    BY <2>1, <2>2 DEF Fresh, Row, Child
  <2> QED BY <1>4, <2>1, <2>2, <2>3 DEF Recycle, RowsMove
<1> QED BY <1>0, <1>1, <1>2, <1>3, <1>4 DEF System, RowsMove

\* Every step keeps the types.
LEMMA TunnelTypes ==
    ASSUME TunnelInv, [Next]_vars
    PROVE  TypeOK'
<1>0. TypeOK /\ RowsOK /\ \A c \in Callers : PlaceOK(c)
  BY DEF TunnelInv
<1>1. ASSUME NEW d \in Callers,
             Step(d) \/ Crash(d) \/ \E o \in {"up", "down", "status"} : Begin(d, o)
      PROVE  TypeOK'
  <2>1. Does(d)
    BY <1>0, <1>1, CallerSteps
  <2>2. FileTypes' /\ ProcTypes' /\ CallerTypes' /\ RowsMove
    BY <1>0, <1>1, <2>1, FileTyped, ProcTyped, CallerTyped
  <2>3. HandleTypes'
    BY <1>0, <1>1, <2>2, HandleTyped
  <2> QED BY <2>2, <2>3, TypePartsNext
<1>2. CASE System
  <2>1. /\ OwnSame /\ RowsMove /\ ProcTypes' /\ seen' \in [Callers -> SUBSET {"kept", "lost"}]
    BY <1>0, <1>2, SystemSteps
  <2>2. births \in Nat /\ births' \in Nat /\ births <= births' /\ 0 .. births \subseteq 0 .. births'
    BY <1>0, <2>1, TypeParts DEF ProcTypes, RowsMove, RowsAge, Fresh
  <2>3. FileTypes' /\ CallerTypes' /\ HandleTypes'
    BY <1>0, <2>1, <2>2, TypeParts DEF FileTypes, CallerTypes, HandleTypes, OwnSame
  <2> QED BY <2>1, <2>3, TypePartsNext
<1>3. CASE UNCHANGED vars
  BY <1>0, <1>3 DEF TypeOK, vars, fileVars, procVars, callerVars
<1> QED BY <1>1, <1>2, <1>3 DEF Next

----------------------------------------------------------------------------
(* What a step leaves of a caller that does not take it.                   *)

\* A sound record of a process names a birth that was.
LEMMA ReadableFacts ==
    ASSUME NEW r, Sound(r), Readable(r), TypeOK
    PROVE  r.started \in 1 .. births /\ r # Empty /\ r # Absent /\ r.started \in Int
  BY RecordTypes DEF Sound, TypeOK

\* Births are not taken back: what was gone stays gone, what was sound stays sound.
LEMMA SoundKept ==
    ASSUME TypeOK, RowsOK, RowsMove
    PROVE  /\ \A p \in Pids : proc'[p].kind # "none" => proc'[p].born # 0
           /\ \A p \in Pids : proc'[p].kind = "none" => proc'[p] = Free
           /\ \A n \in 1 .. births : Gone(n) => GoneNext(n)
           /\ \A r : Sound(r) => SoundNext(r)
           /\ births \in Nat /\ births' \in Nat /\ births <= births'
           /\ \A p \in Pids : /\ proc'[p].born = births + 1 \/ proc'[p].born \in 0 .. births
                              /\ Child(p)' /\ proc'[p].born # births + 1 =>
                                    /\ Child(p) /\ proc'[p].born = proc[p].born
                                    /\ proc[p].lost => proc'[p].lost
  BY RowsKeep DEF RowsOK

\* The row of a child whose launch is being confirmed stays.
LEMMA RowKept ==
    ASSUME TypeOK, RowsOK, RowsMove, NEW c \in Callers, Launching(c), PlaceOK(c)
    PROVE  /\ rec[c].pid \in Pids /\ proc[rec[c].pid].born = rec[c].started
           /\ proc'[rec[c].pid].born = rec[c].started
           /\ proc[rec[c].pid].up => proc'[rec[c].pid].up
<1> DEFINE p == rec[c].pid
<1>1. Readable(rec[c]) /\ Sound(rec[c]) /\ rec[c] \in Records
  BY DEF Launching, PlaceOK, RowsOK, TypeOK
<1>2. p \in Pids /\ rec[c].started \in 1 .. births /\ proc[p].born = rec[c].started
      /\ proc[p].kind = "child"
  BY <1>1, ReadableFacts DEF Readable, Records, PlaceOK, Sound
<1>3. Aged(p) \/ proc'[p] = proc[p]
  BY <1>2 DEF RowsMove, RowsAge, Cleared, Fresh, Free
<1> QED BY <1>2, <1>3 DEF Aged

\* What a caller has by where it is outlasts a step of another.
LEMMA PlaceKept ==
    ASSUME TypeOK, RowsOK, RowsMove, NEW c \in Callers, Holds(c), PlaceOK(c)
    PROVE  PlaceOK(c)'
<1>1. Launching(c)' => Launching(c)
  BY DEF Launching, Holds
<1>2. Launching(c) => proc'[rec[c].pid].born = rec[c].started
  BY RowKept
<1> QED BY <1>1, <1>2 DEF PlaceOK, Owner, Reader, Holds, Readable

\* So does what is true of the record it removes.
LEMMA EndKept ==
    ASSUME TypeOK, RowsOK, RowsMove, NEW c \in Callers, Holds(c), PlaceOK(c), EndOK(c)
    PROVE  EndOK(c)'
<1>1. Readable(rec[c]) => rec[c].started \in 1 .. births
  BY ReadableFacts DEF RowsOK
<1>2. births \in Nat
  BY SoundKept
<1>3. pc[c] = "remove" => GoneNext(rec[c].started)
  BY <1>1, SoundKept DEF EndOK, PlaceOK, Reader
<1>4. ASSUME pc[c] = "undo", Readable(rec[c]), NEW p \in Pids, Child(p)',
             proc'[p].born = rec[c].started
      PROVE  proc'[p].lost
  BY <1>1, <1>2, <1>4, SoundKept DEF EndOK
<1> QED BY <1>3, <1>4 DEF EndOK, Gone, GoneNext, Holds, Readable

\* So do the markers it has read.
LEMMA MarksKept ==
    ASSUME TypeOK, RowsOK, RowsMove, NEW c \in Callers, Stays(c), PlaceOK(c), MarksOK(c),
           usurped => usurped'
    PROVE  MarksOK(c)'
<1>1. (Launching(c)' <=> Launching(c)) /\ pc'[c] = pc[c] /\ op'[c] = op[c] /\ rec'[c] = rec[c]
      /\ seen'[c] = seen[c]
  BY DEF Launching, Stays, Holds
<1>2. ASSUME Unix, ~usurped, Launching(c) \/ pc[c] = "start", "kept" \in seen[c]
      PROVE  \E p \in Pids : proc'[p].born = rec[c].started /\ proc'[p].up
  <2>1. PICK p \in Pids : proc[p].born = rec[c].started /\ proc[p].up
    BY <1>2 DEF MarksOK
  <2>2. proc[p].kind # "none"
    BY <2>1 DEF RowsOK, Free
  <2>3. proc[p].born # 0 /\ proc[p].born \in 0 .. births
    BY <2>2 DEF RowsOK, TypeOK
  <2>4. Launching(c)
    <3>1. CASE pc[c] = "start"
      <4>1. rec[c] \in {Empty, Absent}
        BY <3>1 DEF PlaceOK, RowsOK, Sound
      <4> QED BY <2>1, <2>3, <4>1 DEF Empty, Absent, TypeOK
    <3> QED BY <1>2, <3>1
  <2>5. p = rec[c].pid
    <3>1. Sound(rec[c]) /\ Readable(rec[c])
      BY <2>4 DEF RowsOK, PlaceOK, Launching
    <3> QED BY <2>1, <3>1 DEF Sound
  <2> QED BY <2>1, <2>4, <2>5, RowKept
<1> QED BY <1>1, <1>2 DEF MarksOK

\* What it knows of the file: nobody touches the file, or somebody else does.
LEMMA SameFileKept ==
    ASSUME TypeOK, RowsOK, RowsMove, NEW c \in Callers, Holds(c), PlaceOK(c),
           UNCHANGED <<path, content>>
    PROVE  /\ FileOK(c) => FileOK(c)'
           /\ Kept(c) => Kept(c)'
<1>1. Readable(rec[c]) /\ Gone(rec[c].started) => GoneNext(rec[c].started)
  BY ReadableFacts, SoundKept DEF RowsOK
<1>2. Readable(content) /\ Gone(content.started) => GoneNext(content.started)
  BY ReadableFacts, SoundKept DEF RowsOK
<1>3. FileOK(c) => FileOK(c)'
  BY <1>2 DEF FileOK, Owner, Reader, Holds, Readable, Gone, GoneNext
<1>4. Kept(c) => Kept(c)'
  <2>1. Owner(c) /\ pc[c] \notin {"undo", "start"} => Readable(rec[c])
    BY DEF Owner, PlaceOK
  <2> QED BY <1>1, <2>1 DEF Kept, Owner, Holds, Gone, GoneNext
<1> QED BY <1>3, <1>4

\* What a caller knows of the file outlasts the removal of a record by another.
LEMMA RemovalKept ==
    ASSUME TypeOK, RowsOK, RowsMove, OwnersApart, NEW c \in Callers, Holds(c), PlaceOK(c),
           FileOK(c), NEW d \in Callers \ {c}, PlaceOK(d), FileOK(d), EndOK(d),
           pc[d] \in {"clean", "undo", "remove"}, RemoveRecord(d)
    PROVE  /\ FileOK(c)'
           /\ ~usurped' /\ Kept(c) => Kept(c)'
<1>1. path' = NoFile /\ (~usurped' => path = NoFile \/ path = file[d])
  BY DEF RemoveRecord
<1>2. FileOK(c)'
  BY <1>1 DEF FileOK, PlaceOK, Owner, Reader, Holds
<1>3. ASSUME ~usurped', Kept(c), Owner(c), pc[c] # "undo"
      PROVE  pc[c] \notin {"start", "write"} /\ GoneNext(rec[c].started)
  <2>1. CASE path = file[c]
    <3>1. path = file[d] /\ content \in {Empty, rec[c]}
      BY <1>1, <1>3, <2>1 DEF FileOK, PlaceOK
    <3>2. pc[d] # "undo"
      BY <1>3, <2>1, <3>1 DEF OwnersApart, Owner
    <3>3. Readable(content) /\ Gone(content.started)
      BY <3>1, <3>2 DEF FileOK, PlaceOK, Reader, EndOK
    <3>4. content = rec[c]
      BY <3>1, <3>3, RecordTypes
    <3>5. GoneNext(content.started)
      BY <3>3, ReadableFacts, SoundKept DEF RowsOK
    <3>6. pc[c] \notin {"start", "write"}
      BY <2>1, <3>3, RecordTypes DEF FileOK
    <3> QED BY <3>4, <3>5, <3>6
  <2>2. CASE path # file[c]
    <3>1. pc[c] \notin {"start", "write"} /\ Gone(rec[c].started)
      BY <1>3, <2>2 DEF Kept
    <3>2. Readable(rec[c])
      BY <1>3, <3>1 DEF PlaceOK, Owner
    <3> QED BY <3>1, <3>2, ReadableFacts, SoundKept DEF RowsOK
  <2> QED BY <2>1, <2>2
<1>4. ~usurped' /\ Kept(c) => Kept(c)'
  BY <1>3 DEF Kept, Owner, Holds, Gone, GoneNext
<1> QED BY <1>2, <1>4

\* It outlasts the claim of another.
LEMMA ClaimKept ==
    ASSUME TypeOK, RowsOK, RowsMove, NEW c \in Callers, Holds(c), PlaceOK(c),
           NEW d \in Callers \ {c}, DoesClaim(d)
    PROVE  /\ FileOK(c)'
           /\ Kept(c) => Kept(c)'
<1>1. path = NoFile /\ path' # file[c]
  BY DEF DoesClaim
<1>2. FileOK(c)'
  BY <1>1 DEF FileOK, Holds
<1>3. ASSUME Kept(c), Owner(c), pc[c] # "undo"
      PROVE  pc[c] \notin {"start", "write"} /\ GoneNext(rec[c].started)
  <2>1. pc[c] \notin {"start", "write"} /\ Gone(rec[c].started)
    BY <1>1, <1>3 DEF Kept, PlaceOK
  <2>2. Readable(rec[c])
    BY <1>3, <2>1 DEF PlaceOK, Owner
  <2> QED BY <2>1, <2>2, ReadableFacts, SoundKept DEF RowsOK
<1>4. Kept(c) => Kept(c)'
  BY <1>3 DEF Kept, Owner, Holds, Gone, GoneNext
<1> QED BY <1>2, <1>4

\* It outlasts what another writes.
LEMMA WriteKept ==
    ASSUME TypeOK, RowsOK, RowsMove, OwnersApart, NEW c \in Callers, Holds(c), PlaceOK(c),
           FileOK(c), NEW d \in Callers \ {c}, FileOK(d), DoesWrite(d)
    PROVE  /\ FileOK(c)'
           /\ Kept(c) => Kept(c)'
<1>1. CASE content' = content
  BY <1>1, SameFileKept DEF DoesWrite
<1>2. CASE content' # content
  <2>1. path' = path /\ path = file[d] /\ content = Empty /\ Owner(d)
    BY <1>2 DEF DoesWrite, FileOK, Owner
  <2>2. path = file[c] => ~Owner(c) /\ ~Reader(c) /\ pc[c] # "clean"
    BY <2>1, RecordTypes DEF OwnersApart, FileOK, PlaceOK
  <2>3. FileOK(c)'
    BY <2>1, <2>2 DEF FileOK, Owner, Reader, Holds
  <2>4. ASSUME Kept(c), Owner(c), pc[c] # "undo"
        PROVE  pc[c] \notin {"start", "write"} /\ GoneNext(rec[c].started)
    <3>1. pc[c] \notin {"start", "write"} /\ Gone(rec[c].started)
      BY <2>2, <2>4 DEF Kept
    <3>2. Readable(rec[c])
      BY <2>4, <3>1 DEF PlaceOK, Owner
    <3> QED BY <3>1, <3>2, ReadableFacts, SoundKept DEF RowsOK
  <2>5. Kept(c) => Kept(c)'
    BY <2>4 DEF Kept, Owner, Holds, Gone, GoneNext
  <2> QED BY <2>3, <2>5
<1> QED BY <1>1, <1>2

----------------------------------------------------------------------------
(* What a step makes of the caller that takes it.                          *)

\* An answer that the process is over, or is another, is true of the process
\* of a record.
LEMMA KilledFacts ==
    ASSUME TypeOK, NEW r \in Records, Sound(r), Readable(r),
           "gone" \in Identity(r) \/ "mismatch" \in Identity(r)
    PROVE  Gone(r.started)
<1> SUFFICES ASSUME NEW p \in Pids, proc[p].born = r.started
             PROVE  ~proc[p].alive /\ ~Unix
  BY DEF Gone
<1>1. p = r.pid /\ proc[p].kind = "child"
  BY DEF Sound
<1>2. Verified(p, r)
  BY <1>1, ReadableFacts DEF Verified
<1>3. proc[p] # Free
  BY <1>1 DEF Free
<1> QED BY <1>1, <1>2, <1>3 DEF Identity

OwnOK(d) == /\ PlaceOK(d) /\ FileOK(d) /\ EndOK(d) /\ MarksOK(d)
            /\ ~usurped => Kept(d)

\* What is gone stays gone while no process changes.
LEMMA GoneSame ==
    ASSUME UNCHANGED proc, NEW n, Gone(n)
    PROVE  GoneNext(n)
  BY DEF Gone, GoneNext

\* Where no record is worked on.
LEMMA RestOK ==
    ASSUME NEW d \in Callers,
           pc'[d] \in {"idle", "read", "decide", "downread"},
           seen'[d] = {}, pc'[d] = "downread" => op'[d] = "down"
    PROVE  OwnOK(d)'
  BY DEF OwnOK, PlaceOK, FileOK, EndOK, MarksOK, Kept, Owner, Reader, Launching

\* A command begins (Up, Down, Status).
LEMMA BeginOwn ==
    ASSUME NEW d \in Callers, OwnOK(d), DoesBegin(d)
    PROVE  OwnOK(d)'
<1>1. seen[d] = {}
  BY DEF DoesBegin, OwnOK, MarksOK, Launching
<1> QED BY <1>1, RestOK DEF DoesBegin, Acts

\* It reads the record.
LEMMA ReadOwn ==
    ASSUME TypeOK, NEW d \in Callers, OwnOK(d), DoesRead(d)
    PROVE  OwnOK(d)'
<1>1. seen[d] = {} /\ (pc[d] = "downread" => op[d] = "down")
  BY DEF DoesRead, OwnOK, MarksOK, PlaceOK, Launching
<1>2. Readable(content) => path # NoFile
  BY RecordTypes DEF TypeOK
<1>3. CASE pc'[d] = "decide"
  BY <1>1, <1>3, RestOK DEF DoesRead, Acts
<1>4. ASSUME NEW l \in {"verify", "downopen"}, pc'[d] = l, l = "downopen" => op'[d] = "down",
             Readable(content), rec'[d] = content, file'[d] = path, seen'[d] = {}
      PROVE  OwnOK(d)'
  BY <1>2, <1>4 DEF OwnOK, PlaceOK, FileOK, EndOK, MarksOK, Kept, Owner, Reader, Launching,
                    Readable, DoesRead, WorldSame
<1> QED BY <1>1, <1>3, <1>4 DEF DoesRead, Acts

\* It asks for the identity of the process the record names.
LEMMA VerifyOwn ==
    ASSUME TypeOK, RowsOK, NEW d \in Callers, OwnOK(d), DoesVerify(d)
    PROVE  OwnOK(d)'
<1>1. /\ seen[d] = {} /\ Readable(rec[d]) /\ file[d] # NoFile
      /\ rec[d] \in Records /\ Sound(rec[d]) /\ (path = file[d] => content = rec[d])
  BY DEF DoesVerify, OwnOK, MarksOK, PlaceOK, FileOK, Reader, Launching, RowsOK, TypeOK
<1>2. CASE pc'[d] = "decide"
  BY <1>1, <1>2, RestOK DEF DoesVerify, Acts
<1>3. CASE /\ "gone" \in Identity(rec[d]) \/ "mismatch" \in Identity(rec[d])
           /\ Acts(d, "clean", op[d], Absent, file[d], seen[d])
  <2>1. GoneNext(rec[d].started)
    BY <1>1, <1>3, KilledFacts, GoneSame DEF DoesVerify, WorldSame
  <2> QED BY <1>1, <1>3, <2>1
         DEF OwnOK, PlaceOK, FileOK, EndOK, MarksOK, Kept, Owner, Reader, Launching, Readable,
             Gone, GoneNext, DoesVerify, WorldSame, Acts
<1> QED BY <1>2, <1>3 DEF DoesVerify, Acts

\* An `up` claims the path.
LEMMA ClaimOwn ==
    ASSUME TypeOK, NEW d \in Callers, OwnOK(d), DoesClaim(d)
    PROVE  OwnOK(d)'
<1>1. seen[d] = {} /\ path' # NoFile
  BY TunnelAssumption DEF DoesClaim, OwnOK, MarksOK, Launching
<1> QED BY <1>1 DEF DoesClaim, Acts, OwnOK, PlaceOK, FileOK, EndOK, MarksOK, Kept, Owner, Reader,
                    Launching, Readable

\* Before it has a child, an `up` has read no marker of one that is kept.
LEMMA NoMark ==
    ASSUME TypeOK, RowsOK, NEW d \in Callers, pc[d] = "start", PlaceOK(d), MarksOK(d),
           Unix, ~usurped
    PROVE  "kept" \notin seen[d]
<1> SUFFICES ASSUME "kept" \in seen[d] PROVE FALSE
  OBVIOUS
<1>1. PICK p \in Pids : proc[p].born = rec[d].started /\ proc[p].up
  BY DEF MarksOK
<1>2. proc[p].kind # "none"
  BY <1>1 DEF RowsOK, Free
<1>3. proc[p].born # 0 /\ proc[p].born \in 0 .. births
  BY <1>2 DEF RowsOK, TypeOK
<1>4. rec[d] \in {Empty, Absent}
  BY DEF PlaceOK, RowsOK, Sound
<1> QED BY <1>1, <1>3, <1>4 DEF Empty, Absent, TypeOK

\* It starts its child.
LEMMA StartOwn ==
    ASSUME TypeOK, RowsOK, NEW d \in Callers, OwnOK(d), DoesStart(d)
    PROVE  OwnOK(d)'
<1>1. /\ pc[d] = "start" /\ op[d] = "up" /\ file[d] # NoFile /\ ~Readable(rec[d])
      /\ (path = file[d] => content = Empty) /\ (~usurped => path = file[d])
  BY DEF DoesStart, OwnOK, PlaceOK, FileOK, Kept, Owner
<1>2. Unix /\ ~usurped => "kept" \notin seen[d]
  BY <1>1, NoMark DEF OwnOK
<1>3. UNCHANGED <<path, content, usurped>>
  BY DEF DoesStart
<1>4. ASSUME NEW p \in Pids, Spawn(p, "child"),
             Acts(d, "write", op[d], [pid |-> p, started |-> births + 1], file[d], seen[d])
      PROVE  OwnOK(d)'
  <2>1. Fresh(p, "child")
    BY <1>4, SpawnRows
  <2>2. proc'[p].born = births + 1
    BY <2>1 DEF Fresh, Row
  <2>3. rec'[d].pid = p /\ rec'[d].started = births + 1 /\ p # NoPid
    BY <1>4, TunnelAssumption DEF Acts
  <2> QED BY <1>1, <1>2, <1>3, <1>4, <2>2, <2>3
         DEF Acts, OwnOK, PlaceOK, FileOK, EndOK, MarksOK, Kept, Owner, Reader, Launching, Readable
<1>5. CASE Advances(d, "undo")
  BY <1>1, <1>3, <1>5
     DEF Advances, Acts, OwnOK, PlaceOK, FileOK, EndOK, MarksOK, Kept, Owner, Reader, Launching,
         Readable
<1> QED BY <1>4, <1>5 DEF DoesStart

\* It writes the record of its child.
LEMMA WriteOwn ==
    ASSUME TypeOK, NEW d \in Callers, OwnOK(d), DoesWrite(d)
    PROVE  OwnOK(d)'
<1>1. /\ pc[d] = "write" /\ op[d] = "up" /\ file[d] # NoFile /\ Readable(rec[d])
      /\ (path = file[d] => content = Empty) /\ (~usurped => path = file[d])
      /\ proc[rec[d].pid].born = rec[d].started
  BY DEF DoesWrite, OwnOK, PlaceOK, FileOK, Kept, Owner, Launching
<1>2. UNCHANGED <<path, usurped, proc>> /\ path' = path
  BY DEF DoesWrite
<1>3. Unix /\ ~usurped /\ "kept" \in seen[d] =>
         \E p \in Pids : proc[p].born = rec[d].started /\ proc[p].up
  BY <1>1 DEF OwnOK, MarksOK, Launching
<1>4. CASE content' = (IF path = file[d] THEN rec[d] ELSE content) /\ Advances(d, "confirm")
  BY <1>1, <1>2, <1>3, <1>4
     DEF Advances, Acts, OwnOK, PlaceOK, FileOK, EndOK, MarksOK, Kept, Owner, Reader, Launching,
         Readable
<1>5. CASE content' = content /\ Advances(d, "kill")
  BY <1>1, <1>2, <1>5
     DEF Advances, Acts, OwnOK, PlaceOK, FileOK, EndOK, MarksOK, Kept, Owner, Reader, Launching,
         Readable
<1> QED BY <1>4, <1>5 DEF DoesWrite

\* It waits for its child to connect.
LEMMA ConfirmOwn ==
    ASSUME TypeOK, NEW d \in Callers, OwnOK(d), DoesConfirm(d)
    PROVE  OwnOK(d)'
<1>1. /\ pc[d] = "confirm" /\ op[d] = "up" /\ file[d] # NoFile /\ Readable(rec[d])
      /\ (path = file[d] => content = rec[d])
      /\ (~usurped => path = file[d] \/ Gone(rec[d].started))
      /\ proc[rec[d].pid].born = rec[d].started
  BY DEF DoesConfirm, OwnOK, PlaceOK, FileOK, Kept, Owner, Launching
<1>2. UNCHANGED <<path, content, usurped, proc>>
  BY DEF DoesConfirm, WorldSame
<1>3. Unix /\ ~usurped /\ "kept" \in seen[d] =>
         \E p \in Pids : proc[p].born = rec[d].started /\ proc[p].up
  BY <1>1 DEF OwnOK, MarksOK, Launching
<1>4. ~usurped => path = file[d] \/ GoneNext(rec[d].started)
  BY <1>1, <1>2, GoneSame
<1>5. CASE Advances(d, "kill")
  BY <1>1, <1>2, <1>4, <1>5
     DEF Advances, Acts, OwnOK, PlaceOK, FileOK, EndOK, MarksOK, Kept, Owner, Reader, Launching,
         Readable, Gone, GoneNext
<1>6. CASE seen[d] # {} /\ Advances(d, "launched")
  BY <1>1, <1>2, <1>3, <1>4, <1>6
     DEF Advances, Acts, OwnOK, PlaceOK, FileOK, EndOK, MarksOK, Kept, Owner, Reader, Launching,
         Readable, Gone, GoneNext
<1> QED BY <1>5, <1>6 DEF DoesConfirm

\* A caller that returns, or crashes, has nothing left.
LEMMA LeaveOwn ==
    ASSUME NEW d \in Callers, Leaves(d)
    PROVE  OwnOK(d)'
  BY RestOK DEF Leaves, Acts

\* A `down` reports.
LEMMA ReportOwn ==
    ASSUME NEW d \in Callers, OwnOK(d), Reports(d), PlaceOK(d),
           \/ pc[d] \in {"downread", "downverify", "downkill", "remove"}
           \/ pc[d] = "killwait" /\ op[d] = "down"
    PROVE  OwnOK(d)'
<1>1. seen[d] = {}
  BY DEF OwnOK, MarksOK, Launching
<1> QED BY <1>1, RestOK DEF Reports, Acts

\* A caller removes the record.
LEMMA RemoveOwn ==
    ASSUME NEW d \in Callers, OwnOK(d), DoesRemove(d)
    PROVE  OwnOK(d)'
<1>1. CASE pc[d] = "clean" /\ Advances(d, "decide")
  <2>1. seen[d] = {}
    BY <1>1 DEF OwnOK, MarksOK, Launching
  <2> QED BY <1>1, <2>1, RestOK DEF Advances, Acts
<1>2. CASE pc[d] = "undo" /\ Leaves(d)
  BY <1>2, LeaveOwn
<1>3. CASE pc[d] = "remove" /\ Reports(d)
  BY <1>3, ReportOwn DEF OwnOK
<1> QED BY <1>1, <1>2, <1>3 DEF DoesRemove

\* A caller kills a process.
LEMMA KillOwn ==
    ASSUME TypeOK, NEW d \in Callers, OwnOK(d), DoesKill(d)
    PROVE  OwnOK(d)'
<1>1. /\ pc[d] = "kill" /\ op[d] \in {"up", "down"} /\ file[d] # NoFile /\ Readable(rec[d])
      /\ (path = file[d] => content \in {Empty, rec[d]})
      /\ (path = file[d] /\ op[d] = "down" => content = rec[d])
      /\ (~usurped /\ op[d] = "up" => path = file[d] \/ Gone(rec[d].started))
      /\ (op[d] = "down" => seen[d] = {})
  BY DEF DoesKill, OwnOK, PlaceOK, FileOK, Kept, Owner, Reader, MarksOK
<1>2. UNCHANGED <<path, content, usurped, proc>>
  BY DEF DoesKill, WorldSame
<1>3. ~usurped /\ op[d] = "up" => path = file[d] \/ GoneNext(rec[d].started)
  BY <1>1, <1>2, GoneSame
<1> QED BY <1>1, <1>2, <1>3
     DEF DoesKill, Advances, Acts, OwnOK, PlaceOK, FileOK, EndOK, MarksOK, Kept, Owner, Reader,
         Launching, Readable, Gone, GoneNext

\* A down goes on with its record, or to the removal of it.
LEMMA DownOwn ==
    ASSUME TypeOK, RowsOK, NEW d \in Callers, OwnOK(d), op[d] = "down", Readable(rec[d]),
           file[d] # NoFile, path = file[d] => content = rec[d], seen[d] = {},
           NEW l \in {"downverify", "downkill", "kill", "remove"}, Advances(d, l),
           UNCHANGED <<path, content, usurped, proc>>,
           l = "remove" => "gone" \in Identity(rec[d]) \/ "mismatch" \in Identity(rec[d])
    PROVE  OwnOK(d)'
<1>1. l = "remove" => GoneNext(rec[d].started)
  BY KilledFacts, GoneSame DEF RowsOK, TypeOK
<1> QED BY <1>1
     DEF Advances, Acts, OwnOK, PlaceOK, FileOK, EndOK, MarksOK, Kept, Owner, Reader, Launching,
         Readable, Gone, GoneNext

\* A `down` has the record it read, and no markers.
LEMMA DownFacts ==
    ASSUME NEW d \in Callers, OwnOK(d),
           \/ pc[d] \in {"downopen", "downverify", "downkill"}
           \/ pc[d] = "killwait" /\ op[d] = "down"
    PROVE  /\ op[d] = "down" /\ Readable(rec[d]) /\ file[d] # NoFile /\ seen[d] = {}
           /\ path = file[d] => content = rec[d]
  BY DEF OwnOK, PlaceOK, FileOK, MarksOK, Reader, Launching

\* A caller waits for the killed process to be gone.
LEMMA KillWaitOwn ==
    ASSUME TypeOK, RowsOK, NEW d \in Callers, OwnOK(d), DoesKillWait(d)
    PROVE  OwnOK(d)'
<1>1. /\ pc[d] = "killwait" /\ op[d] \in {"up", "down"} /\ file[d] # NoFile /\ Readable(rec[d])
      /\ (path = file[d] => content \in {Empty, rec[d]})
      /\ rec[d] \in Records /\ Sound(rec[d])
  BY DEF DoesKillWait, OwnOK, PlaceOK, FileOK, Owner, Reader, RowsOK, TypeOK
<1>2. UNCHANGED <<path, content, usurped, births>>
  BY DEF DoesKillWait
<1>3. ASSUME op[d] = "up", Advances(d, "undo"),
             \A p \in Pids : Child(p)' /\ proc'[p].born = rec[d].started => proc'[p].lost
      PROVE  OwnOK(d)'
    BY <1>1, <1>2, <1>3
       DEF Advances, Acts, OwnOK, PlaceOK, FileOK, EndOK, MarksOK, Kept, Owner, Reader, Launching,
           Readable
<1>4. ASSUME op[d] = "up", Advances(d, "undo"), UNCHANGED proc,
             "gone" \in Identity(rec[d]) \/ "mismatch" \in Identity(rec[d])
      PROVE  OwnOK(d)'
  <2>1. GoneNext(rec[d].started)
    BY <1>1, <1>4, KilledFacts, GoneSame
  <2> QED BY <1>3, <1>4, <2>1 DEF GoneNext, Child
<1>5. ASSUME op[d] = "down", Advances(d, "remove"), UNCHANGED proc,
             "gone" \in Identity(rec[d]) \/ "mismatch" \in Identity(rec[d])
      PROVE  OwnOK(d)'
  BY <1>1, <1>2, <1>5, DownFacts, DownOwn
<1>6. ASSUME op[d] = "up", GiveUp(d), Advances(d, "undo")
      PROVE  OwnOK(d)'
  <2>1. \A q \in Pids : /\ Child(q)' => proc'[q].born = proc[q].born
                        /\ Child(q)' /\ proc[q].born = rec[d].started => proc'[q].lost
    BY <1>2, <1>6, GiveUpRows
  <2> QED BY <1>3, <1>6, <2>1
<1>7. ASSUME op[d] = "down", Reports(d)
      PROVE  OwnOK(d)'
  BY <1>1, <1>7, ReportOwn DEF OwnOK
<1> QED BY <1>1, <1>4, <1>5, <1>6, <1>7 DEF DoesKillWait

\* Whatever a caller does, its own part of the invariant holds after it.
LEMMA OwnKept ==
    ASSUME TypeOK, RowsOK, NEW d \in Callers, OwnOK(d), Does(d)
    PROVE  OwnOK(d)'
<1>1. CASE DoesDown(d)
  <2>1. UNCHANGED <<path, content, usurped, proc>>
    BY <1>1 DEF DoesDown, WorldSame
  <2>2. CASE pc[d] \in {"downread", "downverify", "downkill"} /\ Reports(d)
    BY <2>2, ReportOwn DEF OwnOK
  <2>3. CASE pc[d] = "downopen" /\ Advances(d, "downverify")
    BY <2>1, <2>3, DownFacts, DownOwn
  <2>4. CASE pc[d] = "downverify" /\ Advances(d, "remove")
             /\ ("gone" \in Identity(rec[d]) \/ "mismatch" \in Identity(rec[d]))
    BY <2>1, <2>4, DownFacts, DownOwn
  <2>5. CASE pc[d] = "downverify" /\ Advances(d, "downkill")
    BY <2>1, <2>5, DownFacts, DownOwn
  <2>6. CASE pc[d] = "downkill" /\ Advances(d, "kill")
    BY <2>1, <2>6, DownFacts, DownOwn
  <2> QED BY <1>1, <2>2, <2>3, <2>4, <2>5, <2>6 DEF DoesDown
<1>2. CASE DoesLeave(d) \/ DoesCrash(d)
  BY <1>2, LeaveOwn DEF DoesLeave, DoesCrash
<1> QED BY <1>1, <1>2, BeginOwn, ReadOwn, VerifyOwn, ClaimOwn, StartOwn, WriteOwn, ConfirmOwn,
           RemoveOwn, KillOwn, KillWaitOwn DEF Does

----------------------------------------------------------------------------
(* What a step of a caller leaves of the rest.                             *)

\* The invariant, in the parts the lemmas use.
LEMMA InvFacts ==
    ASSUME TunnelInv
    PROVE  /\ TypeOK /\ RowsOK /\ OwnersApart /\ NoOrphan /\ ClaimHeld
           /\ \A c \in Callers : OwnOK(c)
  BY DEF TunnelInv, OwnOK

\* And the parts, put together again after a step.
LEMMA InvNext ==
    ASSUME TypeOK', RowsOK', OwnersApart', NoOrphan', ClaimHeld',
           \A c \in Callers : OwnOK(c)'
    PROVE  TunnelInv'
  BY DEF TunnelInv, OwnOK

\* Every step of a caller is of one of four kinds to the file.
LEMMA FileMoves ==
    ASSUME NEW d \in Callers, Does(d)
    PROVE  /\ UNCHANGED <<path, content>> \/ DoesClaim(d) \/ DoesWrite(d) \/ DoesRemove(d)
           /\ DoesRemove(d) \/ usurped' = usurped
           /\ \A c \in Callers \ {d} : Stays(c)
<1>1. \A l, o, r, f, s : Acts(d, l, o, r, f, s) => \A c \in Callers \ {d} : Stays(c)
  BY DEF Acts
<1>2. CASE DoesBegin(d) \/ DoesRead(d) \/ DoesVerify(d) \/ DoesConfirm(d) \/ DoesKill(d)
  BY <1>1, <1>2 DEF DoesBegin, DoesRead, DoesVerify, DoesConfirm, DoesKill, WorldSame, Advances
<1>3. CASE DoesLeave(d) \/ DoesDown(d) \/ DoesStart(d) \/ DoesCrash(d)
  BY <1>1, <1>3 DEF DoesLeave, DoesDown, DoesStart, DoesCrash, WorldSame, Advances, Leaves, Reports
<1>4. CASE DoesKillWait(d)
  BY <1>1, <1>4 DEF DoesKillWait, Advances, Reports
<1>5. CASE DoesClaim(d) \/ DoesWrite(d) \/ DoesRemove(d)
  BY <1>1, <1>5 DEF DoesClaim, DoesWrite, DoesRemove, Advances, Leaves, Reports
<1> QED BY <1>2, <1>3, <1>4, <1>5 DEF Does

\* Whatever a caller does, the parts of the others hold after it.
LEMMA OthersKept ==
    ASSUME TunnelInv, NEW d \in Callers, Does(d), NEW c \in Callers \ {d}
    PROVE  OwnOK(c)'
<1>0. TypeOK /\ RowsOK /\ OwnersApart /\ OwnOK(c) /\ OwnOK(d) /\ RowsMove
  BY InvFacts, ProcTyped
<1>1. Stays(c) /\ Holds(c)
  BY FileMoves DEF Stays
<1>2. usurped => usurped'
  BY FileMoves DEF DoesRemove, RemoveRecord
<1>3. PlaceOK(c)' /\ EndOK(c)' /\ MarksOK(c)'
  BY <1>0, <1>1, <1>2, PlaceKept, EndKept, MarksKept DEF OwnOK
<1>4. CASE UNCHANGED <<path, content>>
  BY <1>0, <1>1, <1>2, <1>3, <1>4, SameFileKept DEF OwnOK
<1>5. CASE DoesClaim(d)
  BY <1>0, <1>1, <1>2, <1>3, <1>5, ClaimKept DEF OwnOK
<1>6. CASE DoesWrite(d)
  BY <1>0, <1>1, <1>2, <1>3, <1>6, WriteKept DEF OwnOK
<1>7. CASE DoesRemove(d)
  <2>1. pc[d] \in {"clean", "undo", "remove"} /\ RemoveRecord(d)
    BY <1>7 DEF DoesRemove
  <2> QED BY <1>0, <1>1, <1>2, <1>3, <2>1, RemovalKept DEF OwnOK
<1> QED BY <1>4, <1>5, <1>6, <1>7, FileMoves

\* The records there are after a step are ones there were, or the new child's.
NewRecord(r) == \E p \in Pids : Fresh(p, "child") /\ r = [pid |-> p, started |-> births + 1]

\* A record is read from the file, or made of a new child; the file is given one of these.
LEMMA RecordMoves ==
    ASSUME TypeOK, NEW d \in Callers, Does(d)
    PROVE  /\ content' \in {content, rec[d], Empty, Absent}
           /\ rec'[d] \in {content, rec[d], Absent} \/ NewRecord(rec'[d])
<1>1. CASE DoesStart(d)
  <2>1. ASSUME NEW p \in Pids, Spawn(p, "child"),
               Acts(d, "write", op[d], [pid |-> p, started |-> births + 1], file[d], seen[d])
        PROVE  NewRecord(rec'[d])
    BY <2>1, SpawnRows DEF NewRecord, Acts
  <2> QED BY <1>1, <2>1 DEF DoesStart, Advances, Acts
<1>2. CASE DoesBegin(d) \/ DoesRead(d) \/ DoesVerify(d) \/ DoesClaim(d)
  BY <1>2 DEF DoesBegin, DoesRead, DoesVerify, DoesClaim, WorldSame, Acts
<1>3. CASE DoesWrite(d) \/ DoesConfirm(d) \/ DoesLeave(d) \/ DoesKill(d)
  BY <1>3 DEF DoesWrite, DoesConfirm, DoesLeave, DoesKill, WorldSame, Acts, Advances, Leaves
<1>4. CASE DoesRemove(d) \/ DoesKillWait(d) \/ DoesDown(d) \/ DoesCrash(d)
  BY <1>4 DEF DoesRemove, RemoveRecord, DoesKillWait, DoesDown, DoesCrash, WorldSame, Acts,
              Advances, Leaves, Reports
<1> QED BY <1>1, <1>2, <1>3, <1>4 DEF Does

\* The record of a new child is sound.
LEMMA NewSound ==
    ASSUME TypeOK, NEW r, NewRecord(r)
    PROVE  SoundNext(r) /\ Readable(r)
<1>1. PICK p \in Pids : Fresh(p, "child") /\ r = [pid |-> p, started |-> births + 1]
  BY DEF NewRecord
<1>2. r.pid = p /\ r.started = births + 1 /\ Readable(r)
  BY <1>1, TunnelAssumption DEF Readable
<1>3. births \in Nat /\ births' = births + 1 /\ proc'[p].kind = "child"
      /\ \A q \in Pids \ {p} : proc'[q] = proc[q] /\ proc[q].born \in 0 .. births
  BY <1>1 DEF Fresh, Row, TypeOK
<1> QED BY <1>2, <1>3 DEF SoundNext

\* The part on records, put together again after a step.
LEMMA RowsNext ==
    ASSUME \A p \in Pids : proc'[p].kind # "none" => proc'[p].born # 0,
           \A p \in Pids : proc'[p].kind = "none" => proc'[p] = Free,
           SoundNext(content'), \A c \in Callers : SoundNext(rec'[c])
    PROVE  RowsOK'
  BY DEF RowsOK, Sound, SoundNext, Readable

\* A caller leaves every record sound.
LEMMA CallerRows ==
    ASSUME TypeOK, RowsOK, NEW d \in Callers, Does(d)
    PROVE  RowsOK'
<1>1. RowsMove /\ \A c \in Callers \ {d} : rec'[c] = rec[c]
  BY ProcTyped, FileMoves DEF Stays, Holds
<1>2. Sound(content) /\ (\A c \in Callers : Sound(rec[c])) /\ Sound(Empty) /\ Sound(Absent)
  BY RecordTypes DEF RowsOK, Sound
<1>3. SoundNext(content') /\ SoundNext(rec'[d])
  BY <1>1, <1>2, RecordMoves, NewSound, SoundKept
<1>4. \A c \in Callers : SoundNext(rec'[c])
  BY <1>1, <1>2, <1>3, SoundKept
<1> QED BY <1>1, <1>3, <1>4, SoundKept, RowsNext

\* Only a claim makes an owner, of a file nobody else knows.
LEMMA OwnerMoves ==
    ASSUME NEW d \in Callers, Does(d), PlaceOK(d), Owner(d)'
    PROVE  (Owner(d) /\ file'[d] = file[d]) \/ (DoesClaim(d) /\ file'[d] = path')
<1>1. CASE DoesBegin(d) \/ DoesRead(d) \/ DoesVerify(d) \/ DoesClaim(d)
  BY <1>1 DEF DoesBegin, DoesRead, DoesVerify, DoesClaim, Acts, Owner
<1>2. CASE DoesStart(d) \/ DoesWrite(d) \/ DoesConfirm(d) \/ DoesLeave(d) \/ DoesKill(d)
  BY <1>2 DEF DoesStart, DoesWrite, DoesConfirm, DoesLeave, DoesKill, Acts, Advances, Leaves, Owner
<1>3. CASE DoesRemove(d) \/ DoesKillWait(d) \/ DoesDown(d) \/ DoesCrash(d)
  BY <1>3 DEF DoesRemove, DoesKillWait, DoesDown, DoesCrash, Acts, Advances, Leaves, Reports,
              Owner, PlaceOK
<1> QED BY <1>1, <1>2, <1>3 DEF Does

\* No two launches come to share a file.
LEMMA OwnersKept ==
    ASSUME TunnelInv, NEW d \in Callers, Does(d)
    PROVE  OwnersApart'
<1>1. OwnersApart /\ PlaceOK(d)
  BY InvFacts DEF OwnOK
<1>2. \A c \in Callers \ {d} : (Owner(c)' => Owner(c)) /\ file'[c] = file[c]
  BY FileMoves DEF Stays, Holds, Owner
<1>3. ASSUME NEW c \in Callers \ {d}, Owner(c)', Owner(d)', file'[c] = file'[d]
      PROVE  FALSE
  <2>1. CASE Owner(d) /\ file'[d] = file[d]
    BY <1>1, <1>2, <1>3, <2>1 DEF OwnersApart
  <2>2. CASE DoesClaim(d) /\ file'[d] = path'
    BY <1>2, <1>3, <2>2 DEF DoesClaim
  <2> QED BY <1>1, <1>3, <2>1, <2>2, OwnerMoves
<1>4. ASSUME NEW c \in Callers, NEW e \in Callers, Owner(c)', Owner(e)', file'[c] = file'[e]
      PROVE  c = e
  BY <1>1, <1>2, <1>3, <1>4 DEF OwnersApart
<1> QED BY <1>4 DEF OwnersApart

\* An empty claim stays with who made it until he writes, removes or leaves it.
LEMMA ClaimedKept ==
    ASSUME TypeOK, NEW d \in Callers, OwnOK(d), Does(d), Claimed(d), content' = Empty
    PROVE  forsaken' \/ Claimed(d)'
<1>1. file[d] = path /\ content = Empty /\ file[d] # NoFile
      /\ pc[d] \in {"start", "write", "kill", "killwait", "undo"}
  BY RecordTypes DEF Claimed, TypeOK
<1>2. pc[d] \in {"kill", "killwait"} => op[d] = "up"
  BY <1>1, RecordTypes DEF OwnOK, PlaceOK, FileOK, Reader
<1>3. pc[d] = "write" => rec[d] # Empty
  BY RecordTypes DEF OwnOK, PlaceOK
<1>4. CASE DoesStart(d) \/ DoesWrite(d) \/ DoesKill(d)
  BY <1>1, <1>3, <1>4 DEF DoesStart, DoesWrite, DoesKill, WorldSame, Acts, Advances, Claimed
<1>5. CASE DoesKillWait(d)
  BY <1>1, <1>2, <1>5 DEF DoesKillWait, Acts, Advances, Claimed
<1>6. CASE DoesRemove(d) \/ DoesCrash(d)
  BY <1>1, <1>6, RecordTypes DEF DoesRemove, RemoveRecord, DoesCrash
<1> QED BY <1>1, <1>4, <1>5, <1>6
       DEF Does, DoesBegin, DoesRead, DoesVerify, DoesClaim, DoesConfirm, DoesLeave, DoesDown

\* A caller leaves no claim behind that nobody works on.
LEMMA ClaimHeldKept ==
    ASSUME TunnelInv, NEW d \in Callers, Does(d)
    PROVE  ClaimHeld'
<1>1. TypeOK /\ OwnOK(d) /\ ClaimHeld
  BY InvFacts
<1> SUFFICES ASSUME content' = Empty
             PROVE  forsaken' \/ \E c \in Callers : Claimed(c)'
  BY DEF ClaimHeld
<1>2. CASE DoesClaim(d)
  BY <1>2 DEF DoesClaim, Acts, Claimed
<1>3. CASE ~DoesClaim(d)
  <2>1. ~DoesRemove(d)
    BY RecordTypes DEF DoesRemove, RemoveRecord
  <2>2. UNCHANGED <<path, content>> \/ DoesWrite(d)
    BY <1>3, <2>1, FileMoves
  <2>3. path' = path /\ content = Empty
    <3>1. CASE DoesWrite(d)
      <4>1. Readable(rec[d])
        BY <1>1, <3>1 DEF DoesWrite, OwnOK, PlaceOK
      <4> QED BY <1>1, <3>1, <4>1, RecordTypes DEF DoesWrite
    <3> QED BY <2>2, <3>1
  <2>4. forsaken => forsaken'
    BY <1>1, <1>3, <2>1 DEF TypeOK, Does, DoesBegin, DoesRead, DoesVerify, DoesStart, DoesWrite,
         DoesConfirm, DoesLeave, DoesKill, DoesKillWait, DoesDown, DoesCrash, WorldSame
  <2>5. CASE forsaken
    BY <2>4, <2>5
  <2>6. CASE \E c \in Callers : Claimed(c)
    <3>1. PICK c \in Callers : Claimed(c)
      BY <2>6
    <3>2. CASE c = d
      BY <1>1, <3>1, <3>2, ClaimedKept
    <3>3. CASE c # d
      BY <2>3, <3>1, <3>3, FileMoves DEF Claimed, Stays, Holds
    <3> QED BY <3>2, <3>3
  <2> QED BY <1>1, <2>3, <2>5, <2>6 DEF ClaimHeld
<1> QED BY <1>2, <1>3

Holding(d, n) == op[d] = "up" /\ rec[d].started = n
                 /\ pc[d] \in {"write", "confirm", "kill", "killwait"}

\* A child is in hand when some caller holds it.
LEMMA HoldingFacts == \A n : InHand(n) <=> \E c \in Callers : Holding(c, n)
  BY DEF InHand, Holding

\* A child leaves the hands of its `up` for the record, or dies, or is given up.
LEMMA HandOver ==
    ASSUME TypeOK, RowsOK, NEW d \in Callers, OwnOK(d), Does(d), ~usurped,
           NEW p \in Pids, Child(p), Child(p)', proc'[p].born = proc[p].born,
           Holding(d, proc[p].born)
    PROVE  content'.started = proc[p].born \/ Holding(d, proc[p].born)' \/ proc'[p].lost
<1> DEFINE n == proc[p].born
<1>1. op[d] = "up" /\ rec[d].started = n /\ pc[d] \in {"write", "confirm", "kill", "killwait"}
  BY DEF Holding
<1>2. ~Gone(n)
  BY DEF Gone, Child
<1>3. CASE DoesWrite(d) \/ DoesKill(d)
  BY <1>1, <1>3 DEF DoesWrite, DoesKill, Advances, Acts, Holding
<1>4. CASE DoesConfirm(d)
  <2>1. content = rec[d]
    BY <1>1, <1>2, <1>4 DEF DoesConfirm, OwnOK, Kept, FileOK, Owner
  <2> QED BY <1>1, <1>4, <2>1 DEF DoesConfirm, WorldSame
<1>5. CASE GiveUp(d) /\ UNCHANGED births
  BY <1>1, <1>5, GiveUpRows
<1>6. CASE DoesKillWait(d)
  <2>1. "gone" \notin Identity(rec[d]) /\ "mismatch" \notin Identity(rec[d])
    BY <1>1, <1>2, KilledFacts DEF OwnOK, PlaceOK, RowsOK, TypeOK
  <2> QED BY <1>1, <1>5, <1>6, <2>1 DEF DoesKillWait
<1>7. CASE DoesCrash(d)
  BY <1>1, <1>5, <1>7 DEF DoesCrash
<1> QED BY <1>1, <1>3, <1>4, <1>6, <1>7
       DEF Does, DoesBegin, DoesRead, DoesVerify, DoesClaim, DoesStart, DoesLeave, DoesRemove, DoesDown

\* A child leaves the record when it is dead, or given up.
LEMMA RecordKept ==
    ASSUME TypeOK, RowsOK, NEW d \in Callers, OwnOK(d), Does(d), ~usurped',
           NEW p \in Pids, Child(p), proc'[p].born = proc[p].born,
           proc[p].lost => proc'[p].lost, content.started = proc[p].born
    PROVE  content'.started = proc[p].born \/ proc'[p].lost
<1>1. proc[p].born # 0 /\ proc[p].born \in 0 .. births /\ births \in Nat
  BY DEF Child, RowsOK, TypeOK
<1>2. Readable(content) /\ content # Absent
  BY <1>1, RecordTypes DEF RowsOK, Sound, Empty, Absent
<1>3. ~Gone(proc[p].born)
  BY DEF Gone, Child
<1>4. CASE content' = content
  BY <1>4
<1>5. ~DoesClaim(d)
  BY <1>2 DEF DoesClaim, TypeOK
<1>6. CASE DoesWrite(d)
  <2>1. path # file[d]
    BY <1>2, <1>6, RecordTypes DEF DoesWrite, OwnOK, FileOK
  <2> QED BY <1>6, <2>1 DEF DoesWrite
<1>7. CASE DoesRemove(d)
  <2>1. path = file[d]
    BY <1>2, <1>7 DEF DoesRemove, RemoveRecord, TypeOK
  <2>2. pc[d] # "clean" /\ pc[d] # "remove"
    BY <1>3, <2>1 DEF OwnOK, FileOK, EndOK, Reader
  <2>3. pc[d] = "undo" /\ content = rec[d]
    BY <1>2, <1>7, <2>1, <2>2, RecordTypes DEF DoesRemove, OwnOK, FileOK, Owner
  <2> QED BY <1>2, <2>3 DEF OwnOK, EndOK
<1> QED BY <1>4, <1>5, <1>6, <1>7, FileMoves

Found(p) == content.started = proc[p].born \/ InHand(proc[p].born) \/ proc[p].lost

\* A caller leaves no child behind that nobody knows of.
LEMMA OrphanKept ==
    ASSUME TunnelInv, NEW d \in Callers, Does(d)
    PROVE  NoOrphan'
<1>1. TypeOK /\ RowsOK /\ OwnOK(d) /\ NoOrphan /\ RowsMove
  BY InvFacts, ProcTyped
<1>2. usurped => usurped'
  BY FileMoves DEF DoesRemove, RemoveRecord
<1> SUFFICES ASSUME ~usurped', NEW p \in Pids, Child(p)'
             PROVE  Found(p)'
  BY DEF NoOrphan, Found
<1>3. CASE Child(p) /\ proc'[p].born = proc[p].born /\ (proc[p].lost => proc'[p].lost)
  <2>1. content.started = proc[p].born \/ InHand(proc[p].born) \/ proc[p].lost
    BY <1>1, <1>2, <1>3 DEF NoOrphan
  <2>2. CASE content.started = proc[p].born
    BY <1>1, <1>3, <2>2, RecordKept DEF Found
  <2>3. CASE InHand(proc[p].born)
    <3>1. PICK c \in Callers : Holding(c, proc[p].born)
      BY <2>3, HoldingFacts
    <3>2. CASE c = d
      <4>1. content'.started = proc[p].born \/ Holding(d, proc[p].born)' \/ proc'[p].lost
        BY <1>1, <1>2, <1>3, <3>1, <3>2, HandOver
      <4>2. Holding(d, proc[p].born)' => InHand(proc[p].born)'
        BY DEF Holding, InHand
      <4> QED BY <1>3, <4>1, <4>2 DEF Found
    <3>3. CASE c # d
      <4>1. Holds(c)
        BY <3>3, FileMoves DEF Stays
      <4>2. InHand(proc[p].born)'
        BY <1>3, <3>1, <4>1 DEF Holding, Holds, InHand
      <4> QED BY <4>2 DEF Found
    <3> QED BY <3>2, <3>3
  <2>4. CASE proc[p].lost
    BY <1>3, <2>4 DEF Found
  <2> QED BY <2>1, <2>2, <2>3, <2>4
<1>4. CASE \E q \in Pids, k \in {"child", "cloudflared", "program"} : Fresh(q, k)
  <2>1. CASE ~DoesStart(d)
    <3>1. births' = births
      BY <2>1 DEF Does, DoesBegin, DoesRead, DoesVerify, DoesClaim, DoesWrite, DoesConfirm,
           DoesLeave, DoesRemove, DoesKill, DoesKillWait, DoesDown, DoesCrash, WorldSame
    <3> QED BY <1>1, <1>4, <3>1 DEF Fresh, TypeOK
  <2>2. CASE DoesStart(d)
    <3>1. births' # births
      BY <1>1, <1>4 DEF Fresh, TypeOK
    <3>2. PICK q \in Pids : /\ Spawn(q, "child")
                            /\ Acts(d, "write", op[d], [pid |-> q, started |-> births + 1],
                                    file[d], seen[d])
      BY <2>2, <3>1 DEF DoesStart
    <3>3. Fresh(q, "child")
      BY <1>1, <3>2, SpawnRows
    <3>4. CASE p = q
      <4>1. op'[d] = "up" /\ rec'[d].started = births + 1 /\ pc'[d] = "write"
            /\ proc'[p].born = births + 1
        BY <1>1, <2>2, <3>2, <3>3, <3>4 DEF DoesStart, Acts, Fresh, Row, OwnOK, PlaceOK, Owner
      <4>2. InHand(proc[p].born)'
        BY <4>1 DEF InHand
      <4> QED BY <4>2 DEF Found
    <3>5. CASE p # q
      <4>1. proc'[p] = proc[p]
        BY <3>3, <3>5 DEF Fresh
      <4> QED BY <1>3, <4>1 DEF Child
    <3> QED BY <3>4, <3>5
  <2> QED BY <2>1, <2>2
<1>5. CASE RowsAge
  <2>1. Child(p) /\ proc'[p].born = proc[p].born /\ (proc[p].lost => proc'[p].lost)
    BY <1>5 DEF RowsAge, Aged, Cleared, Child, Free
  <2> QED BY <1>3, <2>1
<1> QED BY <1>1, <1>4, <1>5 DEF RowsMove

----------------------------------------------------------------------------
(* What a step of the operating system leaves.                             *)

\* The child whose marker comes while a launch is confirmed is the launch's
\* own, or was given up: it is in the record, or in the hands of its `up`, and
\* both are this caller's.
LEMMA OwnMarker ==
    ASSUME TunnelInv, Unix, ~usurped, NEW c \in Callers, Launching(c) \/ pc[c] = "start",
           NEW p \in Pids, Child(p), ~proc[p].lost
    PROVE  proc[p].born = rec[c].started
<1>1. TypeOK /\ RowsOK /\ OwnersApart /\ NoOrphan /\ OwnOK(c)
  BY InvFacts
<1>2. PlaceOK(c) /\ FileOK(c) /\ Kept(c)
  BY <1>1 DEF OwnOK
<1>3. proc[p].born # 0 /\ proc[p].born \in 0 .. births
  BY <1>1 DEF Child, RowsOK, TypeOK
<1>4. Owner(c) /\ pc[c] # "undo"
  BY DEF Launching, Owner
<1>5. path = file[c]
  <2>1. CASE pc[c] \in {"start", "write"}
    BY <1>2, <2>1 DEF Kept
  <2>2. CASE pc[c] \notin {"start", "write"}
    <3>1. Launching(c) /\ Readable(rec[c])
      BY <1>2, <2>2 DEF Launching, PlaceOK
    <3>2. rec[c].pid \in Pids /\ proc[rec[c].pid].born = rec[c].started
      BY <1>1, <1>2, <3>1 DEF Readable, Records, TypeOK, PlaceOK
    <3>3. ~Gone(rec[c].started)
      BY <3>2 DEF Gone
    <3> QED BY <1>2, <1>4, <3>3 DEF Kept
  <2> QED BY <2>1, <2>2
<1>6. CASE content.started = proc[p].born
  <2>1. content # Empty
    BY <1>3, <1>6 DEF Empty, TypeOK
  <2> QED BY <1>2, <1>4, <1>5, <1>6, <2>1 DEF FileOK
<1>7. CASE InHand(proc[p].born)
  <2>1. PICK e \in Callers : Holding(e, proc[p].born)
    BY <1>7, HoldingFacts
  <2>2. Owner(e) /\ pc[e] # "undo" /\ rec[e].started = proc[p].born /\ Kept(e)
    BY <1>1, <2>1, InvFacts DEF Holding, Owner, OwnOK
  <2>3. ~Gone(rec[e].started)
    BY <2>2 DEF Gone, Child
  <2>4. path = file[e]
    BY <2>2, <2>3 DEF Kept
  <2>5. c = e
    BY <1>1, <1>4, <1>5, <2>2, <2>4 DEF OwnersApart
  <2> QED BY <2>2, <2>5
<1> QED BY <1>1, <1>6, <1>7 DEF NoOrphan

\* A marker that is read is of the child that connected.
LEMMA ConnectMarks ==
    ASSUME TunnelInv, NEW p \in Pids, Connect(p), NEW c \in Callers
    PROVE  MarksOK(c)'
<1>1. TypeOK /\ RowsOK /\ OwnOK(c) /\ PlaceOK(c) /\ MarksOK(c)
  BY InvFacts DEF OwnOK
<1>2. /\ Child(p) /\ UNCHANGED <<usurped, pc, op, rec, file>>
      /\ proc'[p].up /\ RowsMove /\ proc'[p].born = proc[p].born
  <2>1. Child(p) /\ UNCHANGED <<usurped, pc, op, rec, file>>
    BY DEF Connect, fileVars
  <2>2. proc'[p].up /\ RowsMove
    BY <1>1, ConnectRows DEF RowsMove
  <2>3. proc'[p].born = proc[p].born
    BY <1>1 DEF Connect, TypeOK
  <2> QED BY <2>1, <2>2, <2>3
<1>3. /\ pc[c] = "start" \/ Launching(c) =>
            seen'[c] = seen[c] \cup {IF proc[p].lost THEN "lost" ELSE "kept"}
      /\ ~(pc[c] = "start" \/ Launching(c)) => seen'[c] = seen[c]
  BY DEF Connect
<1>4. ASSUME Unix, ~usurped, Launching(c) \/ pc[c] = "start", "kept" \in seen'[c]
      PROVE  \E q \in Pids : proc'[q].born = rec[c].started /\ proc'[q].up
  <2>1. CASE ~proc[p].lost
    <3>1. proc[p].born = rec[c].started
      BY <1>2, <1>4, <2>1, OwnMarker
    <3> QED BY <1>2, <3>1
  <2>2. CASE proc[p].lost
    <3>1. "kept" \in seen[c]
      BY <1>3, <1>4, <2>2
    <3>2. pc[c] # "start"
      BY <1>1, <1>4, <3>1, NoMark
    <3>3. PICK q \in Pids : proc[q].born = rec[c].started /\ proc[q].up
      BY <1>1, <1>4, <3>1 DEF MarksOK
    <3>4. Launching(c) /\ Sound(rec[c]) /\ Readable(rec[c])
      BY <1>1, <1>4, <3>2 DEF RowsOK, PlaceOK, Launching
    <3>5. q = rec[c].pid
      BY <3>3, <3>4 DEF Sound
    <3> QED BY <1>1, <1>2, <3>3, <3>4, <3>5, RowKept
  <2> QED BY <2>1, <2>2
<1>5. Launching(c)' <=> Launching(c)
  BY <1>2 DEF Launching
<1> QED BY <1>1, <1>2, <1>3, <1>4, <1>5 DEF MarksOK, Launching

\* Every step of the system keeps the invariant.
LEMMA SystemKept ==
    ASSUME TunnelInv, System
    PROVE  TunnelInv'
<1>0. TypeOK /\ RowsOK /\ OwnersApart /\ NoOrphan /\ ClaimHeld /\ \A c \in Callers : OwnOK(c)
  BY InvFacts
<1>1. /\ OwnSame /\ RowsMove
      /\ seen' = seen \/ \E p \in Pids : Connect(p)
      /\ \A q \in Pids : Child(q)' => /\ Child(q) /\ proc'[q].born = proc[q].born
                                      /\ proc[q].lost => proc'[q].lost
  BY <1>0, SystemSteps
<1>2. TypeOK'
  BY TunnelTypes DEF Next
<1>3. RowsOK'
  BY <1>0, <1>1, SoundKept, RowsNext DEF OwnSame, RowsOK
<1>4. OwnersApart'
  BY <1>0, <1>1 DEF OwnersApart, Owner, OwnSame
<1>5. NoOrphan'
  BY <1>0, <1>1 DEF NoOrphan, InHand, OwnSame
<1>6. ClaimHeld'
  BY <1>0, <1>1 DEF ClaimHeld, Claimed, OwnSame
<1>7. ASSUME NEW c \in Callers
      PROVE  OwnOK(c)'
  <2>1. Holds(c) /\ UNCHANGED <<path, content, usurped>>
    BY <1>1 DEF Holds, OwnSame
  <2>2. MarksOK(c)'
    <3>1. CASE seen' = seen
      BY <1>0, <1>1, <2>1, <3>1, MarksKept DEF OwnOK, Stays
    <3> QED BY <1>1, <3>1, ConnectMarks
  <2> QED BY <1>0, <1>1, <2>1, <2>2, PlaceKept, EndKept, SameFileKept DEF OwnOK
<1> QED BY <1>2, <1>3, <1>4, <1>5, <1>6, <1>7, InvNext

----------------------------------------------------------------------------
(* The theorems.                                                           *)

\* The invariant holds at first.
LEMMA TunnelInit == Init => TunnelInv
<1> SUFFICES ASSUME Init PROVE TunnelInv
  OBVIOUS
<1>1. TypeOK
  <2>1. FileTypes
    BY RecordTypes DEF Init, FileTypes
  <2>2. 0 \in Nat /\ births = 0 /\ births \in 0 .. MaxBirths
    BY TunnelAssumption DEF Init
  <2>3. Free \in Rows(0)
    BY RowTypes
  <2>4. ProcTypes
    BY <2>2, <2>3 DEF Init, ProcTypes
  <2>5. CallerTypes
    BY RecordTypes DEF Init, CallerTypes, Places
  <2>6. HandleTypes
    BY <2>2 DEF Init, HandleTypes
  <2> QED BY <2>1, <2>4, <2>5, <2>6, TypeParts
<1>2. RowsOK
  BY RecordTypes DEF Init, RowsOK, Sound, Free
<1>3. OwnersApart /\ NoOrphan /\ ClaimHeld
  BY RecordTypes DEF Init, OwnersApart, Owner, NoOrphan, Child, Free, ClaimHeld
<1>4. \A c \in Callers : PlaceOK(c) /\ FileOK(c) /\ EndOK(c) /\ MarksOK(c) /\ Kept(c)
  BY DEF Init, PlaceOK, FileOK, EndOK, MarksOK, Kept, Owner, Reader, Launching
<1> QED BY <1>1, <1>2, <1>3, <1>4 DEF TunnelInv

\* Every step keeps it.
LEMMA TunnelStep == TunnelInv /\ [Next]_vars => TunnelInv'
<1> SUFFICES ASSUME TunnelInv, [Next]_vars PROVE TunnelInv'
  OBVIOUS
<1>1. ASSUME NEW d \in Callers,
             Step(d) \/ Crash(d) \/ \E o \in {"up", "down", "status"} : Begin(d, o)
      PROVE  TunnelInv'
  <2>1. Does(d) /\ TypeOK /\ RowsOK /\ OwnOK(d)
    BY <1>1, InvFacts, CallerSteps
  <2>2. TypeOK'
    BY TunnelTypes
  <2>3. RowsOK' /\ OwnersApart' /\ NoOrphan' /\ ClaimHeld'
    BY <2>1, CallerRows, OwnersKept, OrphanKept, ClaimHeldKept
  <2>4. \A c \in Callers : OwnOK(c)'
    BY <2>1, OwnKept, OthersKept
  <2> QED BY <2>2, <2>3, <2>4, InvNext
<1>2. CASE System
  BY <1>2, SystemKept
<1>3. CASE UNCHANGED vars
  BY <1>3 DEF vars, fileVars, procVars, callerVars, TunnelInv, TypeOK, RowsOK, OwnersApart,
              PlaceOK, FileOK, EndOK, MarksOK, Kept, NoOrphan, ClaimHeld, Owner, Reader,
              Launching, Gone, Sound, Child, InHand, Claimed
<1> QED BY <1>1, <1>2, <1>3 DEF Next

\* So it always holds.
LEMMA TunnelInvariance == Spec => []TunnelInv
  BY TunnelInit, TunnelStep, PTL DEF Spec

\* The record file, the process table and every command in progress have their
\* types, whoever else starts, ends or crashes (tunnel.Manager, tunnel.json).
THEOREM TunnelTyped == Spec => []TypeOK
<1>1. TunnelInv => TypeOK
  BY DEF TunnelInv
<1> QED BY <1>1, TunnelInvariance, PTL

\* Unless a record was removed on the evidence of an older one, a living child is
\* in the record, in the hands of the `up` that launched it, or given up; and an
\* empty claim is in the hands of an `up`, or left by a crash (startDetached,
\* claimRecord, removeRecord, killAndConfirm).
THEOREM NothingIsLost == Spec => []NothingLost
<1>1. TunnelInv => NothingLost
  BY DEF TunnelInv, NothingLost
<1> QED BY <1>1, TunnelInvariance, PTL

\* A `down` removes the record only of a child that has died (killAndConfirm),
\* and an `up` reports success only for a child that has connected, where the
\* system shows a dead child while its launch is confirmed (confirmStarted,
\* logContains).
THEOREM CommandsAreTrue == Spec => []CommandsTell
<1>1. TunnelInv => DownTrue
  BY DEF TunnelInv, EndOK, DownTrue, At, Gone, Child
<1>2. TunnelInv => UpTrue
  <2> SUFFICES ASSUME TunnelInv, Unix, ~usurped, NEW c \in Callers, pc[c] = "launched",
                      "lost" \notin seen[c]
               PROVE  \E p \in Pids : proc[p].born = rec[c].started /\ proc[p].up
    BY DEF UpTrue, At
  <2>1. "kept" \in seen[c]
    BY DEF TunnelInv, TypeOK, MarksOK
  <2> QED BY <2>1 DEF TunnelInv, MarksOK, Launching
<1>3. TunnelInv => CommandsTell
  BY <1>1, <1>2 DEF CommandsTell
<1> QED BY <1>3, TunnelInvariance, PTL
=============================================================================
