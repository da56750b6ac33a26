---------------------------- MODULE RelayProofs ----------------------------
(***************************************************************************)
(* Proofs about Relay, for every number of connections and every pair of   *)
(* durations: types and the mutex, the backoff, the notifications, the     *)
(* evidence behind a choice and the answers.                               *)
(***************************************************************************)
EXTENDS Relay, TLAPS

\* The actions by what they may change, for the case splits below.
Moves(c) == \/ Connect(c) \/ Accept(c) \/ ReadConnect(c) \/ DialProxy(c) \/ Handshake(c)
            \/ DialOrigin(c) \/ DialAgain(c) \/ \E d \in {"out", "back"} : HalfClose(c, d)
Still    == AcceptFails \/ AcceptAgain \/ CloseFlag \/ CloseJournal \/ SetPort

\* The kinds of steps, by what they change.
LEMMA NextCases ==
    ASSUME Next
    PROVE  \/ \E c \in Conns : \/ Moves(c) \/ ViaProxy(c) \/ Probe(c) \/ MarkDown(c)
                               \/ MarkBroken(c) \/ Tell(c)
           \/ Still \/ CloseListener \/ Tick
BY DEF Next, Moves, Still, Verdict, Handle, Serve, Stop

\* A record moves only its connection, which either tells, under the lock, or
\* is decided by the new verdict.
LEMMA RecordFacts ==
    ASSUME TypeOK, NEW c \in Conns, NEW v \in BOOLEAN, Record(c, v)
    PROVE  /\ probed' = TRUE /\ up' = v /\ age' = 0
           /\ \/ Flip(v) /\ ~Closed /\ lock' = c /\ pc' = [pc EXCEPT ![c] = "telling"]
              \/ ~(Flip(v) /\ ~Closed) /\ lock' = NoConn /\ pc' = [pc EXCEPT ![c] = IF v THEN "chain" ELSE "direct"]
BY DEF Record, Decide, Goto

\* The moves of one connection leave the verdict, the lock and the others alone.
LEMMA MovesFacts ==
    ASSUME TypeOK, NEW c \in Conns, Moves(c)
    PROVE  /\ UNCHANGED <<server, owner, lock, port, probed, up, age, hold, told>>
           /\ pc[c] \notin {"probing", "telling", "routing"}
           /\ pc'[c] \in Places \ {"probing", "telling"}
           /\ \A d \in Conns \ {c} : pc'[d] = pc[d] /\ answer'[d] = answer[d] /\ tried'[d] = tried[d]
           /\ ConnOK'
<1> USE DEF TypeOK, ConnOK, At, Goto, Try, End, Splice
<1>1. UNCHANGED <<server, owner, lock, port, probed, up, age, hold, told>>
  BY DEF Moves, Connect, Accept, ReadConnect, DialProxy, Handshake, DialOrigin, DialAgain,
         HalfClose, ownerVars, verdictVars
<1>2. pc[c] \notin {"probing", "telling", "routing"}
  BY DEF Moves, Connect, Accept, ReadConnect, DialProxy, Handshake, DialOrigin, DialAgain,
         HalfClose
<1>3. /\ pc' \in [Conns -> Places]
      /\ pc'[c] \in Places \ {"probing", "telling"}
      /\ \A d \in Conns \ {c} : pc'[d] = pc[d]
  <2> USE DEF Places
  <2>1. CASE Connect(c)
    BY <2>1 DEF Connect
  <2>2. CASE Accept(c)
    BY <2>2 DEF Accept
  <2>3. CASE ReadConnect(c)
    BY <2>3 DEF ReadConnect
  <2>4. CASE DialProxy(c)
    BY <2>4 DEF DialProxy
  <2>5. CASE Handshake(c)
    BY <2>5 DEF Handshake, Refused, HandshakeFails
  <2>6. CASE DialOrigin(c)
    BY <2>6 DEF DialOrigin
  <2>7. CASE DialAgain(c)
    BY <2>7 DEF DialAgain
  <2>8. CASE \E d \in {"out", "back"} : HalfClose(c, d)
    BY <2>8 DEF HalfClose
  <2> QED BY <2>1, <2>2, <2>3, <2>4, <2>5, <2>6, <2>7, <2>8 DEF Moves
<1>4. /\ answer' \in [Conns -> Answers]
      /\ \A d \in Conns \ {c} : answer'[d] = answer[d]
  BY DEF Answers, Moves, Connect, Accept, ReadConnect, DialProxy, Handshake, Refused, HandshakeFails,
         DialOrigin, DialAgain, HalfClose
<1>5. /\ tried' \in [Conns -> SUBSET {"proxy", "refused", "origin"}]
      /\ \A d \in Conns \ {c} : tried'[d] = tried[d]
  <2>1. CASE Connect(c)
    BY <2>1 DEF Connect
  <2>2. CASE DialProxy(c)
    BY <2>2 DEF DialProxy
  <2>3. CASE Handshake(c)
    <3>1. CASE Try(c, "refused")
      BY <3>1
    <3>2. CASE UNCHANGED tried
      BY <3>2
    <3> QED BY <2>3, <3>1, <3>2 DEF Handshake, Refused
  <2>4. CASE DialOrigin(c)
    BY <2>4 DEF DialOrigin
  <2>5. CASE Accept(c) \/ ReadConnect(c) \/ DialAgain(c) \/ \E d \in {"out", "back"} : HalfClose(c, d)
    BY <2>5 DEF Accept, ReadConnect, DialAgain, HalfClose
  <2> QED BY <2>1, <2>2, <2>3, <2>4, <2>5 DEF Moves
<1>6. copying' \in [Conns -> SUBSET {"out", "back"}]
  <2>1. CASE \E d \in {"out", "back"} : HalfClose(c, d)
    BY <2>1 DEF HalfClose
  <2>2. CASE Handshake(c) \/ DialOrigin(c) \/ DialAgain(c)
    BY <2>2 DEF Handshake, Refused, HandshakeFails, DialOrigin, DialAgain
  <2>3. CASE Connect(c) \/ Accept(c) \/ ReadConnect(c) \/ DialProxy(c)
    BY <2>3 DEF Connect, Accept, ReadConnect, DialProxy
  <2> QED BY <2>1, <2>2, <2>3 DEF Moves
<1> QED BY <1>1, <1>2, <1>3, <1>4, <1>5, <1>6

\* Who moves on with the verdict is alone: nobody else holds the lock, before or
\* after, and nobody else moves.
LEMMA VerdictFacts ==
    ASSUME TypeOK, NEW c \in Conns,
           ViaProxy(c) \/ Probe(c) \/ MarkDown(c) \/ MarkBroken(c) \/ Tell(c)
    PROVE  /\ UNCHANGED <<server, port, answer, tried, copying>>
           /\ lock \in {c, NoConn} /\ lock' \in {c, NoConn}
           /\ pc \in [Conns -> Places] /\ pc' \in [Conns -> Places]
           /\ pc[c] \in {"routing", "probing", "down", "broken", "telling"}
           /\ pc'[c] \in {"probing", "telling", "chain", "direct"}
           /\ lock' = c <=> pc'[c] \in {"probing", "telling"}
           /\ \A d \in Conns \ {c} : pc'[d] = pc[d] /\ pc[d] \notin {"probing", "telling"}
           /\ ConnOK'
<1> USE DEF TypeOK, ConnOK, At, Goto, Decide, Places
<1>1. UNCHANGED <<server, port, answer, tried, copying>>
  BY DEF ViaProxy, Probe, MarkDown, MarkBroken, Tell, ownerVars
<1>2. lock \in {c, NoConn}
  BY RelayAssumption DEF ViaProxy, Probe, MarkDown, MarkBroken, Tell, Held
<1>3. /\ pc[c] \in {"routing", "probing", "down", "broken", "telling"}
      /\ lock' \in {c, NoConn}
      /\ \E l \in {"probing", "telling", "chain", "direct"} :
            pc' = [pc EXCEPT ![c] = l] /\ (lock' = c <=> l \in {"probing", "telling"})
  <2>1. CASE ViaProxy(c)
    <3>1. CASE hold > 0 \/ Fresh
      BY <2>1, <3>1, RelayAssumption DEF ViaProxy
    <3>2. CASE ~(hold > 0 \/ Fresh)
      BY <2>1, <3>2, RelayAssumption DEF ViaProxy
    <3> QED BY <3>1, <3>2
  <2>2. CASE Probe(c) \/ MarkDown(c) \/ MarkBroken(c)
    <3>1. PICK v \in BOOLEAN : Record(c, v)
      BY <2>2 DEF Probe, MarkDown, MarkBroken
    <3>2. CASE v
      BY <2>2, <3>1, <3>2, RecordFacts, RelayAssumption DEF Probe, MarkDown, MarkBroken
    <3>3. CASE ~v
      BY <2>2, <3>1, <3>3, RecordFacts, RelayAssumption DEF Probe, MarkDown, MarkBroken
    <3> QED BY <3>2, <3>3
  <2>3. CASE Tell(c)
    BY <2>3, RelayAssumption DEF Tell
  <2> QED BY <2>1, <2>2, <2>3
<1>4. PICK l \in {"probing", "telling", "chain", "direct"} :
         pc' = [pc EXCEPT ![c] = l] /\ (lock' = c <=> l \in {"probing", "telling"})
  BY <1>3
<1>5. /\ pc' \in [Conns -> Places] /\ pc'[c] = l
      /\ \A d \in Conns \ {c} : pc'[d] = pc[d]
  BY <1>4
<1>6. \A d \in Conns \ {c} : pc[d] \notin {"probing", "telling"}
  BY <1>2, RelayAssumption DEF Held
<1> QED BY <1>1, <1>2, <1>3, <1>4, <1>5, <1>6

----------------------------------------------------------------------------
(* Types and the mutex.                                                    *)

\* The two durations are no less than nothing.
LEMMA Durations == ProbeTTL \in Nat /\ HandshakeBackoff \in Nat
BY RelayAssumption

\* Types, before any connection.
LEMMA TypeInit == Init => TypeOK
<1> SUFFICES ASSUME Init PROVE TypeOK
  OBVIOUS
<1>1. SharedOK
  BY DEF Init, SharedOK
<1>2. VerdictOK
  <2>1. age \in 0 .. ProbeTTL /\ hold \in 0 .. HandshakeBackoff
    BY Durations DEF Init
  <2>2. probed \in BOOLEAN /\ up \in BOOLEAN
    BY DEF Init
  <2> QED BY <2>1, <2>2 DEF VerdictOK
<1>3. ConnOK
  BY DEF Init, ConnOK, Places, Answers
<1>4. Held
  BY RelayAssumption DEF Init, Held
<1> QED BY <1>1, <1>2, <1>3, <1>4 DEF TypeOK

\* No step breaks them.
LEMMA TypeStep ==
    ASSUME TypeOK, [Next]_vars
    PROVE  TypeOK'
<1>1. CASE \E c \in Conns : Moves(c)
  <2>1. PICK c \in Conns : Moves(c)
    BY <1>1
  <2>2. SharedOK' /\ VerdictOK' /\ ConnOK'
    BY <2>1, MovesFacts DEF TypeOK, SharedOK, VerdictOK
  <2>3. Held'
    <3>1. lock # c
      BY <2>1, MovesFacts DEF TypeOK, Held
    <3> QED BY <2>1, <3>1, MovesFacts DEF TypeOK, Held
  <2> QED BY <2>2, <2>3 DEF TypeOK
<1>2. CASE \E c \in Conns : ViaProxy(c) \/ Probe(c) \/ MarkDown(c) \/ MarkBroken(c) \/ Tell(c)
  <2>1. PICK c \in Conns : ViaProxy(c) \/ Probe(c) \/ MarkDown(c) \/ MarkBroken(c) \/ Tell(c)
    BY <1>2
  <2>2. SharedOK'
    <3>1. owner' \in {"running", "closing", "closed", "over", "panicked"}
      BY <2>1 DEF TypeOK, SharedOK, ViaProxy, Probe, MarkDown, MarkBroken, Tell, ownerVars
    <3>2. told' \in {"none", "proxy", "direct"}
      BY <2>1 DEF TypeOK, SharedOK, ViaProxy, Probe, MarkDown, MarkBroken, Tell, Path
    <3> QED BY <2>1, <3>1, <3>2, VerdictFacts DEF TypeOK, SharedOK
  <2>3. VerdictOK'
    <3>1. CASE ViaProxy(c) \/ Tell(c)
      BY <3>1 DEF TypeOK, VerdictOK, ViaProxy, Tell, verdictVars
    <3>2. CASE Probe(c) \/ MarkDown(c) \/ MarkBroken(c)
      <4>1. PICK v \in BOOLEAN : Record(c, v)
        BY <3>2 DEF Probe, MarkDown, MarkBroken
      <4>2. hold' \in 0 .. HandshakeBackoff
        <5>1. hold' = hold \/ hold' = HandshakeBackoff
          BY <3>2 DEF Probe, MarkDown, MarkBroken
        <5> QED BY <5>1, Durations DEF TypeOK, VerdictOK
      <4>3. probed' \in BOOLEAN /\ up' \in BOOLEAN /\ age' = 0
        BY <4>1, RecordFacts
      <4> QED BY <4>2, <4>3, Durations DEF VerdictOK
    <3> QED BY <2>1, <3>1, <3>2
  <2>4. ConnOK'
    BY <2>1, VerdictFacts
  <2>5. Held'
    BY <2>1, VerdictFacts, RelayAssumption DEF TypeOK, Held
  <2> QED BY <2>2, <2>3, <2>4, <2>5 DEF TypeOK
<1>3. CASE Still
  BY <1>3 DEF TypeOK, SharedOK, VerdictOK, ConnOK, Held, Still, AcceptFails, AcceptAgain, CloseFlag,
              CloseJournal, SetPort, ownerVars, verdictVars, connVars
<1>4. CASE CloseListener
  BY <1>4 DEF TypeOK, SharedOK, VerdictOK, ConnOK, Held, CloseListener, verdictVars, Places, At
<1>5. CASE Tick
  <2>1. VerdictOK'
    BY <1>5, RelayAssumption DEF TypeOK, VerdictOK, Tick
  <2> QED BY <1>5, <2>1 DEF TypeOK, SharedOK, ConnOK, Held, Tick, ownerVars, connVars
<1>6. CASE UNCHANGED vars
  BY <1>6 DEF TypeOK, SharedOK, VerdictOK, ConnOK, Held, vars, ownerVars, verdictVars, connVars
<1> QED BY <1>1, <1>2, <1>3, <1>4, <1>5, <1>6, NextCases

\* Every variable keeps its type, and mu is held exactly by the connection that
\* probes or tells.
THEOREM TypeCorrect == Spec => []TypeOK
BY TypeInit, TypeStep, PTL DEF Spec

----------------------------------------------------------------------------
(* The verdict.  A probe is made only with no backoff running, and none can *)
(* start while the probe holds mu; who is past the verdict, or in force of a *)
(* backoff, has one.                                                       *)

ProbesUnheld == \A c \in Conns : At(c, "probing") => hold = 0
Grounds == /\ hold > 0 => probed
           /\ \A c \in Conns : At(c, "telling") => probed

VerdictInv == TypeOK /\ NoFlapping /\ ProbesUnheld /\ Grounds /\ Evidence /\ Told

\* The invariant of the verdict, before any connection.
LEMMA VerdictInit == Init => VerdictInv
<1> SUFFICES ASSUME Init PROVE VerdictInv
  OBVIOUS
<1> QED BY TypeInit DEF Init, VerdictInv, NoFlapping, ProbesUnheld, Grounds, Evidence, Told, At

\* The steps that record no verdict.
LEMMA VerdictKept ==
    ASSUME VerdictInv, TypeOK', UNCHANGED <<probed, up, told>>,
           hold' \in 0 .. hold,
           ~Closed' => ~Closed,
           \A c \in Conns : /\ pc'[c] = "probing" => pc[c] = "probing"
                            /\ pc'[c] = "telling" <=> pc[c] = "telling"
                            /\ pc'[c] \in {"chain", "handshake", "down", "broken", "direct", "again"} =>
                               pc[c] \in {"chain", "handshake", "down", "broken", "direct", "again"}
    PROVE  VerdictInv'
<1>1. hold \in Nat /\ hold' \in Nat /\ hold' <= hold
  BY Durations DEF VerdictInv, TypeOK, VerdictOK
<1>2. NoFlapping' /\ Grounds'
  BY <1>1 DEF VerdictInv, NoFlapping, Grounds, At
<1>3. ProbesUnheld' /\ Evidence'
  BY <1>1 DEF VerdictInv, ProbesUnheld, Evidence, At
<1>4. Told'
  BY DEF VerdictInv, Told, At, Path
<1> QED BY <1>2, <1>3, <1>4 DEF VerdictInv

\* No step leaves a verdict without the evidence it rests on.
LEMMA VerdictStep ==
    ASSUME VerdictInv, [Next]_vars
    PROVE  VerdictInv'
<1>1. TypeOK'
  BY TypeStep DEF VerdictInv
<1>2. hold \in Nat
  BY Durations DEF VerdictInv, TypeOK, VerdictOK
<1>3. CASE \E c \in Conns : Moves(c)
  <2>1. PICK c \in Conns : Moves(c)
    BY <1>3
  <2>2. pc'[c] \in {"chain", "handshake", "down", "broken", "direct", "again"} =>
        pc[c] \in {"chain", "handshake", "down", "broken", "direct", "again"}
    BY <2>1 DEF VerdictInv, TypeOK, ConnOK, Places, Moves, At, Goto, End, Splice, Connect, Accept, ReadConnect,
                DialProxy, Handshake, Refused, HandshakeFails, DialOrigin, DialAgain, HalfClose
  <2>3. UNCHANGED <<probed, up, told, hold, owner>>
    BY <2>1, MovesFacts DEF VerdictInv
  <2>4. hold' \in 0 .. hold /\ (~Closed' => ~Closed)
    BY <1>2, <2>3 DEF Closed
  <2>5. \A d \in Conns : /\ pc'[d] = "probing" => pc[d] = "probing"
                         /\ pc'[d] = "telling" <=> pc[d] = "telling"
                         /\ pc'[d] \in {"chain", "handshake", "down", "broken", "direct", "again"} =>
                            pc[d] \in {"chain", "handshake", "down", "broken", "direct", "again"}
    BY <2>1, <2>2, MovesFacts DEF VerdictInv
  <2> QED BY <1>1, <2>3, <2>4, <2>5, VerdictKept
<1>4. ASSUME NEW c \in Conns, ViaProxy(c)
      PROVE  VerdictInv'
  <2>1. /\ UNCHANGED <<probed, up, told, hold, owner>>
        /\ \A d \in Conns \ {c} : pc'[d] = pc[d]
        /\ pc[c] = "routing"
        /\ pc'[c] = "probing" => hold = 0
        /\ pc'[c] # "telling"
        /\ pc'[c] # "probing" => probed
    <3>1. pc'[c] # "probing" => hold > 0 \/ Fresh
      BY <1>4 DEF ViaProxy, VerdictInv, TypeOK, ConnOK, Goto
    <3>2. pc'[c] = "probing" => hold = 0
      BY <1>2, <1>4 DEF ViaProxy, VerdictInv, TypeOK, ConnOK, Goto, Decide
    <3>3. pc'[c] # "telling"
      BY <1>4 DEF ViaProxy, VerdictInv, TypeOK, ConnOK, Goto, Decide
    <3> QED BY <1>4, <3>1, <3>2, <3>3, VerdictFacts
            DEF ViaProxy, verdictVars, ownerVars, At, VerdictInv, Grounds, Fresh
  <2>2. NoFlapping' /\ Grounds'
    BY <2>1 DEF VerdictInv, NoFlapping, Grounds, At
  <2>3. ProbesUnheld' /\ Evidence'
    BY <2>1 DEF VerdictInv, ProbesUnheld, Evidence, At
  <2>4. Told'
    BY <2>1 DEF VerdictInv, Told, At, Path, Closed
  <2> QED BY <1>1, <2>2, <2>3, <2>4 DEF VerdictInv
<1>5. ASSUME NEW c \in Conns, Probe(c) \/ MarkDown(c) \/ MarkBroken(c)
      PROVE  VerdictInv'
  <2>1. PICK v \in BOOLEAN : Record(c, v) /\ (v => Probe(c))
    BY <1>5 DEF Probe, MarkDown, MarkBroken
  <2>2. /\ probed' = TRUE /\ up' = v
        /\ UNCHANGED <<told, owner>>
        /\ \A d \in Conns \ {c} : pc'[d] = pc[d] /\ pc[d] \notin {"probing", "telling"}
        /\ pc[c] # "telling" /\ pc'[c] # "probing"
        /\ pc'[c] = "telling" \/ ~(Flip(v) /\ ~Closed)
    <3>1. TypeOK
      BY DEF VerdictInv
    <3>2. probed' = TRUE /\ up' = v /\ pc'[c] # "probing" /\ (pc'[c] = "telling" \/ ~(Flip(v) /\ ~Closed))
      BY <2>1, <3>1, RecordFacts DEF TypeOK, ConnOK
    <3>3. UNCHANGED <<told, owner>> /\ pc[c] # "telling"
      BY <1>5 DEF Probe, MarkDown, MarkBroken, ownerVars, At
    <3> QED BY <1>5, <3>1, <3>2, <3>3, VerdictFacts
  <2>3. NoFlapping'
    <3>1. CASE v
      <4>1. hold = 0 /\ hold' = hold
        BY <2>1, <3>1 DEF Probe, VerdictInv, ProbesUnheld
      <4> QED BY <4>1 DEF NoFlapping
    <3>2. CASE ~v
      BY <2>2, <3>2 DEF NoFlapping
    <3> QED BY <3>1, <3>2
  <2>4. Grounds' /\ Evidence' /\ ProbesUnheld'
    BY <2>2 DEF Grounds, Evidence, ProbesUnheld, At
  <2>5. Told'
    <3>1. CASE Closed \/ pc'[c] = "telling"
      BY <2>2, <3>1 DEF Told, At, Closed
    <3>2. CASE ~Closed /\ pc'[c] # "telling"
      <4>1. probed /\ v = up
        BY <2>2, <3>2 DEF Flip
      <4>2. \A d \in Conns : ~At(d, "telling")
        BY <2>2 DEF At
      <4>3. told = Path(up)
        BY <3>2, <4>1, <4>2 DEF VerdictInv, Told
      <4> QED BY <2>2, <4>1, <4>3 DEF Told, Path
    <3> QED BY <3>1, <3>2
  <2> QED BY <1>1, <2>3, <2>4, <2>5 DEF VerdictInv
<1>6. ASSUME NEW c \in Conns, Tell(c)
      PROVE  VerdictInv'
  <2>1. /\ UNCHANGED <<probed, up, hold>>
        /\ told' = Path(up) /\ probed
        /\ \A d \in Conns \ {c} : pc'[d] = pc[d]
        /\ pc'[c] \in {"chain", "direct"}
    <3>1. pc'[c] \in {"chain", "direct"}
      BY <1>6 DEF Tell, Decide, Goto, VerdictInv, TypeOK, ConnOK
    <3> QED BY <1>6, <3>1, VerdictFacts DEF Tell, verdictVars, At, VerdictInv, Grounds
  <2> QED BY <1>1, <2>1 DEF VerdictInv, NoFlapping, ProbesUnheld, Grounds, Evidence, Told, At, Path
<1>7. CASE Still \/ CloseListener \/ Tick \/ UNCHANGED vars
  <2>1. UNCHANGED <<probed, up, told>> /\ (~Closed' => ~Closed)
    BY <1>7 DEF Still, AcceptFails, AcceptAgain, CloseFlag, CloseListener, CloseJournal, SetPort, Tick,
                vars, ownerVars, verdictVars, Closed
  <2>2. hold' \in 0 .. hold
    BY <1>2, <1>7 DEF Still, AcceptFails, AcceptAgain, CloseFlag, CloseListener, CloseJournal, SetPort, Tick,
                vars, verdictVars
  <2>3. \A d \in Conns : pc'[d] = pc[d] \/ (pc[d] = "queued" /\ pc'[d] = "ended")
    BY <1>7 DEF Still, AcceptFails, AcceptAgain, CloseFlag, CloseListener, CloseJournal, SetPort, Tick,
                vars, connVars, At
  <2> QED BY <1>1, <2>1, <2>2, <2>3, VerdictKept
<1> QED BY <1>3, <1>4, <1>5, <1>6, <1>7, NextCases

\* While the backoff after a failed handshake lasts the path stays direct, for
\* every number of connections and all durations.
THEOREM BackoffHolds == Spec => []NoFlapping
<1>1. VerdictInv => NoFlapping
  BY DEF VerdictInv
<1> QED BY <1>1, VerdictInit, VerdictStep, PTL DEF Spec

\* The owner's last notification is of the path in force.
THEOREM OwnerIsTold == Spec => []Told
<1>1. VerdictInv => Told
  BY DEF VerdictInv
<1> QED BY <1>1, VerdictInit, VerdictStep, PTL DEF Spec

\* A connection is sent on evidence, never on a default.
THEOREM SentOnEvidence == Spec => []Evidence
<1>1. VerdictInv => Evidence
  BY DEF VerdictInv
<1> QED BY <1>1, VerdictInit, VerdictStep, PTL DEF Spec

----------------------------------------------------------------------------
(* The answers.  What a connection was answered and what was tried for it   *)
(* follow from where it is.                                                *)

Stage(c) ==
    /\ pc[c] \notin {"spliced", "ended"} => answer[c] = "none"
    /\ pc[c] \notin {"again", "spliced", "ended"} => "origin" \notin tried[c]
    /\ pc[c] = "again" => "origin" \in tried[c]
    /\ "refused" \in tried[c] => pc[c] = "ended"
Earned(c) ==
    /\ answer[c] = "502" => "origin" \in tried[c]
    /\ "refused" \in tried[c] => answer[c] = "refusal" /\ "origin" \notin tried[c]
    /\ answer[c] = "200 proxy" => "origin" \notin tried[c]
    /\ answer[c] = "200 direct" => "origin" \in tried[c]

AnswerInv == TypeOK /\ \A c \in Conns : Stage(c) /\ Earned(c)

\* Before any connection nothing is answered.
LEMMA AnswerInit == Init => AnswerInv
BY TypeInit DEF Init, AnswerInv, Stage, Earned

\* No step answers what has not been earned by what was tried.
LEMMA AnswerStep ==
    ASSUME AnswerInv, [Next]_vars
    PROVE  AnswerInv'
<1>1. TypeOK'
  BY TypeStep DEF AnswerInv
<1>2. CASE \E c \in Conns : Moves(c)
  <2>1. PICK c \in Conns : Moves(c)
    BY <1>2
  <2>2. Stage(c)' /\ Earned(c)'
    <3> USE DEF AnswerInv, TypeOK, ConnOK, Stage, Earned, At, Goto, Try, End, Splice
    <3>1. CASE Connect(c)
      BY <3>1 DEF Connect
    <3>2. CASE Accept(c)
      BY <3>2 DEF Accept
    <3>3. CASE ReadConnect(c)
      BY <3>3 DEF ReadConnect
    <3>4. CASE DialProxy(c)
      BY <3>4 DEF DialProxy
    <3>5. CASE Handshake(c)
      <4>1. CASE Splice(c, "200 proxy") /\ UNCHANGED tried
        BY <3>5, <4>1 DEF Handshake
      <4>2. CASE Refused(c)
        <5>1. pc'[c] = "ended" /\ answer'[c] = "refusal" /\ tried'[c] = tried[c] \cup {"refused"}
          BY <4>2 DEF Refused
        <5>2. "origin" \notin tried[c]
          BY <3>5 DEF Handshake
        <5> QED BY <5>1, <5>2
      <4>3. CASE HandshakeFails(c) /\ UNCHANGED <<answer, tried, copying>>
        BY <3>5, <4>3 DEF Handshake, HandshakeFails
      <4> QED BY <3>5, <4>1, <4>2, <4>3 DEF Handshake
    <3>6. CASE DialOrigin(c)
      BY <3>6 DEF DialOrigin
    <3>7. CASE DialAgain(c)
      BY <3>7 DEF DialAgain
    <3>8. CASE \E d \in {"out", "back"} : HalfClose(c, d)
      BY <3>8 DEF HalfClose
    <3> QED BY <2>1, <3>1, <3>2, <3>3, <3>4, <3>5, <3>6, <3>7, <3>8 DEF Moves
  <2>3. \A d \in Conns \ {c} : Stage(d)' /\ Earned(d)'
    BY <2>1, MovesFacts DEF AnswerInv, Stage, Earned
  <2> QED BY <1>1, <2>2, <2>3 DEF AnswerInv
<1>3. CASE \E c \in Conns : ViaProxy(c) \/ Probe(c) \/ MarkDown(c) \/ MarkBroken(c) \/ Tell(c)
  <2>1. PICK c \in Conns : ViaProxy(c) \/ Probe(c) \/ MarkDown(c) \/ MarkBroken(c) \/ Tell(c)
    BY <1>3
  <2>2. /\ UNCHANGED <<answer, tried>>
        /\ pc[c] \in {"routing", "probing", "down", "broken", "telling"}
        /\ pc'[c] \in {"probing", "telling", "chain", "direct"}
        /\ \A d \in Conns \ {c} : pc'[d] = pc[d]
    BY <2>1, VerdictFacts DEF AnswerInv
  <2> QED BY <1>1, <2>2 DEF AnswerInv, Stage, Earned
<1>4. CASE Still \/ CloseListener \/ Tick \/ UNCHANGED vars
  <2>1. UNCHANGED <<answer, tried>>
    BY <1>4 DEF Still, AcceptFails, AcceptAgain, CloseFlag, CloseListener, CloseJournal, SetPort, Tick,
                vars, connVars
  <2>2. \A d \in Conns : pc'[d] = pc[d] \/ (pc[d] = "queued" /\ pc'[d] = "ended")
    BY <1>4 DEF Still, AcceptFails, AcceptAgain, CloseFlag, CloseListener, CloseJournal, SetPort, Tick,
                vars, connVars, At
  <2> QED BY <1>1, <2>1, <2>2 DEF AnswerInv, Stage, Earned
<1> QED BY <1>2, <1>3, <1>4, NextCases

\* A failure was earned by dialling the origin, a refusal of the proxy stands.
THEOREM AnswersAreEarned == Spec => []AnswerEarned
<1>1. AnswerInv => AnswerEarned
  BY DEF AnswerInv, Earned, AnswerEarned
<1> QED BY <1>1, AnswerInit, AnswerStep, PTL DEF Spec

\* A connection is sent on evidence and answered as it deserves.
THEOREM WaysAreJustified == Spec => []Justified
<1>1. Evidence /\ AnswerEarned => Justified
  BY DEF Justified
<1> QED BY <1>1, SentOnEvidence, AnswersAreEarned, PTL
=============================================================================
