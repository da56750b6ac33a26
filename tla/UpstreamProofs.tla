--------------------------- MODULE UpstreamProofs ---------------------------
(***************************************************************************)
(* Proofs about the way to the upstream: the guard on a stream             *)
(* (StallGuard), for every window and every length of stream: types,       *)
(* transparency, the slow reader and the named ending; and the shared      *)
(* setup of connections (ConnSetup), for any requests and any number of    *)
(* attempts: sharing a setup costs nobody anything (Shared).               *)
(*                                                                         *)
(* The second's inductive invariant says, for each place of a request,     *)
(* what it has and holds (Own), who may be setting up (OneSetsUp), on whom *)
(* a waiter counts (Awaited), and that nothing usable is kept while        *)
(* somebody sets up (KeptOK), so that no setup displaces a connection that *)
(* is in use.                                                              *)
(***************************************************************************)
EXTENDS StallGuard, ConnSetup, SequenceTheorems, TLAPS

\* What appending to a sequence does to its members.
LEMMA AppendFacts ==
    ASSUME NEW S, NEW s \in Seq(S), NEW e \in S
    PROVE  /\ Append(s, e) \in Seq(S)
           /\ Len(s) \in Nat
           /\ Len(Append(s, e)) = Len(s) + 1
           /\ DOMAIN s = 1 .. Len(s)
           /\ DOMAIN Append(s, e) = 1 .. (Len(s) + 1)
           /\ \A i \in 1 .. Len(s) : Append(s, e)[i] = s[i]
           /\ Append(s, e)[Len(s) + 1] = e
<1>1. /\ Append(s, e) \in Seq(S)
      /\ Len(Append(s, e)) = Len(s) + 1
      /\ \A i \in 1 .. Len(s) : Append(s, e)[i] = s[i]
      /\ Append(s, e)[Len(s) + 1] = e
  BY AppendProperties
<1>2. Len(s) \in Nat /\ DOMAIN s = 1 .. Len(s)
  OBVIOUS
<1>3. DOMAIN Append(s, e) = 1 .. (Len(s) + 1)
  BY <1>1
<1> QED BY <1>1, <1>2, <1>3

----------------------------------------------------------------------------
(* Types.                                                                  *)

\* The types at first.
LEMMA TypeInit == Init => TypeOK
<1> SUFFICES ASSUME Init PROVE TypeOK
  OBVIOUS
<1>1. StreamOK
  <2>1. produced \in Seq(Chunks)
    BY DEF Init
  <2> QED BY <2>1 DEF Init, StreamOK
<1>2. LedgerOK
  <2>1. notes \in Seq(Reports)
    BY DEF Init
  <2> QED BY <2>1 DEF Init, LedgerOK
<1>3. PumpOK
  <2>1. delivered \in Seq(Chunks \cup {"stall"})
    BY DEF Init
  <2>2. timer \in 0 .. Idle /\ starved \in 0 .. Idle
    BY StallAssumption DEF Init
  <2> QED BY <2>1, <2>2 DEF Init, PumpOK
<1> QED BY <1>1, <1>2, <1>3 DEF TypeOK

\* The stream, after a step.
LEMMA StepStream ==
    ASSUME TypeOK, Next
    PROVE  StreamOK'
<1> USE DEF TypeOK, StreamOK
<1>1. CASE \E k \in Chunks : Produce(k)
  BY <1>1, AppendFacts DEF Produce, Offering
<1>2. CASE ReadFails
  <2>1. "error" \in Chunks
    BY DEF Chunks
  <2> QED BY <1>2, <2>1, AppendFacts DEF ReadFails, Offering
<1>3. CASE UpstreamEnds \/ OfferAbandoned \/ Receive \/ DrainStep
  BY <1>3 DEF UpstreamEnds, OfferAbandoned, Receive, DrainStep, OfferTaken, streamVars
<1>4. CASE HangUp
  BY <1>4 DEF HangUp, streamVars
<1>5. CASE CloseSeen \/ Fire \/ GiveUp \/ Read \/ ReadStall \/ Tick
  <2>1. UNCHANGED <<streamVars, hungUp>>
    BY <1>5 DEF CloseSeen, Fire, GiveUp, Read, ReadStall, Tick
  <2> QED BY <2>1 DEF streamVars
<1> QED BY <1>1, <1>2, <1>3, <1>4, <1>5 DEF Next, PumpNext

\* The notes change by at most one report, in CloseSeen, Fire and GiveUp.
LEMMA StepNotes ==
    ASSUME TypeOK, Next
    PROVE  /\ notes' \in Seq(Reports)
           /\ \/ notes' = notes
              \/ /\ pump \in {"receive", "forward"}
                 /\ pump' \in {"reporting", "done"}
                 /\ \E r \in Reports : notes' = Append(notes, r)
<1> USE DEF TypeOK, LedgerOK, Reports
<1>1. \A r \in Reports : Append(notes, r) \in Seq(Reports)
  BY AppendFacts
<1>2. DropReport \in Reports
  BY DEF DropReport
<1>3. CASE CloseSeen
  BY <1>1, <1>2, <1>3 DEF CloseSeen, CloseReport, Report, Return
<1>4. CASE Fire
  BY <1>1, <1>4 DEF Fire, Report
<1>5. CASE GiveUp
  BY <1>1, <1>2, <1>5 DEF GiveUp, Report, Return
<1>6. CASE \/ \E k \in Chunks : Produce(k)
           \/ ReadFails \/ UpstreamEnds \/ OfferAbandoned
           \/ Receive \/ DrainStep \/ Read \/ ReadStall \/ HangUp \/ Tick
  BY <1>6 DEF Produce, ReadFails, UpstreamEnds, OfferAbandoned, Receive, DrainStep, Read,
              ReadStall, HangUp, Tick, pumpVars
<1> QED BY <1>3, <1>4, <1>5, <1>6 DEF Next, PumpNext

\* The ledgers, after a step.
LEMMA StepLedger ==
    ASSUME TypeOK, Next
    PROVE  LedgerOK'
<1>1. armed' \in BOOLEAN /\ accounted' \in BOOLEAN
  <2>1. CASE Receive
    BY <2>1 DEF TypeOK, LedgerOK, Receive, Opens, Settles
  <2>2. CASE \/ \E k \in Chunks : Produce(k)
             \/ ReadFails \/ UpstreamEnds \/ OfferAbandoned
             \/ CloseSeen \/ Fire \/ GiveUp
             \/ DrainStep \/ Read \/ ReadStall \/ HangUp \/ Tick
    <3>1. UNCHANGED <<armed, accounted>>
      BY <2>2 DEF Produce, ReadFails, UpstreamEnds, OfferAbandoned, CloseSeen, Fire, GiveUp,
                  DrainStep, Read, ReadStall, HangUp, Tick, pumpVars
    <3> QED BY <3>1 DEF TypeOK, LedgerOK
  <2> QED BY <2>1, <2>2 DEF Next, PumpNext
<1>2. severed' \in BOOLEAN
  BY DEF Next, PumpNext, Produce, ReadFails, UpstreamEnds, OfferAbandoned, Receive, CloseSeen, Fire,
         GiveUp, DrainStep, Read, ReadStall, HangUp, Tick, pumpVars, Return, TypeOK, LedgerOK
<1> QED BY <1>1, <1>2, StepNotes DEF LedgerOK

\* The pump, after a step.
LEMMA StepPump ==
    ASSUME TypeOK, Next
    PROVE  PumpOK'
<1> USE DEF TypeOK, PumpOK
<1>1. CASE Read
  <2>1. delivered' \in Seq(Chunks \cup {"stall"})
    BY <1>1, AppendFacts DEF Read
  <2> QED BY <1>1, <2>1, StallAssumption DEF Read, ReArm
<1>2. CASE ReadStall
  <2>1. delivered' \in Seq(Chunks \cup {"stall"})
    BY <1>2, AppendFacts DEF ReadStall
  <2> QED BY <1>2, <2>1 DEF ReadStall
<1>3. CASE Receive
  <2>1. offer \in Chunks
    BY <1>3 DEF Receive, OfferTaken, StreamOK
  <2> QED BY <1>3, <2>1 DEF Receive
<1>4. CASE Tick
  <2>1. timer' \in 0 .. Idle /\ starved' \in Nat
    BY <1>4, StallAssumption DEF Tick
  <2> QED BY <1>4, <2>1 DEF Tick
<1>5. CASE CloseSeen \/ Fire \/ GiveUp \/ DrainStep
  <2>1. UNCHANGED <<delivered, timer, starved>>
    BY <1>5 DEF CloseSeen, Fire, GiveUp, DrainStep
  <2>2. pump' \in {"reporting", "draining", "done"} /\ held' \in {held, NoChunk}
    BY <1>5 DEF CloseSeen, Fire, GiveUp, DrainStep, Return
  <2> QED BY <2>1, <2>2
<1>6. CASE \/ \E k \in Chunks : Produce(k)
           \/ ReadFails \/ UpstreamEnds \/ OfferAbandoned \/ HangUp
  <2>1. UNCHANGED pumpVars
    BY <1>6 DEF Produce, ReadFails, UpstreamEnds, OfferAbandoned, HangUp
  <2> QED BY <2>1 DEF pumpVars
<1> QED BY <1>1, <1>2, <1>3, <1>4, <1>5, <1>6 DEF Next, PumpNext

\* The types, when nothing happens.
LEMMA TypeStutter == TypeOK /\ UNCHANGED vars => TypeOK'
<1> SUFFICES ASSUME TypeOK, UNCHANGED vars PROVE TypeOK'
  OBVIOUS
<1> USE DEF vars, streamVars, pumpVars, TypeOK
<1>1. StreamOK'
  BY DEF StreamOK
<1>2. LedgerOK'
  BY DEF LedgerOK
<1>3. PumpOK'
  BY DEF PumpOK
<1> QED BY <1>1, <1>2, <1>3

\* Every variable has its type, and the timer stays within the window.
THEOREM TypeCorrect == Spec => []TypeOK
<1>1. TypeOK /\ [Next]_vars => TypeOK'
  <2>1. CASE Next
    BY <2>1, StepStream, StepLedger, StepPump DEF TypeOK
  <2>2. CASE UNCHANGED vars
    BY <2>2, TypeStutter
  <2> QED BY <2>1, <2>2
<1> QED BY TypeInit, <1>1, PTL DEF Spec

----------------------------------------------------------------------------
(* Transparency: how much of the stream is where.                          *)

\* The chunks the pump has received: delivered, and the one in its hand.
Held == IF pump = "forward" THEN 1 ELSE 0

\* Until the guard pronounces the stream dead, what was produced is what was
\* delivered, then the chunk held, then the chunk offered, in that order; only
\* an offer abandoned by a request that ended is missing.
FlowInv ==
    /\ pump \in {"receive", "forward", "reporting"} =>
          /\ Len(delivered) + Held <= Len(produced)
          /\ \A i \in DOMAIN delivered : delivered[i] = produced[i]
          /\ ~severed
    /\ pump \in {"receive", "forward"} =>
          /\ inner = "offering" => Len(produced) = Len(delivered) + Held + 1
          /\ inner = "reading" => Len(produced) = Len(delivered) + Held
          /\ inner = "closed" /\ ~hungUp => Len(produced) = Len(delivered) + Held
    /\ pump = "forward" => held = produced[Len(delivered) + 1]
    /\ inner = "offering" => Len(produced) > 0 /\ offer = produced[Len(produced)]

\* The end of the stream, once reached.
EndInv ==
    /\ Transparent
    /\ pump \in {"receive", "forward"} => notes = <<>>
    /\ pump \in {"reporting", "draining"} => Said("stalled")
    /\ pump = "done" /\ ~hungUp /\ ~Said("stalled") => inner = "closed"

\* What flows and how it ends, at first.
LEMMA FlowInit == Init => FlowInv /\ EndInv
<1> SUFFICES ASSUME Init PROVE FlowInv /\ EndInv
  OBVIOUS
<1>1. /\ delivered = <<>> /\ produced = <<>> /\ notes = <<>>
      /\ Len(delivered) = 0 /\ Len(produced) = 0 /\ DOMAIN delivered = {}
      /\ pump = "receive" /\ inner = "reading" /\ severed = FALSE
  BY DEF Init
<1> QED BY <1>1 DEF FlowInv, EndInv, Held, Transparent

\* A new chunk extends what was produced; the pump is not concerned.
LEMMA OfferingStep ==
    ASSUME TypeOK, FlowInv, EndInv, NEW k \in Chunks,
           inner = "reading", Offering(k), UNCHANGED <<pumpVars, hungUp>>
    PROVE  FlowInv' /\ EndInv'
<1>1. /\ produced' \in Seq(Chunks)
      /\ Len(produced) \in Nat
      /\ Len(produced') = Len(produced) + 1
      /\ DOMAIN produced = 1 .. Len(produced)
      /\ DOMAIN produced' = 1 .. (Len(produced) + 1)
      /\ \A i \in 1 .. Len(produced) : produced'[i] = produced[i]
      /\ produced'[Len(produced) + 1] = k
      /\ inner' = "offering" /\ offer' = k
  BY AppendFacts DEF Offering, TypeOK, StreamOK
<1>2. /\ UNCHANGED <<pump, held, severed, delivered, notes, hungUp>>
      /\ Held' = Held /\ (Said("stalled") <=> Said("stalled")')
  BY DEF pumpVars, Held, Said
<1>3. Len(delivered) \in Nat /\ DOMAIN delivered = 1 .. Len(delivered)
  BY DEF TypeOK, PumpOK
<1>4. Held \in {0, 1}
  BY DEF Held
<1>5. pump \in {"receive", "forward", "reporting"} =>
          /\ Len(delivered') + Held' <= Len(produced')
          /\ \A i \in DOMAIN delivered' : delivered'[i] = produced'[i]
          /\ ~severed'
  <2> SUFFICES ASSUME pump \in {"receive", "forward", "reporting"}
               PROVE  /\ Len(delivered') + Held' <= Len(produced')
                      /\ \A i \in DOMAIN delivered' : delivered'[i] = produced'[i]
                      /\ ~severed'
    OBVIOUS
  <2>1. /\ Len(delivered) + Held <= Len(produced)
        /\ \A i \in DOMAIN delivered : delivered[i] = produced[i]
        /\ ~severed
    BY DEF FlowInv
  <2>2. Len(delivered') + Held' <= Len(produced')
    BY <1>1, <1>2, <1>3, <1>4, <2>1
  <2>3. \A i \in DOMAIN delivered : i \in 1 .. Len(produced)
    BY <1>1, <1>3, <1>4, <2>1
  <2>4. \A i \in DOMAIN delivered' : delivered'[i] = produced'[i]
    BY <1>1, <1>2, <2>1, <2>3
  <2> QED BY <1>2, <2>1, <2>2, <2>4
<1>6. pump \in {"receive", "forward"} => Len(produced') = Len(delivered') + Held' + 1
  BY <1>1, <1>2, <1>3, <1>4 DEF FlowInv
<1>7. pump = "forward" => held' = produced'[Len(delivered') + 1]
  <2>1. pump = "forward" => Len(delivered) + 1 \in 1 .. Len(produced)
    BY <1>1, <1>3 DEF FlowInv, Held
  <2> QED BY <1>1, <1>2, <2>1 DEF FlowInv
<1>8. Len(produced') > 0 /\ offer' = produced'[Len(produced')]
  BY <1>1
<1>9. FlowInv'
  BY <1>1, <1>2, <1>5, <1>6, <1>7, <1>8 DEF FlowInv
<1>10. EndInv'
  <2>1. \A i \in DOMAIN produced : i \in DOMAIN produced' /\ produced'[i] = produced[i]
    BY <1>1
  <2>2. ~(pump = "done" /\ ~hungUp /\ ~Said("stalled"))
    BY DEF EndInv
  <2> QED BY <1>2, <2>1, <2>2 DEF EndInv, Transparent, Said
<1> QED BY <1>9, <1>10

\* The pump reads a chunk.
LEMMA ReadFlow ==
    ASSUME TypeOK, FlowInv, EndInv, Read
    PROVE  FlowInv' /\ EndInv'
<1>1. /\ Len(delivered) \in Nat
      /\ Len(delivered') = Len(delivered) + 1
      /\ DOMAIN delivered = 1 .. Len(delivered)
      /\ DOMAIN delivered' = 1 .. (Len(delivered) + 1)
      /\ \A i \in 1 .. Len(delivered) : delivered'[i] = delivered[i]
      /\ delivered'[Len(delivered) + 1] = held
  BY AppendFacts DEF Read, TypeOK, PumpOK
<1>2. /\ pump = "forward" /\ pump' = "receive"
      /\ UNCHANGED <<inner, offer, produced, severed, hungUp, notes>>
      /\ Held = 1 /\ Held' = 0
  BY DEF Read, streamVars, Held
<1>3. Len(produced) \in Nat /\ DOMAIN produced = 1 .. Len(produced)
  BY DEF TypeOK, StreamOK
<1>4. \A i \in DOMAIN delivered' : i \in DOMAIN produced /\ delivered'[i] = produced[i]
  <2>1. /\ Len(delivered) + 1 <= Len(produced)
        /\ held = produced[Len(delivered) + 1]
        /\ \A i \in DOMAIN delivered : delivered[i] = produced[i]
    BY <1>2 DEF FlowInv
  <2> QED BY <1>1, <1>3, <2>1
<1>5. FlowInv'
  <2>1. /\ Len(delivered) + 1 <= Len(produced)
        /\ inner = "offering" => Len(produced) = Len(delivered) + 1 + 1
        /\ inner = "reading" => Len(produced) = Len(delivered) + 1
        /\ inner = "closed" /\ ~hungUp => Len(produced) = Len(delivered) + 1
        /\ inner = "offering" => Len(produced) > 0 /\ offer = produced[Len(produced)]
        /\ ~severed
    BY <1>2 DEF FlowInv
  <2>2. /\ Len(delivered') + Held' <= Len(produced')
        /\ inner' = "offering" => Len(produced') = Len(delivered') + Held' + 1
        /\ inner' = "reading" => Len(produced') = Len(delivered') + Held'
        /\ inner' = "closed" /\ ~hungUp' => Len(produced') = Len(delivered') + Held'
    <3>1. /\ Len(produced') = Len(produced) /\ Held' = 0
          /\ inner' = inner /\ hungUp' = hungUp
      BY <1>2
    <3>2. Len(delivered') + Held' = Len(delivered) + 1
      BY <1>1, <3>1
    <3> QED BY <1>1, <1>3, <2>1, <3>1, <3>2
  <2>3. inner' = "offering" => Len(produced') > 0 /\ offer' = produced'[Len(produced')]
    BY <1>2, <2>1
  <2>4. \A i \in DOMAIN delivered' : delivered'[i] = produced'[i]
    BY <1>2, <1>4
  <2>5. pump' = "receive" /\ ~severed'
    BY <1>2, <2>1
  <2> QED BY <2>2, <2>3, <2>4, <2>5 DEF FlowInv
<1>6. EndInv'
  BY <1>2, <1>4 DEF EndInv, Transparent
<1> QED BY <1>5, <1>6

\* The pump reads nothing, for too long.
LEMMA ReadStallFlow ==
    ASSUME TypeOK, FlowInv, EndInv, ReadStall
    PROVE  FlowInv' /\ EndInv'
<1>1. /\ Len(delivered) \in Nat
      /\ Len(delivered') = Len(delivered) + 1
      /\ DOMAIN delivered = 1 .. Len(delivered)
      /\ DOMAIN delivered' = 1 .. (Len(delivered) + 1)
      /\ \A i \in 1 .. Len(delivered) : delivered'[i] = delivered[i]
      /\ delivered'[Len(delivered) + 1] = "stall"
  BY AppendFacts DEF ReadStall, TypeOK, PumpOK
<1>2. /\ pump = "reporting" /\ pump' = "draining"
      /\ UNCHANGED <<inner, offer, produced, hungUp, notes>>
  BY DEF ReadStall, streamVars
<1>3. Len(produced) \in Nat /\ DOMAIN produced = 1 .. Len(produced)
  BY DEF TypeOK, StreamOK
<1>4. \A i \in DOMAIN delivered : i \in DOMAIN produced /\ delivered[i] = produced[i]
  BY <1>1, <1>2, <1>3 DEF FlowInv, Held
<1>5. FlowInv'
  BY <1>2 DEF FlowInv
<1>6. EndInv'
  BY <1>1, <1>2, <1>4 DEF EndInv, Transparent, Said
<1> QED BY <1>5, <1>6

\* The reader takes a chunk.
LEMMA ReceiveFlow ==
    ASSUME TypeOK, FlowInv, EndInv, Receive
    PROVE  FlowInv' /\ EndInv'
<1>1. /\ pump = "receive" /\ pump' = "forward" /\ inner = "offering" /\ held' = offer
      /\ UNCHANGED <<produced, delivered, severed, hungUp, notes>>
      /\ inner' \in {"closed", "reading"}
      /\ Held = 0 /\ Held' = 1
  BY DEF Receive, OfferTaken, Held
<1>2. Len(delivered) \in Nat /\ Len(produced) \in Nat /\ DOMAIN delivered = 1 .. Len(delivered)
  BY DEF TypeOK, PumpOK, StreamOK
<1>3. Len(produced) = Len(delivered) + 1 /\ offer = produced[Len(produced)]
  BY <1>1, <1>2 DEF FlowInv
<1>4. FlowInv'
  BY <1>1, <1>2, <1>3 DEF FlowInv
<1>5. EndInv'
  BY <1>1 DEF EndInv, Transparent, Said
<1> QED BY <1>4, <1>5

\* The steps that end the stream, or that follow the stall.
LEMMA EndFlow ==
    ASSUME TypeOK, FlowInv, EndInv, CloseSeen \/ Fire \/ GiveUp \/ DrainStep
    PROVE  FlowInv' /\ EndInv'
<1>1. UNCHANGED <<produced, delivered, hungUp>>
  BY DEF CloseSeen, Fire, GiveUp, DrainStep, OfferTaken, streamVars
<1>2. /\ Len(delivered) \in Nat /\ DOMAIN delivered = 1 .. Len(delivered)
      /\ Len(produced) \in Nat /\ DOMAIN produced = 1 .. Len(produced)
      /\ produced \in Seq(Chunks) /\ delivered \in Seq(Chunks \cup {"stall"})
  BY DEF TypeOK, PumpOK, StreamOK
<1>3. CASE CloseSeen
  <2>1. /\ pump = "receive" /\ pump' = "done" /\ inner = "closed" /\ inner' = "closed"
    BY <1>3 DEF CloseSeen, Return, streamVars
  <2>2. ~hungUp => delivered = produced
    <3>1. ASSUME ~hungUp PROVE Len(produced) = Len(delivered)
      BY <1>2, <2>1, <3>1 DEF FlowInv, Held
    <3>2. \A i \in DOMAIN delivered : delivered[i] = produced[i]
      BY <2>1 DEF FlowInv
    <3> QED BY <1>2, <3>1, <3>2
  <2> QED BY <1>1, <2>1, <2>2 DEF FlowInv, EndInv, Transparent
<1>4. CASE Fire
  <2>1. /\ pump = "receive" /\ pump' = "reporting"
        /\ notes = <<>> /\ notes' = Append(notes, "stalled")
        /\ UNCHANGED <<inner, offer, severed>>
    BY <1>4 DEF Fire, Report, streamVars, EndInv
  <2>2. Said("stalled")'
    BY <2>1 DEF Said
  <2>3. FlowInv'
    BY <1>1, <1>2, <2>1 DEF FlowInv, Held
  <2>4. EndInv'
    BY <1>1, <2>1, <2>2 DEF EndInv, Transparent
  <2> QED BY <2>3, <2>4
<1>5. CASE GiveUp
  <2>1. /\ hungUp
        /\ UNCHANGED <<inner, offer>>
        /\ \/ pump' = "done"
           \/ pump = "reporting" /\ pump' = "draining" /\ notes' = notes
    BY <1>5 DEF GiveUp, Return, streamVars
  <2>2. FlowInv'
    BY <1>1, <2>1 DEF FlowInv
  <2>3. EndInv'
    BY <1>1, <2>1 DEF EndInv, Transparent, Said
  <2> QED BY <2>2, <2>3
<1>6. CASE DrainStep
  <2>1. /\ pump = "draining" /\ pump' \in {"draining", "done"} /\ notes' = notes
        /\ Said("stalled")
    BY <1>6 DEF DrainStep, Return, EndInv
  <2>2. inner' = "offering" => inner = "offering" /\ offer' = offer
    BY <1>6 DEF DrainStep, OfferTaken, streamVars
  <2>3. FlowInv'
    BY <1>1, <2>1, <2>2 DEF FlowInv
  <2>4. EndInv'
    BY <1>1, <2>1 DEF EndInv, Transparent, Said
  <2> QED BY <2>3, <2>4
<1> QED BY <1>3, <1>4, <1>5, <1>6

\* The steps that move no chunk.
LEMMA OtherFlow ==
    ASSUME TypeOK, FlowInv, EndInv, UpstreamEnds \/ OfferAbandoned \/ HangUp \/ Tick
    PROVE  FlowInv' /\ EndInv'
<1>1. UNCHANGED <<produced, pump, held, severed, delivered, notes>>
  BY DEF UpstreamEnds, OfferAbandoned, HangUp, Tick, pumpVars, streamVars
<1>2. /\ inner' # inner => inner' = "closed" /\ (inner = "reading" \/ Cancelled)
      /\ inner' = "offering" => offer' = offer
      /\ hungUp => hungUp'
  BY DEF UpstreamEnds, OfferAbandoned, HangUp, Tick, streamVars, pumpVars
<1>3. hungUp \in BOOLEAN /\ hungUp' \in BOOLEAN
  BY DEF TypeOK, StreamOK, UpstreamEnds, OfferAbandoned, HangUp, Tick
<1>4. Held' = Held /\ (Said("stalled") <=> Said("stalled")')
  BY <1>1 DEF Held, Said
<1>5. FlowInv'
  BY <1>1, <1>2, <1>3, <1>4 DEF FlowInv, Cancelled
<1>6. EndInv'
  BY <1>1, <1>2, <1>3, <1>4 DEF EndInv, Transparent
<1> QED BY <1>5, <1>6

\* So what flows and how it ends are always right.
LEMMA FlowCorrect == Spec => [](FlowInv /\ EndInv)
<1>1. TypeOK /\ FlowInv /\ EndInv /\ [Next]_vars => FlowInv' /\ EndInv'
  <2> SUFFICES ASSUME TypeOK, FlowInv, EndInv, [Next]_vars PROVE FlowInv' /\ EndInv'
    OBVIOUS
  <2>1. CASE Next
    <3>1. CASE \E k \in Chunks : Produce(k)
      BY <3>1, OfferingStep DEF Produce
    <3>2. CASE ReadFails
      <4>1. "error" \in Chunks
        BY DEF Chunks
      <4> QED BY <3>2, <4>1, OfferingStep DEF ReadFails
    <3> QED BY <2>1, <3>1, <3>2, ReadFlow, ReadStallFlow, ReceiveFlow, EndFlow, OtherFlow
            DEF Next, PumpNext
  <2>2. CASE UNCHANGED vars
    BY <2>2 DEF vars, streamVars, pumpVars, FlowInv, EndInv, Held, Transparent, Said
  <2> QED BY <2>1, <2>2
<1> QED BY FlowInit, <1>1, TypeCorrect, PTL DEF Spec

\* The reader receives the upstream's chunks in order, each once, then at most
\* the stall error, and all of them unless the stream was cut.
THEOREM GuardIsTransparent == Spec => []Transparent
<1>1. EndInv => Transparent
  BY DEF EndInv
<1> QED BY <1>1, FlowCorrect, PTL

----------------------------------------------------------------------------
(* The reports.                                                            *)

\* The one report of a stream, as it is made.
LEMMA FirstReport ==
    ASSUME NEW r, notes = <<>>, Report(r)
    PROVE  /\ Len(notes') = 1
           /\ \A q : Said(q)' <=> q = r
<1>1. notes' = <<r>>
  BY DEF Report
<1>2. Len(notes') = 1 /\ DOMAIN notes' = {1} /\ notes'[1] = r
  BY <1>1
<1> QED BY <1>2 DEF Said

\* Where nothing was reported, nothing is said.
LEMMA NothingSaid ==
    ASSUME notes = <<>>
    PROVE  Len(notes) = 0 /\ \A q : ~Said(q)
BY DEF Said

\* While the pump waits for the upstream the timer has run as long as the wait.
StarvedInv ==
    /\ pump = "receive" => timer = starved
    /\ SlowReaderSpared

\* A reader is called starved when the upstream was waited for.
LEMMA StarvedStep ==
    ASSUME TypeOK, FlowInv, EndInv, StarvedInv, Next
    PROVE  StarvedInv'
<1>1. CASE Fire
  <2>1. timer = Idle /\ starved' = starved /\ pump = "receive" /\ pump' = "reporting"
    BY <1>1 DEF Fire
  <2> QED BY <2>1 DEF StarvedInv, SlowReaderSpared
<1>2. CASE CloseSeen
  <2>1. pump = "receive" /\ pump' = "done" /\ notes = <<>>
    BY <1>2 DEF CloseSeen, Return, EndInv
  <2>2. ~Said("stalled")'
    BY ZenonT(40), <1>2, <2>1, FirstReport, NothingSaid DEF CloseSeen, CloseReport, DropReport, Said
  <2> QED BY <2>1, <2>2 DEF StarvedInv, SlowReaderSpared
<1>3. CASE GiveUp
  <2>1. starved' = starved /\ pump' \in {"draining", "done"}
    BY <1>3 DEF GiveUp, Return
  <2>2. Said("stalled")' => Said("stalled")
    <3>1. CASE pump \in {"receive", "forward"}
      BY <1>3, <3>1, FirstReport, NothingSaid DEF GiveUp, EndInv, DropReport, Said
    <3>2. CASE pump = "reporting"
      BY <1>3, <3>2 DEF GiveUp, Said
    <3> QED BY <1>3, <3>1, <3>2 DEF GiveUp
  <2> QED BY <2>1, <2>2 DEF StarvedInv, SlowReaderSpared
<1>4. CASE Read \/ Tick
  <2>1. notes' = <<>> /\ (pump' = "receive" => timer' = starved')
    BY <1>4 DEF Read, ReArm, Tick, EndInv, StarvedInv
  <2> QED BY <2>1 DEF StarvedInv, SlowReaderSpared, Said
<1>5. CASE Receive \/ DrainStep \/ ReadStall
  <2>1. notes' = notes /\ starved' = starved /\ pump' # "receive"
    BY <1>5 DEF Receive, DrainStep, ReadStall, Return
  <2> QED BY <2>1 DEF StarvedInv, SlowReaderSpared, Said
<1>6. CASE \/ \E k \in Chunks : Produce(k)
           \/ ReadFails \/ UpstreamEnds \/ OfferAbandoned \/ HangUp
  <2>1. UNCHANGED <<notes, starved, pump, timer>>
    BY <1>6 DEF Produce, ReadFails, UpstreamEnds, OfferAbandoned, HangUp, pumpVars
  <2> QED BY <2>1 DEF StarvedInv, SlowReaderSpared, Said
<1> QED BY <1>1, <1>2, <1>3, <1>4, <1>5, <1>6 DEF Next, PumpNext

\* "A slow reader must not trip the guard": a stream is pronounced dead only
\* when the pump waited for the upstream for the whole window.
THEOREM SlowReaderIsSpared == Spec => []SlowReaderSpared
<1>1. Init => StarvedInv
  BY NothingSaid DEF Init, StarvedInv, SlowReaderSpared
<1>2. TypeOK /\ FlowInv /\ EndInv /\ StarvedInv /\ [Next]_vars => StarvedInv'
  <2>1. UNCHANGED vars /\ StarvedInv => StarvedInv'
    BY DEF vars, pumpVars, streamVars, StarvedInv, SlowReaderSpared, Said
  <2> QED BY <2>1, StarvedStep
<1>3. StarvedInv => SlowReaderSpared
  BY DEF StarvedInv
<1> QED BY <1>1, <1>2, <1>3, TypeCorrect, FlowCorrect, PTL DEF Spec

----------------------------------------------------------------------------
(* The ledger, and what is said of the ending.                             *)

\* Where a published record is: in the ledger, or in the offer on its way
\* there, or nowhere because the request ended first.
LedgerInv ==
    /\ accounted => published
    /\ armed => dialect = "claude"
    /\ inner = "offering" /\ Opens(offer) => dialect = "claude"
    /\ inner = "offering" /\ Settles(offer) => published
    /\ pump \in {"receive", "forward"} /\ published /\ ~accounted =>
          hungUp \/ (inner = "offering" /\ Settles(offer))

\* A missing tail is noted at the end of the stream.
SaidInv ==
    /\ EndingNamed
    /\ Said("notail") => pump = "done" /\ inner = "closed"

\* The ledger is of what was handed over.
LEMMA LedgerStep ==
    ASSUME TypeOK, FlowInv, LedgerInv, Next
    PROVE  LedgerInv'
<1> USE DEF LedgerInv, Opens, Settles
<1>1. CASE \E k \in Chunks : Produce(k)
  <2>1. PICK k \in Chunks : Produce(k)
    BY <1>1
  <2>2. /\ inner = "reading" /\ inner' = "offering" /\ offer' = k
        /\ published' = (published \/ k = "tail") /\ k # "error"
        /\ k = "open" => dialect = "claude"
        /\ UNCHANGED <<dialect, accounted, armed, hungUp, pump>>
    BY <2>1 DEF Produce, Offering, MayFollow, pumpVars
  <2> QED BY <2>2
<1>2. CASE ReadFails
  <2>1. /\ inner' = "offering" /\ offer' = "error" /\ published' = TRUE
        /\ UNCHANGED <<dialect, accounted, armed, hungUp, pump>>
    BY <1>2 DEF ReadFails, Offering, pumpVars
  <2> QED BY <2>1
<1>3. CASE UpstreamEnds \/ OfferAbandoned \/ HangUp
  <2>1. /\ UNCHANGED <<dialect, published, accounted, armed, pump, severed>>
        /\ hungUp => hungUp'
        /\ \/ inner' = inner /\ offer' = offer
           \/ inner = "reading" /\ inner' = "closed"
           \/ inner = "offering" /\ inner' = "closed" /\ Cancelled /\ hungUp' = hungUp
    BY <1>3 DEF UpstreamEnds, OfferAbandoned, HangUp, pumpVars, streamVars
  <2>2. hungUp' \in BOOLEAN
    BY <1>3, <2>1 DEF TypeOK, StreamOK, UpstreamEnds, OfferAbandoned, HangUp
  <2>3. pump \in {"receive", "forward"} => ~severed
    BY DEF FlowInv
  <2> QED BY <2>1, <2>2, <2>3 DEF Cancelled
<1>4. CASE Receive
  <2>1. /\ inner = "offering" /\ inner' # "offering"
        /\ pump = "receive"
        /\ armed' = (armed \/ Opens(offer))
        /\ accounted' = (accounted \/ Settles(offer))
        /\ UNCHANGED <<dialect, published, hungUp>>
    BY <1>4 DEF Receive, OfferTaken
  <2> QED BY <2>1
<1>5. CASE DrainStep
  <2>1. /\ pump' \notin {"receive", "forward"}
        /\ UNCHANGED <<dialect, published, hungUp, armed, accounted>>
        /\ inner' = "offering" => inner = "offering" /\ offer' = offer
    BY <1>5 DEF DrainStep, OfferTaken, Return, streamVars
  <2> QED BY <2>1
<1>6. CASE CloseSeen \/ Fire \/ GiveUp \/ Read \/ ReadStall \/ Tick
  <2>1. /\ UNCHANGED <<streamVars, armed, accounted, hungUp>>
        /\ pump' \in {"receive", "forward"} => pump \in {"receive", "forward"}
    BY <1>6 DEF CloseSeen, Fire, GiveUp, Read, ReadStall, Tick, Return
  <2> QED BY <2>1 DEF streamVars
<1> QED BY <1>1, <1>2, <1>3, <1>4, <1>5, <1>6 DEF Next, PumpNext

\* Which report is made, and when.
LEMMA WhatIsSaid ==
    ASSUME TypeOK, notes = <<>>, CloseSeen \/ Fire \/ GiveUp, pump \in {"receive", "forward"},
           NEW r, Said(r)'
    PROVE  \/ r = "stalled"
           \/ r = "notail" /\ CloseSeen /\ armed /\ ~hungUp /\ ~accounted
           \/ /\ r \in {"clientdrop", "clientdropAccounted"}
              /\ armed /\ hungUp
              /\ r = "clientdropAccounted" => accounted
<1>1. notes' # notes
  BY NothingSaid DEF Said
<1>2. DropReport \in {"clientdrop", "clientdropAccounted"}
      /\ (DropReport = "clientdropAccounted" => accounted)
  BY DEF DropReport
<1>3. CASE Fire
  <2>1. Report("stalled")
    BY <1>3 DEF Fire
  <2> QED BY <2>1, FirstReport
<1>4. CASE CloseSeen
  <2>1. CloseReport
    BY <1>4 DEF CloseSeen
  <2>2. CASE armed /\ hungUp
    <3>1. Report(DropReport)
      BY <2>1, <2>2 DEF CloseReport
    <3>2. r = DropReport
      BY <3>1, FirstReport
    <3> QED BY <1>2, <2>2, <3>2
  <2>3. CASE armed /\ ~hungUp /\ ~accounted
    <3>1. Report("notail")
      BY <2>1, <2>3 DEF CloseReport
    <3>2. r = "notail"
      BY <3>1, FirstReport
    <3> QED BY <1>4, <2>3, <3>2
  <2>4. ~(~armed \/ (armed /\ ~hungUp /\ accounted))
    BY <1>1, <2>1 DEF CloseReport
  <2> QED BY <2>2, <2>3, <2>4
<1>5. CASE GiveUp
  <2>1. hungUp /\ armed /\ Report(DropReport)
    BY <1>1, <1>5 DEF GiveUp
  <2>2. r = DropReport
    BY <2>1, FirstReport
  <2> QED BY <1>2, <2>1, <2>2
<1> QED BY <1>3, <1>4, <1>5

\* The steps that report: the record says what is true of the stream then.
LEMMA SaidOnce ==
    ASSUME TypeOK, FlowInv, EndInv, LedgerInv, CloseSeen \/ Fire \/ GiveUp,
           pump \in {"receive", "forward"}
    PROVE  SaidInv'
<1>1. /\ notes = <<>> /\ UNCHANGED <<dialect, produced, published, inner, armed, accounted, delivered, hungUp>>
      /\ pump' \in {"reporting", "done"}
      /\ armed \in BOOLEAN /\ accounted \in BOOLEAN /\ hungUp \in BOOLEAN
      /\ dialect \in Dialects
  BY DEF CloseSeen, Fire, GiveUp, Return, streamVars, EndInv, TypeOK, LedgerOK, StreamOK
<1>2. DropReport \in {"clientdrop", "clientdropAccounted"}
      /\ (DropReport = "clientdropAccounted" => accounted)
  BY DEF DropReport
<1>3. notes' = notes \/ \E r \in Reports : Report(r)
  BY <1>2 DEF CloseSeen, CloseReport, Fire, GiveUp, Report, Reports
<1>4. Len(notes') <= 1 /\ (notes' # notes => Len(notes') = 1)
  BY <1>1, <1>3, FirstReport
<1>6. ASSUME pump' = "done", armed, ~accounted PROVE Len(notes') = 1
  <2>1. \E r \in Reports : Report(r)
    BY <1>1, <1>2, <1>6 DEF CloseSeen, CloseReport, Fire, GiveUp, Reports
  <2> QED BY <1>1, <2>1, FirstReport
<1>7. ASSUME Said("notail")'
      PROVE  armed /\ ~published /\ delivered = produced /\ pump' = "done" /\ inner = "closed"
  <2>3. CloseSeen /\ armed /\ ~hungUp /\ ~accounted
    BY <1>1, <1>7, WhatIsSaid
  <2>4. pump = "receive" /\ inner = "closed" /\ pump' = "done"
    BY <2>3 DEF CloseSeen, Return
  <2>5. ~published
    BY <2>3, <2>4 DEF LedgerInv
  <2>6. delivered = produced
    <3>1. Len(produced) = Len(delivered)
      <4>1. Len(delivered) \in Nat
        BY DEF TypeOK, PumpOK
      <4> QED BY <2>3, <2>4, <4>1 DEF FlowInv, Held
    <3>2. \A i \in DOMAIN delivered : delivered[i] = produced[i]
      BY <2>4 DEF FlowInv
    <3>3. delivered \in Seq(Chunks \cup {"stall"}) /\ produced \in Seq(Chunks)
      BY DEF TypeOK, PumpOK, StreamOK
    <3> QED BY <3>1, <3>2, <3>3
  <2> QED BY <2>3, <2>4, <2>5, <2>6
<1>8. ASSUME NEW r \in {"clientdrop", "clientdropAccounted"}, Said(r)'
      PROVE  armed /\ hungUp /\ (r = "clientdropAccounted" => accounted)
  BY <1>1, <1>8, WhatIsSaid
<1>9. ASSUME dialect = "translated" PROVE \A i \in DOMAIN notes' : notes'[i] = "stalled"
  <2>1. ~armed
    BY <1>9 DEF LedgerInv
  <2>2. ASSUME NEW i \in DOMAIN notes', NEW q, q = notes'[i] PROVE q = "stalled"
    <3>1. Said(q)'
      BY <2>2 DEF Said
    <3> QED BY <1>1, <2>1, <3>1, WhatIsSaid
  <2> QED BY <2>2
<1>10. accounted => published
  BY DEF LedgerInv
<1>11. EndingNamed'
  <2>1. Said("clientdrop")' => armed /\ hungUp
    BY <1>8
  <2>2. Said("clientdropAccounted")' => armed /\ hungUp /\ published
    BY <1>8, <1>10
  <2> QED BY <1>1, <1>4, <1>6, <1>7, <1>9, <2>1, <2>2 DEF EndingNamed
<1> QED BY <1>1, <1>7, <1>11 DEF SaidInv

\* Every step keeps what is said true.
LEMMA SaidStep ==
    ASSUME TypeOK, FlowInv, EndInv, LedgerInv, SaidInv, Next
    PROVE  SaidInv'
<1>1. CASE (CloseSeen \/ Fire \/ GiveUp) /\ pump \in {"receive", "forward"}
  BY <1>1, SaidOnce
<1>2. CASE GiveUp /\ pump = "reporting"
  <2>1. /\ UNCHANGED <<dialect, produced, published, inner, armed, accounted, delivered, hungUp, notes>>
        /\ pump' = "draining"
    BY <1>2 DEF GiveUp, streamVars
  <2> QED BY <1>2, <2>1 DEF SaidInv, EndingNamed, Said
<1>3. CASE Read \/ Receive
  <2>1. notes' = <<>> /\ pump' # "done"
    BY <1>3 DEF Read, Receive, EndInv
  <2>2. Len(notes') = 0 /\ DOMAIN notes' = {}
    BY <2>1
  <2> QED BY <2>1, <2>2 DEF SaidInv, EndingNamed, Said
<1>4. CASE ReadStall \/ DrainStep
  <2>1. /\ UNCHANGED <<dialect, produced, published, armed, accounted, hungUp, notes>>
        /\ pump \in {"reporting", "draining"} /\ pump' \in {"draining", "done"}
    BY <1>4 DEF ReadStall, DrainStep, OfferTaken, Return, streamVars
  <2>2. ~Said("notail")
    BY <2>1 DEF SaidInv
  <2>3. Len(notes) \in Nat /\ Len(notes) # 0
    <3>1. Said("stalled") /\ notes \in Seq(Reports)
      BY <2>1 DEF EndInv, TypeOK, LedgerOK
    <3> QED BY <3>1, NothingSaid
  <2>4. Len(notes) = 1
    <3>1. Len(notes) <= 1
      BY DEF SaidInv, EndingNamed
    <3>2. \A n \in Nat : n <= 1 /\ n # 0 => n = 1
      OBVIOUS
    <3> QED BY <2>3, <3>1, <3>2
  <2>5. \A q : Said(q)' <=> Said(q)
    BY <2>1 DEF Said
  <2>6. EndingNamed'
    BY <2>1, <2>2, <2>4, <2>5 DEF SaidInv, EndingNamed
  <2> QED BY <2>2, <2>5, <2>6 DEF SaidInv
<1>5. CASE \/ \E k \in Chunks : Produce(k)
           \/ ReadFails \/ UpstreamEnds \/ OfferAbandoned \/ HangUp \/ Tick
  <2>1. /\ UNCHANGED <<dialect, pump, armed, accounted, delivered, notes>>
        /\ published => published'
        /\ inner = "closed" => /\ UNCHANGED <<inner, produced, published>>
        /\ hungUp => hungUp'
    <3>1. CASE \E k \in Chunks : Produce(k)
      BY <3>1 DEF Produce, pumpVars, TypeOK, StreamOK
    <3>2. CASE ReadFails \/ UpstreamEnds \/ OfferAbandoned
      BY <3>2 DEF ReadFails, UpstreamEnds, OfferAbandoned, pumpVars
    <3>3. CASE HangUp \/ Tick
      BY <3>3 DEF HangUp, Tick, pumpVars, streamVars
    <3> QED BY <1>5, <3>1, <3>2, <3>3
  <2> QED BY <2>1 DEF SaidInv, EndingNamed, Said
<1>6. CloseSeen \/ Fire => pump \in {"receive", "forward"}
  BY DEF CloseSeen, Fire
<1>7. GiveUp => pump \in {"receive", "forward", "reporting"}
  BY DEF GiveUp
<1> QED BY <1>1, <1>2, <1>3, <1>4, <1>5, <1>6, <1>7 DEF Next, PumpNext

\* What is said of how a stream ended is said once, and is true of it.
THEOREM EndingIsNamed == Spec => []EndingNamed
<1>1. Init => LedgerInv /\ SaidInv
  <2>1. ASSUME Init PROVE LedgerInv /\ SaidInv
    <3>1. notes = <<>> /\ Len(notes) = 0 /\ DOMAIN notes = {}
      BY <2>1 DEF Init
    <3> QED BY <2>1, <3>1 DEF Init, LedgerInv, SaidInv, EndingNamed, Said
  <2> QED BY <2>1
<1>2. TypeOK /\ FlowInv /\ EndInv /\ LedgerInv /\ SaidInv /\ [Next]_vars => LedgerInv' /\ SaidInv'
  <2>1. UNCHANGED vars /\ LedgerInv => LedgerInv'
    BY DEF vars, pumpVars, streamVars, LedgerInv, Opens, Settles
  <2>2. UNCHANGED vars /\ SaidInv => SaidInv'
    BY DEF vars, pumpVars, streamVars, SaidInv, EndingNamed, Said
  <2> QED BY <2>1, <2>2, LedgerStep, SaidStep
<1>3. SaidInv => EndingNamed
  BY DEF SaidInv
<1> QED BY <1>1, <1>2, <1>3, TypeCorrect, FlowCorrect, PTL DEF Spec

----------------------------------------------------------------------------
(* The shared setup.                                                       *)

Before     == {"away", "look", "waiting"}
Attempting == {"dial", "handshake", "preface", "pause"}
Places     == Before \cup Attempting
                \cup {"settle", "announce", "wire", "stream", "evict", "over"}
Nobody     == Requests \cup {NoRequest}

PlaceTypes == place \in [Requests -> Places] /\ pending \in Nobody
              /\ awaits \in [Requests -> Nobody]
AttemptTypes == attempt \in [Requests -> [n : Nat, cut : BOOLEAN]]
OwnTypes ==
    /\ uses \in [Requests -> Nobody]
    /\ outcome \in [Requests -> {"none", "ended", "exhausted", "panic", "answered", "failed"}]
    /\ sent \in [Requests -> Nat]
    /\ socket \in [Requests -> {"none", "open", "closed"}]
SetTypes == ended \subseteq Requests /\ guarded \subseteq Requests
            /\ closed \subseteq Requests /\ dead \subseteq Requests /\ connections \in Nobody

SetupTypes == PlaceTypes /\ AttemptTypes /\ OwnTypes /\ SetTypes

\* What a request has by where it is.
UsesOK(r) ==
    /\ place[r] \in Before \cup Attempting => uses[r] = NoRequest
    /\ place[r] \in {"wire", "stream", "evict"} => uses[r] \in Requests

\* Its own connection, and that one's guard.
SocketOK(r) ==
    /\ place[r] \in Before \cup {"dial"} => socket[r] = "none" /\ r \notin guarded
    /\ place[r] = "pause" => r \notin guarded
    /\ uses[r] = r => socket[r] = "open" /\ r \notin guarded
    /\ socket[r] = "open" => uses[r] = r \/ r \in guarded

\* What it ended with, and what was sent of it.
OutcomeOK(r) ==
    /\ outcome[r] = "ended" => r \in ended
    /\ outcome[r] = "exhausted" =>
          attempt[r].n = connectAttempts /\ place[r] \notin Before \cup Attempting
    /\ outcome[r] = "failed" => place[r] = "over"
SentOK(r) ==
    /\ sent[r] \in {0, 1}
    /\ sent[r] = 1 => place[r] \in {"stream", "evict", "over"} /\ uses[r] \in Requests

Own(r) == UsesOK(r) /\ SocketOK(r) /\ OutcomeOK(r) /\ SentOK(r)

OneSetsUp == \A r \in Requests : pending = r <=> place[r] \in SettingUp

Awaited ==
    \A r \in Requests : place[r] = "waiting" =>
        /\ awaits[r] \in Requests
        /\ awaits[r] \in closed \/ place[awaits[r]] \in SettingUp \cup {"announce"}

\* A connection that is whole, and has failed nobody.
Good(c) == uses[c] = c /\ place[c] # "settle" /\ c \notin dead
           /\ \A r \in Requests : uses[r] = c => outcome[r] # "failed"

KeptOK ==
    /\ connections # NoRequest => uses[connections] = connections
    /\ pending # NoRequest => ~CanTakeNewRequest(connections)
    /\ \A c \in Requests : Good(c) => connections = c

SetupInv == SetupTypes /\ (\A r \in Requests : Own(r)) /\ OneSetsUp /\ Awaited /\ KeptOK

----------------------------------------------------------------------------
\* The property, from the invariant.
LEMMA SharedFollows == SetupInv => Shared
<1> USE DEF SetupInv, OneSetsUp, Awaited, KeptOK, Own
<1> SUFFICES ASSUME SetupInv PROVE Shared
  OBVIOUS
<1>1. ASSUME NEW r \in Requests
      PROVE  /\ outcome[r] = "ended" => r \in ended
             /\ outcome[r] = "exhausted" => attempt[r].n = connectAttempts
             /\ sent[r] <= 1 /\ (sent[r] = 1 => uses[r] # NoRequest)
  BY SetupAssumption DEF OutcomeOK, SentOK
<1>2. ASSUME NEW c \in Requests
      PROVE  /\ uses[c] = c => socket[c] = "open"
             /\ place[c] \in {"pause", "over"} /\ socket[c] = "open" => uses[c] = c \/ c \in guarded
  BY DEF SocketOK
<1>3. \A c \in Requests :
         uses[c] = c /\ place[c] # "settle" /\ c \notin dead
            /\ (\A r \in Requests : uses[r] = c => outcome[r] # "failed")
         => connections = c
  BY DEF Good
<1> QED
  BY <1>1, <1>2, <1>3 DEF Shared

\* Where requests are, who sets up and who waits for whom.
LEMMA PlaceTyped ==
    ASSUME PlaceTypes, [SetupNext]_setupVars
    PROVE  PlaceTypes'
<1> USE DEF PlaceTypes, Places, Before, Attempting, Nobody, setupVars, attemptVars,
      sharedVars, ownVars
<1>1. ASSUME NEW r \in Requests, getOrCreateConnection(r)
     PROVE  PlaceTypes'
  BY <1>1 DEF getOrCreateConnection, Reuse, Wait, Create, Wake, LeaveWait, Moves, Only,
      Finishes, Begun
<1>2. ASSUME NEW r \in Requests, Dial(r) \/ TLSHandshake(r) \/ HandOver(r)
     PROVE  PlaceTypes'
  BY <1>2 DEF Dial, TLSHandshake, HandOver, Moves, Only
<1>3. ASSUME NEW r \in Requests, NEW phase \in {"dial", "handshake", "preface"},
            Fails(r, phase) \/ Panics(r, phase)
     PROVE  PlaceTypes'
  BY <1>3 DEF Fails, Panics, Moves, Abandon
<1>4. ASSUME NEW r \in Requests, createConnection(r) \/ Deferred(r)
     PROVE  PlaceTypes'
  BY <1>4 DEF createConnection, Again, GiveUpPause, Deferred, Settle, Announce, Moves,
      Begun
<1>5. ASSUME NEW r \in Requests, RoundTrip(r)
     PROVE  PlaceTypes'
  BY <1>5 DEF RoundTrip, Send, Answered, Broken, Evict, Moves, Only, Finishes
<1>6. ASSUME NEW r \in Requests, Arrive(r) \/ RequestEnds(r) \/ TimesOut(r) \/ GuardCloses(r) \/ Dies(r)
     PROVE  PlaceTypes'
  BY <1>6 DEF Arrive, RequestEnds, TimesOut, GuardCloses, Dies, Moves, Only
<1>7. CASE UNCHANGED setupVars
  BY <1>7
<1> QED
  BY <1>1, <1>2, <1>3, <1>4, <1>5, <1>6, <1>7
  DEF SetupNext, connectOnce

\* Attempts are counted.
LEMMA AttemptTyped ==
    ASSUME AttemptTypes, [SetupNext]_setupVars
    PROVE  AttemptTypes'
<1> USE DEF AttemptTypes, setupVars, attemptVars, sharedVars, ownVars
<1>1. ASSUME NEW r \in Requests, Create(r)
     PROVE  AttemptTypes'
  BY <1>1 DEF Create, Begun
<1>2. ASSUME NEW r \in Requests, Reuse(r) \/ Wait(r) \/ Wake(r) \/ LeaveWait(r)
     PROVE  AttemptTypes'
  BY <1>2 DEF Reuse, Wait, Wake, LeaveWait, Only
<1>3. ASSUME NEW r \in Requests, Dial(r) \/ TLSHandshake(r) \/ HandOver(r)
     PROVE  AttemptTypes'
  BY <1>3 DEF Dial, TLSHandshake, HandOver, Moves, Only
<1>4. ASSUME NEW r \in Requests, NEW phase \in {"dial", "handshake", "preface"},
            Fails(r, phase) \/ Panics(r, phase)
     PROVE  AttemptTypes'
  BY <1>4 DEF Fails, Panics, Moves, Abandon
<1>5. ASSUME NEW r \in Requests, Again(r)
     PROVE  AttemptTypes'
  BY <1>5 DEF Again, Begun
<1>6. ASSUME NEW r \in Requests, GiveUpPause(r) \/ Deferred(r)
     PROVE  AttemptTypes'
  BY <1>6 DEF GiveUpPause, Deferred, Settle, Announce
<1>7. ASSUME NEW r \in Requests, RoundTrip(r)
     PROVE  AttemptTypes'
  BY <1>7 DEF RoundTrip, Send, Answered, Broken, Evict, Moves, Only, Finishes
<1>8. ASSUME NEW r \in Requests, Arrive(r) \/ RequestEnds(r) \/ TimesOut(r) \/ GuardCloses(r) \/ Dies(r)
     PROVE  AttemptTypes'
  BY <1>8 DEF Arrive, RequestEnds, TimesOut, GuardCloses, Dies, Moves, Only
<1>9. CASE UNCHANGED setupVars
  BY <1>9
<1> QED
  BY <1>1, <1>2, <1>3, <1>4, <1>5, <1>6, <1>7, <1>8, <1>9
  DEF SetupNext, connectOnce, getOrCreateConnection, createConnection

\* What each request has.
LEMMA OwnTyped ==
    ASSUME OwnTypes, SetTypes, [SetupNext]_setupVars
    PROVE  OwnTypes'
<1> USE DEF OwnTypes, SetTypes, Nobody, setupVars, attemptVars, sharedVars, ownVars
<1>1. ASSUME NEW r \in Requests, getOrCreateConnection(r)
     PROVE  OwnTypes'
  BY <1>1 DEF getOrCreateConnection, Reuse, Wait, Create, Wake, LeaveWait, Moves, Only,
      Finishes, Begun
<1>2. ASSUME NEW r \in Requests, Dial(r) \/ TLSHandshake(r) \/ HandOver(r)
     PROVE  OwnTypes'
  BY <1>2 DEF Dial, TLSHandshake, HandOver, Moves, Only
<1>3. ASSUME NEW r \in Requests, NEW phase \in {"dial", "handshake", "preface"},
            Fails(r, phase) \/ Panics(r, phase)
     PROVE  OwnTypes'
  BY <1>3 DEF Fails, Panics, Moves, Abandon
<1>4. ASSUME NEW r \in Requests, createConnection(r) \/ Deferred(r)
     PROVE  OwnTypes'
  BY <1>4 DEF createConnection, Again, GiveUpPause, Deferred, Settle, Announce, Moves,
      Begun
<1>5. ASSUME NEW r \in Requests, RoundTrip(r)
     PROVE  OwnTypes'
  BY <1>5 DEF RoundTrip, Send, Answered, Broken, Evict, Moves, Only, Finishes
<1>6. ASSUME NEW r \in Requests, Arrive(r) \/ RequestEnds(r) \/ TimesOut(r) \/ GuardCloses(r) \/ Dies(r)
     PROVE  OwnTypes'
  BY <1>6 DEF Arrive, RequestEnds, TimesOut, GuardCloses, Dies, Moves, Only
<1>7. CASE UNCHANGED setupVars
  BY <1>7
<1> QED
  BY <1>1, <1>2, <1>3, <1>4, <1>5, <1>6, <1>7
  DEF SetupNext, connectOnce

\* What the requests share.
LEMMA SetsTyped ==
    ASSUME OwnTypes, SetTypes, [SetupNext]_setupVars
    PROVE  SetTypes'
<1> USE DEF OwnTypes, SetTypes, Nobody, setupVars, attemptVars, sharedVars, ownVars
<1>1. ASSUME NEW r \in Requests, getOrCreateConnection(r)
     PROVE  SetTypes'
  BY <1>1 DEF getOrCreateConnection, Reuse, Wait, Create, Wake, LeaveWait, Moves, Only,
      Finishes, Begun
<1>2. ASSUME NEW r \in Requests, Dial(r) \/ TLSHandshake(r) \/ HandOver(r)
     PROVE  SetTypes'
  BY <1>2 DEF Dial, TLSHandshake, HandOver, Moves, Only
<1>3. ASSUME NEW r \in Requests, NEW phase \in {"dial", "handshake", "preface"},
            Fails(r, phase) \/ Panics(r, phase)
     PROVE  SetTypes'
  BY <1>3 DEF Fails, Panics, Moves, Abandon
<1>4. ASSUME NEW r \in Requests, createConnection(r) \/ Deferred(r)
     PROVE  SetTypes'
  BY <1>4 DEF createConnection, Again, GiveUpPause, Deferred, Settle, Announce, Moves,
      Begun
<1>5. ASSUME NEW r \in Requests, RoundTrip(r)
     PROVE  SetTypes'
  BY <1>5 DEF RoundTrip, Send, Answered, Broken, Evict, Moves, Only, Finishes
<1>6. ASSUME NEW r \in Requests, Arrive(r) \/ RequestEnds(r) \/ TimesOut(r) \/ GuardCloses(r) \/ Dies(r)
     PROVE  SetTypes'
  BY <1>6 DEF Arrive, RequestEnds, TimesOut, GuardCloses, Dies, Moves, Only
<1>7. CASE UNCHANGED setupVars
  BY <1>7
<1> QED
  BY <1>1, <1>2, <1>3, <1>4, <1>5, <1>6, <1>7
  DEF SetupNext, connectOnce

\* Nothing is used before there is something, and something from then on: what is
\* kept was handed out.
LEMMA UsesStep ==
    ASSUME PlaceTypes, OwnTypes, SetTypes, \A s \in Requests : UsesOK(s), [SetupNext]_setupVars
    PROVE  \A s \in Requests : UsesOK(s)'
<1> USE SetupAssumption DEF PlaceTypes, OwnTypes, SetTypes, Places, Before, Attempting,
      Nobody, UsesOK, CanTakeNewRequest, setupVars, attemptVars, sharedVars, ownVars
<1>1. ASSUME NEW r \in Requests, getOrCreateConnection(r)
     PROVE  \A s \in Requests : UsesOK(s)'
  BY <1>1 DEF getOrCreateConnection, Reuse, Wait, Create, Wake, LeaveWait, Moves, Only,
      Finishes, Begun
<1>2. ASSUME NEW r \in Requests, Dial(r) \/ TLSHandshake(r) \/ HandOver(r)
     PROVE  \A s \in Requests : UsesOK(s)'
  BY <1>2 DEF Dial, TLSHandshake, HandOver, Moves, Only
<1>3. ASSUME NEW r \in Requests, NEW phase \in {"dial", "handshake", "preface"},
            Fails(r, phase) \/ Panics(r, phase)
     PROVE  \A s \in Requests : UsesOK(s)'
  BY <1>3 DEF Fails, Panics, Moves, Abandon
<1>4. ASSUME NEW r \in Requests, createConnection(r) \/ Deferred(r)
     PROVE  \A s \in Requests : UsesOK(s)'
  BY <1>4 DEF createConnection, Again, GiveUpPause, Deferred, Settle, Announce, Moves,
      Begun
<1>5. ASSUME NEW r \in Requests, RoundTrip(r)
     PROVE  \A s \in Requests : UsesOK(s)'
  BY <1>5 DEF RoundTrip, Send, Answered, Broken, Evict, Moves, Only, Finishes
<1>6. ASSUME NEW r \in Requests, Arrive(r) \/ RequestEnds(r) \/ TimesOut(r) \/ GuardCloses(r) \/ Dies(r)
     PROVE  \A s \in Requests : UsesOK(s)'
  BY <1>6 DEF Arrive, RequestEnds, TimesOut, GuardCloses, Dies, Moves, Only
<1>7. CASE UNCHANGED setupVars
  BY <1>7
<1> QED
  BY <1>1, <1>2, <1>3, <1>4, <1>5, <1>6, <1>7
  DEF SetupNext, connectOnce

\* A connection is guarded, closed or handed out.
LEMMA SocketStep ==
    ASSUME PlaceTypes, OwnTypes, SetTypes, \A s \in Requests : UsesOK(s),
           KeptOK, \A s \in Requests : SocketOK(s), [SetupNext]_setupVars
    PROVE  \A s \in Requests : SocketOK(s)'
<1> USE SetupAssumption DEF PlaceTypes, OwnTypes, SetTypes, Places, Before, Attempting,
      Nobody, UsesOK, SocketOK, KeptOK, CanTakeNewRequest, setupVars, attemptVars,
      sharedVars, ownVars
<1>1. ASSUME NEW r \in Requests, getOrCreateConnection(r)
     PROVE  \A s \in Requests : SocketOK(s)'
  BY <1>1 DEF getOrCreateConnection, Reuse, Wait, Create, Wake, LeaveWait, Moves, Only,
      Finishes, Begun
<1>2. ASSUME NEW r \in Requests, Dial(r) \/ TLSHandshake(r) \/ HandOver(r)
     PROVE  \A s \in Requests : SocketOK(s)'
  BY <1>2 DEF Dial, TLSHandshake, HandOver, Moves, Only
<1>3. ASSUME NEW r \in Requests, NEW phase \in {"dial", "handshake", "preface"},
            Fails(r, phase) \/ Panics(r, phase)
     PROVE  \A s \in Requests : SocketOK(s)'
  BY <1>3 DEF Fails, Panics, Moves, Abandon
<1>4. ASSUME NEW r \in Requests, createConnection(r) \/ Deferred(r)
     PROVE  \A s \in Requests : SocketOK(s)'
  BY <1>4 DEF createConnection, Again, GiveUpPause, Deferred, Settle, Announce, Moves,
      Begun
<1>5. ASSUME NEW r \in Requests, RoundTrip(r)
     PROVE  \A s \in Requests : SocketOK(s)'
  BY <1>5 DEF RoundTrip, Send, Answered, Broken, Evict, Moves, Only, Finishes
<1>6. ASSUME NEW r \in Requests, Arrive(r) \/ RequestEnds(r) \/ TimesOut(r) \/ GuardCloses(r) \/ Dies(r)
     PROVE  \A s \in Requests : SocketOK(s)'
  BY <1>6 DEF Arrive, RequestEnds, TimesOut, GuardCloses, Dies, Moves, Only
<1>7. CASE UNCHANGED setupVars
  BY <1>7
<1> QED
  BY <1>1, <1>2, <1>3, <1>4, <1>5, <1>6, <1>7
  DEF SetupNext, connectOnce

\* What a request is told is its own doing.
LEMMA OutcomeStep ==
    ASSUME PlaceTypes, AttemptTypes, OwnTypes, SetTypes, \A s \in Requests : OutcomeOK(s), [SetupNext]_setupVars
    PROVE  \A s \in Requests : OutcomeOK(s)'
<1> USE DEF PlaceTypes, OwnTypes, SetTypes, Places, Before, Attempting, Nobody,
      AttemptTypes, OutcomeOK, setupVars, attemptVars, sharedVars, ownVars
<1>1. ASSUME NEW r \in Requests, getOrCreateConnection(r)
     PROVE  \A s \in Requests : OutcomeOK(s)'
  BY <1>1 DEF getOrCreateConnection, Reuse, Wait, Create, Wake, LeaveWait, Moves, Only,
      Finishes, Begun
<1>2. ASSUME NEW r \in Requests, Dial(r) \/ TLSHandshake(r) \/ HandOver(r)
     PROVE  \A s \in Requests : OutcomeOK(s)'
  BY <1>2 DEF Dial, TLSHandshake, HandOver, Moves, Only
<1>3. ASSUME NEW r \in Requests, NEW phase \in {"dial", "handshake", "preface"},
            Fails(r, phase) \/ Panics(r, phase)
     PROVE  \A s \in Requests : OutcomeOK(s)'
  BY <1>3 DEF Fails, Panics, Moves, Abandon
<1>4. ASSUME NEW r \in Requests, createConnection(r) \/ Deferred(r)
     PROVE  \A s \in Requests : OutcomeOK(s)'
  BY <1>4 DEF createConnection, Again, GiveUpPause, Deferred, Settle, Announce, Moves,
      Begun
<1>5. ASSUME NEW r \in Requests, RoundTrip(r)
     PROVE  \A s \in Requests : OutcomeOK(s)'
  BY <1>5 DEF RoundTrip, Send, Answered, Broken, Evict, Moves, Only, Finishes
<1>6. ASSUME NEW r \in Requests, Arrive(r) \/ RequestEnds(r) \/ TimesOut(r) \/ GuardCloses(r) \/ Dies(r)
     PROVE  \A s \in Requests : OutcomeOK(s)'
  BY <1>6 DEF Arrive, RequestEnds, TimesOut, GuardCloses, Dies, Moves, Only
<1>7. CASE UNCHANGED setupVars
  BY <1>7
<1> QED
  BY <1>1, <1>2, <1>3, <1>4, <1>5, <1>6, <1>7
  DEF SetupNext, connectOnce

\* Nothing is sent twice.
LEMMA SentStep ==
    ASSUME PlaceTypes, OwnTypes, SetTypes, \A s \in Requests : UsesOK(s),
           \A s \in Requests : SentOK(s), [SetupNext]_setupVars
    PROVE  \A s \in Requests : SentOK(s)'
<1> USE SetupAssumption DEF PlaceTypes, OwnTypes, SetTypes, Places, Before, Attempting,
      Nobody, UsesOK, SentOK, setupVars, attemptVars, sharedVars, ownVars
<1>1. ASSUME NEW r \in Requests, getOrCreateConnection(r)
     PROVE  \A s \in Requests : SentOK(s)'
  BY <1>1 DEF getOrCreateConnection, Reuse, Wait, Create, Wake, LeaveWait, Moves, Only,
      Finishes, Begun
<1>2. ASSUME NEW r \in Requests, Dial(r) \/ TLSHandshake(r) \/ HandOver(r)
     PROVE  \A s \in Requests : SentOK(s)'
  BY <1>2 DEF Dial, TLSHandshake, HandOver, Moves, Only
<1>3. ASSUME NEW r \in Requests, NEW phase \in {"dial", "handshake", "preface"},
            Fails(r, phase) \/ Panics(r, phase)
     PROVE  \A s \in Requests : SentOK(s)'
  BY <1>3 DEF Fails, Panics, Moves, Abandon
<1>4. ASSUME NEW r \in Requests, createConnection(r) \/ Deferred(r)
     PROVE  \A s \in Requests : SentOK(s)'
  BY <1>4 DEF createConnection, Again, GiveUpPause, Deferred, Settle, Announce, Moves,
      Begun
<1>5. ASSUME NEW r \in Requests, RoundTrip(r)
     PROVE  \A s \in Requests : SentOK(s)'
  BY <1>5 DEF RoundTrip, Send, Answered, Broken, Evict, Moves, Only, Finishes
<1>6. ASSUME NEW r \in Requests, Arrive(r) \/ RequestEnds(r) \/ TimesOut(r) \/ GuardCloses(r) \/ Dies(r)
     PROVE  \A s \in Requests : SentOK(s)'
  BY <1>6 DEF Arrive, RequestEnds, TimesOut, GuardCloses, Dies, Moves, Only
<1>7. CASE UNCHANGED setupVars
  BY <1>7
<1> QED
  BY <1>1, <1>2, <1>3, <1>4, <1>5, <1>6, <1>7
  DEF SetupNext, connectOnce

\* Only who finds nobody at it begins to set up.
LEMMA OneSetsUpStep ==
    ASSUME PlaceTypes, OneSetsUp, [SetupNext]_setupVars
    PROVE  OneSetsUp'
<1> USE SetupAssumption DEF PlaceTypes, Places, Before, Attempting, Nobody, OneSetsUp,
      SettingUp, setupVars, attemptVars, sharedVars, ownVars
<1>1. ASSUME NEW r \in Requests, getOrCreateConnection(r)
     PROVE  OneSetsUp'
  BY <1>1 DEF getOrCreateConnection, Reuse, Wait, Create, Wake, LeaveWait, Moves, Only,
      Finishes, Begun
<1>2. ASSUME NEW r \in Requests, Dial(r) \/ TLSHandshake(r) \/ HandOver(r)
     PROVE  OneSetsUp'
  BY <1>2 DEF Dial, TLSHandshake, HandOver, Moves, Only
<1>3. ASSUME NEW r \in Requests, NEW phase \in {"dial", "handshake", "preface"},
            Fails(r, phase) \/ Panics(r, phase)
     PROVE  OneSetsUp'
  BY <1>3 DEF Fails, Panics, Moves, Abandon
<1>4. ASSUME NEW r \in Requests, createConnection(r) \/ Deferred(r)
     PROVE  OneSetsUp'
  BY <1>4 DEF createConnection, Again, GiveUpPause, Deferred, Settle, Announce, Moves,
      Begun
<1>5. ASSUME NEW r \in Requests, RoundTrip(r)
     PROVE  OneSetsUp'
  BY <1>5 DEF RoundTrip, Send, Answered, Broken, Evict, Moves, Only, Finishes
<1>6. ASSUME NEW r \in Requests, Arrive(r) \/ RequestEnds(r) \/ TimesOut(r) \/ GuardCloses(r) \/ Dies(r)
     PROVE  OneSetsUp'
  BY <1>6 DEF Arrive, RequestEnds, TimesOut, GuardCloses, Dies, Moves, Only
<1>7. CASE UNCHANGED setupVars
  BY <1>7
<1> QED
  BY <1>1, <1>2, <1>3, <1>4, <1>5, <1>6, <1>7
  DEF SetupNext, connectOnce

\* A creator that leaves its setup announces it.
LEMMA AwaitedStep ==
    ASSUME PlaceTypes, SetTypes, OneSetsUp, Awaited, [SetupNext]_setupVars
    PROVE  Awaited'
<1> USE SetupAssumption DEF PlaceTypes, SetTypes, Places, Before, Attempting, Nobody,
      OneSetsUp, Awaited, SettingUp, setupVars, attemptVars, sharedVars, ownVars
<1>1. ASSUME NEW r \in Requests, getOrCreateConnection(r)
     PROVE  Awaited'
  BY <1>1 DEF getOrCreateConnection, Reuse, Wait, Create, Wake, LeaveWait, Moves, Only,
      Finishes, Begun
<1>2. ASSUME NEW r \in Requests, Dial(r) \/ TLSHandshake(r) \/ HandOver(r)
     PROVE  Awaited'
  BY <1>2 DEF Dial, TLSHandshake, HandOver, Moves, Only
<1>3. ASSUME NEW r \in Requests, NEW phase \in {"dial", "handshake", "preface"},
            Fails(r, phase) \/ Panics(r, phase)
     PROVE  Awaited'
  BY <1>3 DEF Fails, Panics, Moves, Abandon
<1>4. ASSUME NEW r \in Requests, createConnection(r) \/ Deferred(r)
     PROVE  Awaited'
  BY <1>4 DEF createConnection, Again, GiveUpPause, Deferred, Settle, Announce, Moves,
      Begun
<1>5. ASSUME NEW r \in Requests, RoundTrip(r)
     PROVE  Awaited'
  BY <1>5 DEF RoundTrip, Send, Answered, Broken, Evict, Moves, Only, Finishes
<1>6. ASSUME NEW r \in Requests, Arrive(r) \/ RequestEnds(r) \/ TimesOut(r) \/ GuardCloses(r) \/ Dies(r)
     PROVE  Awaited'
  BY <1>6 DEF Arrive, RequestEnds, TimesOut, GuardCloses, Dies, Moves, Only
<1>7. CASE UNCHANGED setupVars
  BY <1>7
<1> QED
  BY <1>1, <1>2, <1>3, <1>4, <1>5, <1>6, <1>7
  DEF SetupNext, connectOnce

\* Nobody sets up while something usable is kept, so nothing displaces it.
LEMMA KeptStep ==
    ASSUME PlaceTypes, OwnTypes, SetTypes, \A s \in Requests : UsesOK(s),
           \A s \in Requests : OutcomeOK(s), OneSetsUp, KeptOK, [SetupNext]_setupVars
    PROVE  KeptOK'
<1> USE SetupAssumption DEF PlaceTypes, OwnTypes, SetTypes, Places, Before, Attempting,
      Nobody, UsesOK, OutcomeOK, OneSetsUp, KeptOK, Good, CanTakeNewRequest, SettingUp,
      setupVars, attemptVars, sharedVars, ownVars
<1>1. ASSUME NEW r \in Requests, getOrCreateConnection(r)
     PROVE  KeptOK'
  BY <1>1 DEF getOrCreateConnection, Reuse, Wait, Create, Wake, LeaveWait, Moves, Only,
      Finishes, Begun
<1>2. ASSUME NEW r \in Requests, Dial(r) \/ TLSHandshake(r) \/ HandOver(r)
     PROVE  KeptOK'
  BY <1>2 DEF Dial, TLSHandshake, HandOver, Moves, Only
<1>3. ASSUME NEW r \in Requests, NEW phase \in {"dial", "handshake", "preface"},
            Fails(r, phase) \/ Panics(r, phase)
     PROVE  KeptOK'
  BY <1>3 DEF Fails, Panics, Moves, Abandon
<1>4. ASSUME NEW r \in Requests, createConnection(r) \/ Deferred(r)
     PROVE  KeptOK'
  BY <1>4 DEF createConnection, Again, GiveUpPause, Deferred, Settle, Announce, Moves,
      Begun
<1>5. ASSUME NEW r \in Requests, RoundTrip(r)
     PROVE  KeptOK'
  BY <1>5 DEF RoundTrip, Send, Answered, Broken, Evict, Moves, Only, Finishes
<1>6. ASSUME NEW r \in Requests, Arrive(r) \/ RequestEnds(r) \/ TimesOut(r) \/ GuardCloses(r) \/ Dies(r)
     PROVE  KeptOK'
  BY <1>6 DEF Arrive, RequestEnds, TimesOut, GuardCloses, Dies, Moves, Only
<1>7. CASE UNCHANGED setupVars
  BY <1>7
<1> QED
  BY <1>1, <1>2, <1>3, <1>4, <1>5, <1>6, <1>7
  DEF SetupNext, connectOnce

----------------------------------------------------------------------------
\* The invariant always holds.
LEMMA Invariant == SetupSpec => []SetupInv
<1> USE SetupAssumption DEF SetupInv, SetupTypes, Own
<1>1. SetupInit => SetupInv
  <2> SUFFICES ASSUME SetupInit PROVE SetupInv
    OBVIOUS
  <2>1. PlaceTypes /\ AttemptTypes /\ OwnTypes /\ SetTypes
    BY DEF SetupInit, PlaceTypes, AttemptTypes, OwnTypes, SetTypes, Places, Before, Nobody
  <2>2. ASSUME NEW r \in Requests PROVE Own(r)
    <3>1. UsesOK(r) /\ SentOK(r)
      BY DEF SetupInit, UsesOK, SentOK, Before, Attempting
    <3>2. SocketOK(r) /\ OutcomeOK(r)
      BY DEF SetupInit, SocketOK, OutcomeOK
    <3> QED
      BY <3>1, <3>2
  <2>3. OneSetsUp /\ Awaited
    BY DEF SetupInit, OneSetsUp, Awaited, SettingUp
  <2>4. KeptOK
    BY DEF SetupInit, KeptOK, Good
  <2> QED
    BY <2>1, <2>2, <2>3, <2>4
<1>2. SetupInv /\ [SetupNext]_setupVars => SetupInv'
  <2> SUFFICES ASSUME SetupInv, [SetupNext]_setupVars PROVE SetupInv'
    OBVIOUS
  <2>1. SetupTypes'
    BY PlaceTyped, AttemptTyped, OwnTyped, SetsTyped
  <2>2. (\A s \in Requests : UsesOK(s)') /\ (\A s \in Requests : SocketOK(s)')
    BY UsesStep, SocketStep
  <2>3. (\A s \in Requests : OutcomeOK(s)') /\ (\A s \in Requests : SentOK(s)')
    BY OutcomeStep, SentStep
  <2>4. OneSetsUp' /\ Awaited' /\ KeptOK'
    BY OneSetsUpStep, AwaitedStep, KeptStep
  <2> QED
    BY <2>1, <2>2, <2>3, <2>4
<1> QED
  BY <1>1, <1>2, PTL DEF SetupSpec

\* One request sets up at a time, whoever waits is going to be released, nobody
\* fails by another's end or is sent twice, and what was handed out stays open and
\* kept (getOrCreateConnection, connectOnce, RoundTrip).
THEOREM SetupIsShared == SetupSpec => []Shared
BY Invariant, SharedFollows, PTL
=============================================================================
