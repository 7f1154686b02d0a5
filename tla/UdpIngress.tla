------------------------------ MODULE UdpIngress ------------------------------
(***************************************************************************)
(* svdc-bin's live feed (--ingress-udp): a receive thread decodes          *)
(* datagrams into a bounded ring; an aligner thread pops them, notes the   *)
(* merging unit, makes a tick and counts it.  Operators may tamper with    *)
(* the shared buffer or reset it and its counters at any moment: neither   *)
(* handler looks whether the feed is an external one.                      *)
(***************************************************************************)
EXTENDS TickBuffer, FiniteSets

CONSTANTS
  RingCapacity,          \* IngressRing::capacity (4096 in the daemon)
  MUs,                   \* the svIDs of the merging units on the wire
  MaxDatagrams,          \* bound: datagrams received
  Operators,             \* POST tamper requests that may be in flight together
  TamperBase,            \* 1_000_000_000: added to the id of a tampered record
  MaxTampers             \* bound: POST tamper requests

ASSUME IngressAssumption ==
  /\ RingCapacity \in Nat \ {0}
  /\ MaxDatagrams \in Nat
  /\ IsFiniteSet(Operators)
  /\ TamperBase \in Nat
  /\ MaxTampers \in Nat

NoFrame == [n |-> 0]     \* a thread's empty hand; datagrams are numbered from 1
NoTamper == -1           \* no request in flight

VARIABLES
  received,              \* history: datagrams recv_from returned
  rejected,              \* history: those the decoder refused
  dropped,               \* history: those the full ring refused
  hand,                  \* the frame the receive thread is about to push
  ring,                  \* IngressRing::inner, frames [n, mu]
  aligner,               \* the aligner thread: pc, its frame, next_tick_id
  seen,                  \* DataPipeline::seen_mus: frame_count per svID
  buf,                   \* DataPipeline::buffer, records [id, n]; n = 0: tampered
  ticksEmitted,          \* DataPipeline::ticks_emitted
  tamper,                \* per request: the id inject_tamper is about to push
  tampers,               \* history: POST tamper requests
  resetter,              \* where DataPipeline::reset is
  log,                   \* history: the frames pushed, in order
  sinceZero,             \* history: pushes since reset last zeroed the counter
  caught                 \* history: who was between push and count at that moment

vars == <<received, rejected, dropped, hand, ring, aligner, seen, buf, ticksEmitted,
          tamper, tampers, resetter, log, sinceZero, caught>>
producerVars == <<received, rejected, dropped, hand>>
outputVars == <<buf, log>>
operatorVars == <<tamper, tampers, resetter, caught>>

Init ==
  /\ received = 0 /\ rejected = {} /\ dropped = {}
  /\ hand = NoFrame
  /\ ring = <<>>
  /\ aligner = [pc |-> "pop", frame |-> NoFrame, next |-> 0]
  /\ seen = [mu \in MUs |-> 0]
  /\ buf = <<>>
  /\ ticksEmitted = 0
  /\ resetter = "idle"
  /\ log = <<>>
  /\ sinceZero = 0
  /\ tamper = [o \in Operators |-> NoTamper]
  /\ tampers = 0
  /\ caught = [aligner |-> FALSE, operators |-> {}]

-------------------------------------------------------------------------------
\* next_frame returned a datagram and decode_l2_stripped accepted it (one ASDU)
\* or refused it (not SV: logged and forgotten).  A timeout changes nothing.
Receive ==
  /\ received < MaxDatagrams
  /\ hand = NoFrame
  /\ received' = received + 1
  /\ \/ \E mu \in MUs : hand' = [n |-> received', mu |-> mu] /\ UNCHANGED rejected
     \/ rejected' = rejected \cup {received'} /\ UNCHANGED hand
  /\ UNCHANGED <<dropped, ring, aligner, seen, outputVars, ticksEmitted,
                 operatorVars, sinceZero>>

\* Mutant of RingAccepts: never full.
RingAcceptsAlways(r) == TRUE

RingAccepts(r) == Len(r) < RingCapacity

\* Mutant of RingAfter: make room by losing the oldest frame.
RingAfterEvicting(r, frame) == Append(IF Len(r) > 0 THEN Tail(r) ELSE r, frame)

RingAfter(r, frame) == Append(r, frame)

\* IngressRing::push; a rejected frame is logged and dropped.
Offer ==
  /\ hand # NoFrame
  /\ hand' = NoFrame
  /\ \/ RingAccepts(ring) /\ ring' = RingAfter(ring, hand) /\ UNCHANGED dropped
     \/ ~RingAccepts(ring) /\ dropped' = dropped \cup {hand.n} /\ UNCHANGED ring
  /\ UNCHANGED <<received, rejected, aligner, seen, outputVars, ticksEmitted,
                 operatorVars, sinceZero>>

-------------------------------------------------------------------------------
\* Mutants of NextIn: the newest frame first; a pop that waits for a second frame.
NextInNewest(r) == Len(r)
NextInLate(r) == IF Len(r) > 1 THEN 1 ELSE 0

\* The position pop takes a frame from (0: the ring is empty).
NextIn(r) == IF Len(r) > 0 THEN 1 ELSE 0

PopRing ==
  /\ aligner.pc = "pop"
  /\ NextIn(ring) # 0
  /\ ring' = SubSeq(ring, 1, NextIn(ring) - 1) \o SubSeq(ring, NextIn(ring) + 1, Len(ring))
  /\ aligner' = [aligner EXCEPT !.pc = "note", !.frame = ring[NextIn(ring)]]
  /\ UNCHANGED <<producerVars, seen, outputVars, ticksEmitted, operatorVars, sinceZero>>


Noted(mu) == [seen EXCEPT ![mu] = @ + 1]

NoteMu ==
  /\ aligner.pc = "note"
  /\ seen' = Noted(aligner.frame.mu)
  /\ aligner' = [aligner EXCEPT !.pc = "push"]
  /\ UNCHANGED <<producerVars, ring, outputVars, ticksEmitted, operatorVars, sinceZero>>

\* Mutant of TickId: the frame's own number (its smpCnt) for the tick's.
TickIdOfFrame(al) == al.frame.n - 1

TickId(al) == al.next

\* process_frame makes one tick of the frame; the buffer takes it.
PushTick ==
  /\ aligner.pc = "push"
  /\ buf' = Push(buf, [id |-> TickId(aligner), n |-> aligner.frame.n])
  /\ log' = Append(log, aligner.frame)
  /\ sinceZero' = sinceZero + 1
  /\ aligner' = [pc |-> "count", frame |-> NoFrame, next |-> aligner.next + 1]
  /\ UNCHANGED <<producerVars, ring, seen, ticksEmitted, operatorVars>>

\* Mutant of Counted: the tick counted twice.
CountedTwice(ticks) == ticks + 2

Counted(ticks) == ticks + 1

\* record_external_tick.
CountTick ==
  /\ aligner.pc = "count"
  /\ ticksEmitted' = Counted(ticksEmitted)
  /\ aligner' = [aligner EXCEPT !.pc = "pop"]
  /\ UNCHANGED <<producerVars, ring, seen, outputVars, operatorVars, sinceZero>>

-------------------------------------------------------------------------------
\* inject_tamper: the counter gives the id, and only then is the record pushed
\* (tamper_count, which comes last, is DataPipeline's concern).
TamperCount(o) ==
  /\ tamper[o] = NoTamper
  /\ tampers < MaxTampers
  /\ tampers' = tampers + 1
  /\ ticksEmitted' = ticksEmitted + 1
  /\ tamper' = [tamper EXCEPT ![o] = TamperBase + ticksEmitted]
  /\ UNCHANGED <<producerVars, ring, aligner, seen, outputVars, resetter, sinceZero, caught>>

TamperPush(o) ==
  /\ tamper[o] # NoTamper
  /\ buf' = Push(buf, [id |-> tamper[o], n |-> 0])
  /\ sinceZero' = sinceZero + 1
  /\ tamper' = [tamper EXCEPT ![o] = NoTamper]
  /\ UNCHANGED <<producerVars, ring, aligner, seen, log, ticksEmitted, tampers, resetter,
                 caught>>

-------------------------------------------------------------------------------
\* Whose record and count are not both done.
Uncounted == aligner.pc = "count"
Tampering == {o \in Operators : tamper[o] # NoTamper}

\* DataPipeline::reset on the operator's request: pops, then the counters.
Reset ==
  /\ resetter = "idle"
  /\ resetter' = "pop"
  /\ UNCHANGED <<producerVars, ring, aligner, seen, outputVars, ticksEmitted, tamper,
                 tampers, sinceZero, caught>>

ResetPop ==
  /\ resetter = "pop"
  /\ IF buf = <<>> THEN resetter' = "zero" /\ UNCHANGED buf
                   ELSE buf' = Tail(buf) /\ UNCHANGED resetter
  /\ UNCHANGED <<producerVars, ring, aligner, seen, log, ticksEmitted, tamper, tampers,
                 sinceZero, caught>>

ResetZero ==
  /\ resetter = "zero"
  /\ ticksEmitted' = 0
  /\ sinceZero' = 0
  /\ caught' = [aligner |-> Uncounted, operators |-> Tampering]
  /\ resetter' = "idle"
  /\ UNCHANGED <<producerVars, ring, aligner, seen, outputVars, tamper, tampers>>

AlignerStep == PopRing \/ NoteMu \/ PushTick \/ CountTick

Next ==
  \/ Receive \/ Offer
  \/ AlignerStep
  \/ \E o \in Operators : TamperCount(o) \/ TamperPush(o)
  \/ Reset \/ ResetPop \/ ResetZero

Spec == Init /\ [][Next]_vars

\* Both OS threads are scheduled for ever; datagrams and requests need not come.
FairSpec == Spec /\ WF_vars(Offer) /\ WF_vars(AlignerStep)

-------------------------------------------------------------------------------
Frame == [n : 1 .. MaxDatagrams, mu : MUs]
InHand == IF hand = NoFrame THEN {} ELSE {hand.n}
Queued == {ring[i].n : i \in DOMAIN ring}
Aligning == IF aligner.frame = NoFrame THEN {} ELSE {aligner.frame.n}
Pushed == {log[i].n : i \in DOMAIN log}

(* Every variable has its type; ring and buffer respect their capacities.  *)
TypeOK ==
  /\ received \in 0 .. MaxDatagrams
  /\ rejected \subseteq 1 .. MaxDatagrams
  /\ dropped \subseteq 1 .. MaxDatagrams
  /\ hand \in Frame \cup {NoFrame}
  /\ ring \in Seq(Frame) /\ Len(ring) <= RingCapacity
  /\ aligner \in [pc : {"pop", "note", "push", "count"}, frame : Frame \cup {NoFrame},
                  next : Nat]
  /\ seen \in [MUs -> Nat]
  /\ buf \in Seq([id : Nat, n : 0 .. MaxDatagrams]) /\ Len(buf) <= Capacity
  /\ ticksEmitted \in Nat
  /\ tamper \in [Operators -> Nat \cup {NoTamper}]
  /\ tampers \in 0 .. MaxTampers
  /\ resetter \in {"idle", "pop", "zero"}
  /\ log \in Seq(Frame)
  /\ sinceZero \in Nat
  /\ caught \in [aligner : BOOLEAN, operators : SUBSET Operators]

(* No frame is lost silently: every datagram received is refused by the    *)
(* decoder, refused by the full ring, on its way, or in the tick log, and  *)
(* in one of these places only (ring.rs: "no silent drop").                *)
NothingLostSilently ==
  /\ rejected \cup dropped \cup InHand \cup Queued \cup Aligning \cup Pushed = 1 .. received
  /\ Cardinality(rejected) + Cardinality(dropped) + Cardinality(InHand) + Len(ring)
       + Cardinality(Aligning) + Len(log) = received

(* Ticks come out in the order their datagrams arrived.                    *)
InArrivalOrder == \A i, j \in DOMAIN log : i < j => log[i].n < log[j].n

(* The counter differs from the records pushed since reset last zeroed it  *)
(* by those who are in between, now and at that moment, and by no more: a  *)
(* tick pushed before the zeroing may be counted after it, a tampered      *)
(* record counted before it pushed after it.  So /south/status is off by   *)
(* one for the aligner and by one for each tamper request in flight.       *)
CounterExplained ==
  ticksEmitted + (IF Uncounted THEN 1 ELSE 0) + Cardinality(caught.operators)
    = sinceZero + (IF caught.aligner THEN 1 ELSE 0) + Cardinality(Tampering)

(* A frame the ring accepted becomes a tick.                               *)
RingDrains == \A n \in 1 .. MaxDatagrams : (n \in Queued) ~> (n \in Pushed)

(* Among the records the ingress put into the buffer, tampered ones mixed  *)
(* in, the ids are consecutive and the oldest always leaves first: what a  *)
(* TickWindow promises.                                                    *)
OwnIds == {buf[i].id : i \in {j \in DOMAIN buf : buf[j].n # 0}}

Ticks == INSTANCE TickWindow WITH window <- OwnIds, next <- aligner.next

ImplementsWindow == Ticks!WindowSpec
===============================================================================
