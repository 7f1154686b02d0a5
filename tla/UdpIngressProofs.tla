--------------------------- MODULE UdpIngressProofs ---------------------------
(***************************************************************************)
(* Machine-checked facts about UdpIngress, for every ring and buffer       *)
(* capacity, every set of merging units and of operators, and every bound  *)
(* on the datagrams and on the tampering.                                  *)
(***************************************************************************)
EXTENDS UdpIngress, TickBufferProofs, FiniteSetTheorems

Rec == [id : Nat, n : 0 .. MaxDatagrams]

Holding == aligner.pc \in {"note", "push"}    \* the aligner has a frame to process

\* A frame is in the aligner's hand from its pop to its push, and only then.
FrameInv == IF Holding THEN aligner.frame \in Frame ELSE aligner.frame = NoFrame

Rising(q) == \A i, j \in DOMAIN q : i < j => q[i].n < q[j].n

\* Datagrams queue up as log, aligner's frame, ring, hand: their numbers rise.
OrderInv ==
  /\ Rising(log) /\ Rising(ring)
  /\ \A i \in DOMAIN log : \A j \in DOMAIN ring : log[i].n < ring[j].n
  /\ Holding => /\ \A i \in DOMAIN log : log[i].n < aligner.frame.n
                /\ \A j \in DOMAIN ring : aligner.frame.n < ring[j].n
  /\ \A i \in DOMAIN log : log[i].n <= received
  /\ \A j \in DOMAIN ring : ring[j].n <= received
  /\ Holding => aligner.frame.n <= received
  /\ hand # NoFrame =>
       /\ hand.n = received
       /\ \A i \in DOMAIN log : log[i].n < received
       /\ \A j \in DOMAIN ring : ring[j].n < received
       /\ Holding => aligner.frame.n < received

-------------------------------------------------------------------------------
LEMMA FrameIsNotNoFrame == \A f \in Frame : f # NoFrame
BY IngressAssumption DEF Frame, NoFrame

LEMMA FrameNumbers ==
  ASSUME NEW q \in Seq(Frame)
  PROVE  \A i \in DOMAIN q : q[i] \in Frame /\ q[i].n \in Int
<1>1. \A i \in DOMAIN q : q[i] \in Frame
  OBVIOUS
<1>2. \A f \in Frame : f.n \in Int
  BY DEF Frame
<1> QED BY <1>1, <1>2

(* Taking the frame at position 1 leaves the tail of the ring.             *)
LEMMA PopShape ==
  ASSUME NEW S, NEW r \in Seq(S), Len(r) > 0
  PROVE  LET q == SubSeq(r, 1, 1 - 1) \o SubSeq(r, 1 + 1, Len(r))
         IN  /\ q \in Seq(S)
             /\ Len(q) = Len(r) - 1
             /\ \A i \in 1 .. (Len(r) - 1) : q[i] = r[i + 1]
<1> DEFINE a == SubSeq(r, 1, 1 - 1)
           b == SubSeq(r, 1 + 1, Len(r))
<1>1. Len(r) \in Nat
  OBVIOUS
<1>2. a \in Seq(S) /\ Len(a) = 0
  BY <1>1
<1>3. b \in Seq(S) /\ Len(b) = Len(r) - 1 /\ \A i \in 1 .. (Len(r) - 1) : b[i] = r[i + 1]
  BY <1>1
<1> HIDE DEF a, b
<1>4. /\ a \o b \in Seq(S) /\ Len(a \o b) = Len(r) - 1
      /\ \A i \in 1 .. (Len(r) - 1) : (a \o b)[i] = b[i]
  BY <1>1, <1>2, <1>3
<1>5. \A i \in 1 .. (Len(r) - 1) : (a \o b)[i] = r[i + 1]
  BY <1>3, <1>4
<1> QED BY <1>4, <1>5 DEF a, b

-------------------------------------------------------------------------------
(* The types, and the aligner's frame, as an inductive invariant.          *)
TypeInv == TypeOK /\ FrameInv

LEMMA TypeInit == Init => TypeInv
<1> SUFFICES ASSUME Init PROVE TypeInv
  OBVIOUS
<1>1. received \in 0 .. MaxDatagrams /\ ticksEmitted \in Nat /\ sinceZero \in Nat
  BY IngressAssumption DEF Init
<1>2. ring \in Seq(Frame) /\ Len(ring) <= RingCapacity /\ log \in Seq(Frame)
  BY IngressAssumption DEF Init
<1>3. buf \in Seq(Rec) /\ Len(buf) <= Capacity
  BY CapacityAssumption DEF Init
<1>4. aligner = [pc |-> "pop", frame |-> NoFrame, next |-> 0]
  BY DEF Init
<1>5. aligner \in [pc : {"pop", "note", "push", "count"}, frame : Frame \cup {NoFrame},
                   next : Nat]
  BY <1>4
<1>6. seen \in [MUs -> Nat]
  BY DEF Init
<1>7. FrameInv
  BY <1>4 DEF FrameInv, Holding
<1>8. /\ tamper \in [Operators -> Nat \cup {NoTamper}] /\ tampers \in 0 .. MaxTampers
      /\ caught \in [aligner : BOOLEAN, operators : SUBSET Operators]
  BY IngressAssumption DEF Init
<1> QED BY <1>1, <1>2, <1>3, <1>5, <1>6, <1>7, <1>8 DEF Init, TypeInv, TypeOK, Rec

LEMMA TypeStep == TypeInv /\ [Next]_vars => TypeInv'
<1> SUFFICES ASSUME TypeInv, [Next]_vars PROVE TypeInv'
  OBVIOUS
<1>t. TypeOK /\ FrameInv
  BY DEF TypeInv
<1>a. /\ aligner \in [pc : {"pop", "note", "push", "count"}, frame : Frame \cup {NoFrame},
                       next : Nat]
      /\ aligner.pc \in {"pop", "note", "push", "count"} /\ aligner.next \in Nat
      /\ aligner.frame \in Frame \cup {NoFrame}
  BY <1>t DEF TypeOK
<1>1. CASE Receive
  <2>1. received' \in 0 .. MaxDatagrams /\ received' \in 1 .. MaxDatagrams
    BY <1>t, <1>1, IngressAssumption DEF Receive, TypeOK
  <2>2. hand' \in Frame \cup {NoFrame} /\ rejected' \subseteq 1 .. MaxDatagrams
    <3>1. CASE \E mu \in MUs : hand' = [n |-> received', mu |-> mu] /\ UNCHANGED rejected
      BY <1>t, <2>1, <3>1 DEF TypeOK, Frame
    <3>2. CASE rejected' = rejected \cup {received'} /\ UNCHANGED hand
      BY <1>t, <2>1, <3>2 DEF TypeOK
    <3> QED BY <1>1, <3>1, <3>2 DEF Receive
  <2>3. UNCHANGED <<dropped, ring, aligner, seen, buf, log, ticksEmitted, resetter, tamper,
                    tampers, sinceZero, caught>>
    BY <1>1 DEF Receive, outputVars, operatorVars
  <2> QED BY <1>t, <2>1, <2>2, <2>3 DEF TypeInv, TypeOK, FrameInv, Holding
<1>2. CASE Offer
  <2>1. hand \in Frame /\ hand.n \in 1 .. MaxDatagrams
    BY <1>t, <1>2 DEF Offer, TypeOK, Frame
  <2>2. ring' \in Seq(Frame) /\ Len(ring') <= RingCapacity /\ dropped' \subseteq 1 .. MaxDatagrams
    <3>1. CASE RingAccepts(ring) /\ ring' = RingAfter(ring, hand) /\ UNCHANGED dropped
      <4>1. ring' \in Seq(Frame) /\ Len(ring') = Len(ring) + 1
        BY <1>t, <2>1, <3>1, AppendShape DEF TypeOK, RingAfter
      <4> QED BY <1>t, <3>1, <4>1, IngressAssumption DEF TypeOK, RingAccepts
    <3>2. CASE dropped' = dropped \cup {hand.n} /\ UNCHANGED ring
      BY <1>t, <2>1, <3>2 DEF TypeOK
    <3> QED BY <1>2, <3>1, <3>2 DEF Offer
  <2>3. /\ hand' = NoFrame
        /\ UNCHANGED <<received, rejected, aligner, seen, buf, log, ticksEmitted, resetter,
                       tamper, tampers, sinceZero, caught>>
    BY <1>2 DEF Offer, outputVars, operatorVars
  <2> QED BY <1>t, <2>2, <2>3 DEF TypeInv, TypeOK, FrameInv, Holding
<1>3. CASE PopRing
  <2>1. Len(ring) > 0 /\ NextIn(ring) = 1
    BY <1>3 DEF PopRing, NextIn
  <2>2. ring \in Seq(Frame) /\ Len(ring) <= RingCapacity
    BY <1>t DEF TypeOK
  <2>3. ring' = SubSeq(ring, 1, 1 - 1) \o SubSeq(ring, 1 + 1, Len(ring))
    BY <1>3, <2>1 DEF PopRing
  <2>4. ring' \in Seq(Frame) /\ Len(ring') = Len(ring) - 1
    BY <2>1, <2>2, <2>3, PopShape
  <2>5. Len(ring') <= RingCapacity
    BY <2>2, <2>4, IngressAssumption
  <2>6. ring[1] \in Frame
    BY <2>1, <2>2
  <2>7. aligner' = [aligner EXCEPT !.pc = "note", !.frame = ring[1]]
    BY <1>3, <2>1 DEF PopRing
  <2>8. /\ aligner' \in [pc : {"pop", "note", "push", "count"}, frame : Frame \cup {NoFrame},
                          next : Nat]
        /\ aligner'.frame \in Frame /\ aligner'.pc = "note"
    BY <1>a, <2>6, <2>7
  <2>9. UNCHANGED <<received, rejected, dropped, hand, seen, buf, log, ticksEmitted, resetter,
                    tamper, tampers, sinceZero, caught>>
    BY <1>3 DEF PopRing, producerVars, outputVars, operatorVars
  <2> QED BY <1>t, <2>4, <2>5, <2>8, <2>9 DEF TypeInv, TypeOK, FrameInv, Holding
<1>4. CASE NoteMu
  <2>1. seen' \in [MUs -> Nat]
    <3>1. seen' = [seen EXCEPT ![aligner.frame.mu] = @ + 1]
      BY <1>4 DEF NoteMu, Noted
    <3>2. seen \in [MUs -> Nat]
      BY <1>t DEF TypeOK
    <3>3. seen' = [m \in MUs |-> IF m = aligner.frame.mu THEN seen[m] + 1 ELSE seen[m]]
      BY <3>1, <3>2
    <3>4. \A m \in MUs : seen[m] \in Nat /\ seen[m] + 1 \in Nat
      BY <3>2
    <3> QED BY <3>3, <3>4
  <2>2. aligner.pc = "note" /\ aligner' = [aligner EXCEPT !.pc = "push"]
    BY <1>4 DEF NoteMu
  <2>3. /\ aligner' \in [pc : {"pop", "note", "push", "count"}, frame : Frame \cup {NoFrame},
                          next : Nat]
        /\ aligner'.frame = aligner.frame /\ aligner'.pc = "push"
    BY <1>a, <2>2
  <2>4. FrameInv'
    BY <1>t, <2>2, <2>3 DEF FrameInv, Holding
  <2>5. UNCHANGED <<received, rejected, dropped, hand, ring, buf, log, ticksEmitted, resetter,
                    tamper, tampers, sinceZero, caught>>
    BY <1>4 DEF NoteMu, producerVars, outputVars, operatorVars
  <2> QED BY <1>t, <2>1, <2>3, <2>4, <2>5 DEF TypeInv, TypeOK
<1>5. CASE PushTick
  <2>1. aligner.frame \in Frame
    BY <1>t, <1>5 DEF PushTick, FrameInv, Holding
  <2>2. PICK r \in Rec : r = [id |-> aligner.next, n |-> aligner.frame.n]
    <3>1. aligner.frame.n \in 0 .. MaxDatagrams
      BY <2>1, IngressAssumption DEF Frame
    <3>2. [id |-> aligner.next, n |-> aligner.frame.n] \in Rec
      BY <1>a, <3>1 DEF Rec
    <3> QED BY <3>2
  <2>3. buf \in Seq(Rec) /\ Len(buf) <= Capacity
    BY <1>t DEF TypeOK, Rec
  <2>4. buf' = Push(buf, r)
    BY <1>5, <2>2 DEF PushTick, TickId
  <2>5. buf' \in Seq(Rec) /\ Len(buf') <= Capacity
    BY <2>3, <2>4, PushShape
  <2>6. log' \in Seq(Frame)
    BY <1>t, <1>5, <2>1, AppendShape DEF PushTick, TypeOK
  <2>7. aligner' = [pc |-> "count", frame |-> NoFrame, next |-> aligner.next + 1]
    BY <1>5 DEF PushTick
  <2>8. /\ aligner' \in [pc : {"pop", "note", "push", "count"}, frame : Frame \cup {NoFrame},
                          next : Nat]
        /\ FrameInv'
    BY <1>a, <2>7 DEF FrameInv, Holding
  <2>9. sinceZero' \in Nat
    BY <1>t, <1>5 DEF PushTick, TypeOK
  <2>10. UNCHANGED <<received, rejected, dropped, hand, ring, seen, ticksEmitted, resetter, tamper,
                    tampers, caught>>
    BY <1>5 DEF PushTick, producerVars, operatorVars
  <2> QED BY <1>t, <2>5, <2>6, <2>8, <2>9, <2>10 DEF TypeInv, TypeOK, Rec
<1>6. CASE CountTick
  <2>1. aligner.pc = "count" /\ aligner' = [aligner EXCEPT !.pc = "pop"]
    BY <1>6 DEF CountTick
  <2>2. /\ aligner' \in [pc : {"pop", "note", "push", "count"}, frame : Frame \cup {NoFrame},
                          next : Nat]
        /\ aligner'.frame = aligner.frame /\ aligner'.pc = "pop"
    BY <1>a, <2>1
  <2>3. FrameInv'
    BY <1>t, <2>1, <2>2 DEF FrameInv, Holding
  <2>4. ticksEmitted' \in Nat
    BY <1>t, <1>6 DEF CountTick, Counted, TypeOK
  <2>5. UNCHANGED <<received, rejected, dropped, hand, ring, seen, buf, log, resetter, tamper,
                    tampers, sinceZero, caught>>
    BY <1>6 DEF CountTick, producerVars, outputVars, operatorVars
  <2> QED BY <1>t, <2>2, <2>3, <2>4, <2>5 DEF TypeInv, TypeOK
<1>7. CASE Reset
  BY <1>t, <1>7 DEF Reset, TypeInv, TypeOK, FrameInv, Holding, producerVars, outputVars
<1>8. CASE ResetPop
  <2>1. /\ UNCHANGED <<received, rejected, dropped, hand, ring, aligner, seen, log, ticksEmitted,
                       tamper, tampers, sinceZero, caught>>
        /\ resetter' \in {"idle", "pop", "zero"}
    BY <1>t, <1>8 DEF ResetPop, TypeOK, producerVars
  <2>2. buf' \in Seq(Rec) /\ Len(buf') <= Capacity
    <3>1. CASE buf = <<>>
      BY <1>t, <1>8, <3>1 DEF ResetPop, TypeOK, Rec
    <3>2. CASE buf # <<>>
      <4>1. buf \in Seq(Rec) /\ Len(buf) <= Capacity /\ buf' = Tail(buf)
        BY <1>t, <1>8, <3>2 DEF ResetPop, TypeOK, Rec
      <4>2. buf' \in Seq(Rec) /\ Len(buf') = Len(buf) - 1
        BY <3>2, <4>1, TailShape
      <4> QED BY <4>1, <4>2, CapacityAssumption
    <3> QED BY <3>1, <3>2
  <2> QED BY <1>t, <2>1, <2>2 DEF TypeInv, TypeOK, FrameInv, Holding, Rec
<1>9. CASE ResetZero
  <2>1. caught' \in [aligner : BOOLEAN, operators : SUBSET Operators]
    BY <1>9 DEF ResetZero, Uncounted, Tampering
  <2>2. /\ UNCHANGED <<received, rejected, dropped, hand, ring, aligner, seen, buf, log, tamper,
                       tampers>>
        /\ ticksEmitted' = 0 /\ sinceZero' = 0 /\ resetter' = "idle"
    BY <1>9 DEF ResetZero, producerVars, outputVars
  <2> QED BY <1>t, <2>1, <2>2 DEF TypeInv, TypeOK, FrameInv, Holding
<1>10. CASE UNCHANGED vars
  BY <1>t, <1>10 DEF vars, TypeInv, TypeOK, FrameInv, Holding
<1>o. tamper \in [Operators -> Nat \cup {NoTamper}] /\ ticksEmitted \in Nat /\ tampers \in Nat
  BY <1>t, IngressAssumption DEF TypeOK
<1>11. ASSUME NEW o \in Operators, TamperCount(o) PROVE TypeInv'
  <2>1. /\ tamper' = [tamper EXCEPT ![o] = TamperBase + ticksEmitted]
        /\ ticksEmitted' = ticksEmitted + 1 /\ tampers < MaxTampers /\ tampers' = tampers + 1
        /\ UNCHANGED <<received, rejected, dropped, hand, ring, aligner, seen, buf, log, resetter,
                       sinceZero, caught>>
    BY <1>11 DEF TamperCount, producerVars, outputVars
  <2>2. TamperBase + ticksEmitted \in Nat
    BY <1>o, IngressAssumption
  <2>3. tamper' \in [Operators -> Nat \cup {NoTamper}]
    BY <1>o, <2>1, <2>2
  <2>4. ticksEmitted' \in Nat /\ tampers' \in 0 .. MaxTampers
    BY <1>o, <2>1, IngressAssumption
  <2> QED BY <1>t, <2>1, <2>3, <2>4 DEF TypeInv, TypeOK, FrameInv, Holding
<1>12. ASSUME NEW o \in Operators, TamperPush(o) PROVE TypeInv'
  <2>1. /\ buf' = Push(buf, [id |-> tamper[o], n |-> 0]) /\ sinceZero' = sinceZero + 1
        /\ tamper[o] # NoTamper /\ tamper' = [tamper EXCEPT ![o] = NoTamper]
        /\ UNCHANGED <<received, rejected, dropped, hand, ring, aligner, seen, log, ticksEmitted,
                       tampers, resetter, caught>>
    BY <1>12 DEF TamperPush, producerVars
  <2>2. PICK t \in Rec : t = [id |-> tamper[o], n |-> 0]
    BY <1>o, <2>1, IngressAssumption DEF Rec
  <2>3. buf \in Seq(Rec) /\ Len(buf) <= Capacity /\ buf' = Push(buf, t)
    BY <1>t, <2>1, <2>2 DEF TypeOK, Rec
  <2>4. buf' \in Seq(Rec) /\ Len(buf') <= Capacity
    BY <2>3, PushShape
  <2>5. tamper' \in [Operators -> Nat \cup {NoTamper}] /\ sinceZero' \in Nat
    BY <1>o, <1>t, <2>1 DEF TypeOK
  <2> QED BY <1>t, <2>1, <2>4, <2>5 DEF TypeInv, TypeOK, FrameInv, Holding, Rec
<1> QED
  BY <1>1, <1>2, <1>3, <1>4, <1>5, <1>6, <1>7, <1>8, <1>9, <1>10, <1>11, <1>12
     DEF Next, AlignerStep

LEMMA TypeInvariance == Spec => []TypeInv
<1>1. Init => TypeInv
  BY TypeInit
<1>2. TypeInv /\ [Next]_vars => TypeInv'
  BY TypeStep
<1> QED BY <1>1, <1>2, PTL DEF Spec

(* Type correctness: ring and buffer never exceed their capacities,        *)
(* whatever the receive thread, the aligner, a reset and tampering interleave. *)
THEOREM TypeCorrect == Spec => []TypeOK
<1>1. TypeInv => TypeOK
  BY DEF TypeInv
<1> QED BY <1>1, TypeInvariance, PTL

-------------------------------------------------------------------------------
(* One more request in flight, or one fewer.                               *)
LEMMA TamperingCounts ==
  ASSUME TypeOK
  PROVE  /\ IsFiniteSet(Tampering) /\ Cardinality(Tampering) \in Nat
         /\ IsFiniteSet(caught.operators) /\ Cardinality(caught.operators) \in Nat
         /\ \A o \in Operators : tamper[o] = NoTamper =>
              Cardinality(Tampering \cup {o}) = Cardinality(Tampering) + 1
         /\ \A o \in Operators : tamper[o] # NoTamper =>
              Cardinality(Tampering \ {o}) = Cardinality(Tampering) - 1
<1>1. IsFiniteSet(Tampering)
  BY IngressAssumption, FS_Subset DEF Tampering
<1>2. IsFiniteSet(caught.operators)
  BY IngressAssumption, FS_Subset DEF TypeOK
<1>3. ASSUME NEW o \in Operators, tamper[o] = NoTamper
      PROVE  Cardinality(Tampering \cup {o}) = Cardinality(Tampering) + 1
  <2>1. o \notin Tampering
    BY <1>3 DEF Tampering
  <2> QED BY <1>1, <2>1, FS_AddElement
<1>4. ASSUME NEW o \in Operators, tamper[o] # NoTamper
      PROVE  Cardinality(Tampering \ {o}) = Cardinality(Tampering) - 1
  <2>1. o \in Tampering
    BY <1>4 DEF Tampering
  <2> QED BY <1>1, <2>1, FS_RemoveElement
<1> QED BY <1>1, <1>2, <1>3, <1>4, FS_CardinalityType

LEMMA CountStep == TypeInv /\ CounterExplained /\ [Next]_vars => CounterExplained'
<1> SUFFICES ASSUME TypeInv, CounterExplained, [Next]_vars PROVE CounterExplained'
  OBVIOUS
<1>t. /\ ticksEmitted \in Nat /\ sinceZero \in Nat
      /\ aligner \in [pc : {"pop", "note", "push", "count"}, frame : Frame \cup {NoFrame},
                       next : Nat]
      /\ tamper \in [Operators -> Nat \cup {NoTamper}]
      /\ TypeOK
  BY DEF TypeInv, TypeOK
<1>f. /\ Cardinality(Tampering) \in Nat /\ Cardinality(caught.operators) \in Nat
      /\ \A o \in Operators : tamper[o] = NoTamper =>
           Cardinality(Tampering \cup {o}) = Cardinality(Tampering) + 1
      /\ \A o \in Operators : tamper[o] # NoTamper =>
           Cardinality(Tampering \ {o}) = Cardinality(Tampering) - 1
  BY <1>t, TamperingCounts
<1>1. CASE Receive \/ Offer \/ Reset \/ ResetPop \/ UNCHANGED vars
  <2>1. UNCHANGED <<aligner, ticksEmitted, sinceZero, tamper, caught>>
    BY <1>1 DEF Receive, Offer, Reset, ResetPop, operatorVars, vars
  <2> QED BY <2>1 DEF CounterExplained, Uncounted, Tampering
<1>2. CASE PopRing \/ NoteMu
  <2>1. UNCHANGED <<ticksEmitted, sinceZero, tamper, caught>>
    BY <1>2 DEF PopRing, NoteMu, operatorVars
  <2>2. ~Uncounted /\ ~Uncounted'
    BY <1>t, <1>2 DEF PopRing, NoteMu, Uncounted
  <2>3. Tampering' = Tampering
    BY <2>1 DEF Tampering
  <2> QED BY <2>1, <2>2, <2>3 DEF CounterExplained
<1>3. CASE PushTick
  <2>1. /\ sinceZero' = sinceZero + 1 /\ UNCHANGED <<ticksEmitted, tamper, caught>>
        /\ ~Uncounted /\ Uncounted'
    BY <1>t, <1>3 DEF PushTick, Uncounted, operatorVars
  <2>2. Tampering' = Tampering
    BY <2>1 DEF Tampering
  <2> QED BY <1>t, <1>f, <2>1, <2>2 DEF CounterExplained
<1>4. CASE CountTick
  <2>1. /\ ticksEmitted' = ticksEmitted + 1 /\ UNCHANGED <<sinceZero, tamper, caught>>
        /\ Uncounted /\ ~Uncounted'
    BY <1>t, <1>4 DEF CountTick, Counted, Uncounted, operatorVars
  <2>2. Tampering' = Tampering
    BY <2>1 DEF Tampering
  <2> QED BY <1>t, <1>f, <2>1, <2>2 DEF CounterExplained
<1>5. ASSUME NEW o \in Operators, TamperCount(o) PROVE CounterExplained'
  <2>1. /\ ticksEmitted' = ticksEmitted + 1 /\ UNCHANGED <<sinceZero, aligner, caught>>
        /\ tamper[o] = NoTamper /\ tamper' = [tamper EXCEPT ![o] = TamperBase + ticksEmitted]
    BY <1>5 DEF TamperCount
  <2>2. TamperBase + ticksEmitted # NoTamper
    BY <1>t, IngressAssumption DEF NoTamper
  <2>3. Tampering' = Tampering \cup {o}
    BY <1>t, <2>1, <2>2 DEF Tampering
  <2>4. Cardinality(Tampering') = Cardinality(Tampering) + 1
    BY <1>f, <2>1, <2>3
  <2>5. Uncounted' = Uncounted
    BY <2>1 DEF Uncounted
  <2> QED BY <1>t, <1>f, <2>1, <2>4, <2>5 DEF CounterExplained
<1>6. ASSUME NEW o \in Operators, TamperPush(o) PROVE CounterExplained'
  <2>1. /\ sinceZero' = sinceZero + 1 /\ UNCHANGED <<ticksEmitted, aligner, caught>>
        /\ tamper[o] # NoTamper /\ tamper' = [tamper EXCEPT ![o] = NoTamper]
    BY <1>6 DEF TamperPush
  <2>3. Tampering' = Tampering \ {o}
    BY <1>t, <2>1 DEF Tampering
  <2>4. Cardinality(Tampering') = Cardinality(Tampering) - 1
    BY <1>f, <2>1, <2>3
  <2>5. Uncounted' = Uncounted
    BY <2>1 DEF Uncounted
  <2> QED BY <1>t, <1>f, <2>1, <2>4, <2>5 DEF CounterExplained
<1>7. CASE ResetZero
  <2>1. /\ ticksEmitted' = 0 /\ sinceZero' = 0 /\ UNCHANGED <<aligner, tamper>>
        /\ caught'.aligner = Uncounted /\ caught'.operators = Tampering
    BY <1>7 DEF ResetZero
  <2>2. Uncounted' = Uncounted /\ Tampering' = Tampering
    BY <2>1 DEF Uncounted, Tampering
  <2> QED BY <1>f, <2>1, <2>2 DEF CounterExplained
<1> QED
  BY <1>1, <1>2, <1>3, <1>4, <1>5, <1>6, <1>7 DEF Next, AlignerStep

(* What the counter is off by, against the records pushed since a reset    *)
(* zeroed it, is the aligner and the tamper requests caught between their  *)
(* push and their count, now and then (dataplane/mod.rs's inject_tamper,   *)
(* record_external_tick and reset).                                        *)
THEOREM CounterIsExplained == Spec => []CounterExplained
<1>1. Init => CounterExplained
  <2> SUFFICES ASSUME Init PROVE CounterExplained
    OBVIOUS
  <2>1. Tampering = {} /\ caught.operators = {} /\ caught.aligner = FALSE /\ ~Uncounted
        /\ ticksEmitted = 0 /\ sinceZero = 0
    BY DEF Init, Tampering, Uncounted
  <2> QED BY <2>1, FS_EmptySet DEF CounterExplained
<1>2. TypeInv /\ CounterExplained /\ [Next]_vars => CounterExplained'
  BY CountStep
<1> QED BY <1>1, <1>2, TypeInvariance, PTL DEF Spec

(* So it is never further away than one for the aligner and one for each   *)
(* request that can be in flight.                                          *)
CounterWithin(d) == ticksEmitted - sinceZero \in (-d) .. d

THEOREM CounterStaysClose == Spec => []CounterWithin(1 + Cardinality(Operators))
<1>1. TypeInv /\ CounterExplained => CounterWithin(1 + Cardinality(Operators))
  <2> SUFFICES ASSUME TypeOK, CounterExplained PROVE CounterWithin(1 + Cardinality(Operators))
    BY DEF TypeInv
  <2> DEFINE f == Cardinality(Tampering)
             k == Cardinality(caught.operators)
             n == Cardinality(Operators)
  <2>1. f \in Nat /\ k \in Nat /\ n \in Nat
    BY TamperingCounts, IngressAssumption, FS_CardinalityType
  <2>2. f <= n /\ k <= n
    <3>1. Tampering \in SUBSET Operators /\ caught.operators \in SUBSET Operators
      BY DEF Tampering, TypeOK
    <3> QED BY <3>1, IngressAssumption, FS_Subset
  <2>3. ticksEmitted \in Nat /\ sinceZero \in Nat
    BY DEF TypeOK
  <2>4. ticksEmitted + (IF Uncounted THEN 1 ELSE 0) + k
          = sinceZero + (IF caught.aligner THEN 1 ELSE 0) + f
    BY DEF CounterExplained
  <2> HIDE DEF f, k, n
  <2>5. ticksEmitted - sinceZero \in (-(1 + n)) .. (1 + n)
    BY <2>1, <2>2, <2>3, <2>4
  <2> QED BY <2>5 DEF CounterWithin, n
<1> QED BY <1>1, CounterIsExplained, TypeInvariance, PTL

-------------------------------------------------------------------------------
(* Appending a frame above all others, and taking the first, keep a queue  *)
(* rising.                                                                 *)
LEMMA RisingAppend ==
  ASSUME NEW q \in Seq(Frame), NEW f \in Frame, Rising(q), \A i \in DOMAIN q : q[i].n < f.n
  PROVE  /\ Rising(Append(q, f))
         /\ \A i \in DOMAIN Append(q, f) :
              \/ i \in DOMAIN q /\ Append(q, f)[i] = q[i]
              \/ Append(q, f)[i] = f
<1> DEFINE a == Append(q, f)
<1>1. /\ a \in Seq(Frame) /\ Len(a) = Len(q) + 1 /\ Len(q) \in Nat
      /\ \A i \in 1 .. Len(q) : a[i] = q[i]
      /\ a[Len(q) + 1] = f
  BY AppendShape
<1>2. DOMAIN a = 1 .. (Len(q) + 1) /\ DOMAIN q = 1 .. Len(q)
  BY <1>1
<1> HIDE DEF a
<1>4. \A i \in DOMAIN a : (i \in DOMAIN q /\ a[i] = q[i]) \/ a[i] = f
  BY <1>1, <1>2
<1>5. ASSUME NEW i \in DOMAIN a, NEW j \in DOMAIN a, i < j PROVE a[i].n < a[j].n
  <2>1. i \in DOMAIN q /\ a[i] = q[i]
    BY <1>1, <1>2, <1>5
  <2>2. CASE j \in DOMAIN q
    BY <1>1, <1>2, <1>5, <2>1, <2>2 DEF Rising
  <2>3. CASE j \notin DOMAIN q
    <3>1. a[j] = f
      BY <1>1, <1>2, <2>3
    <3> QED BY <2>1, <3>1
  <2> QED BY <2>2, <2>3
<1> QED BY <1>4, <1>5 DEF Rising, a

\* A step of a tamper request.
Tamper == \E o \in Operators : TamperCount(o) \/ TamperPush(o)

LEMMA OrderStep == TypeInv /\ OrderInv /\ [Next]_vars => OrderInv'
<1> SUFFICES ASSUME TypeInv, OrderInv, [Next]_vars PROVE OrderInv'
  OBVIOUS
<1>t. TypeOK /\ FrameInv
  BY DEF TypeInv
<1>q. /\ log \in Seq(Frame) /\ ring \in Seq(Frame) /\ received \in Nat
      /\ hand \in Frame \cup {NoFrame}
      /\ Holding => aligner.frame \in Frame
  BY <1>t, IngressAssumption DEF TypeOK, FrameInv
<1>n. /\ \A i \in DOMAIN log : log[i].n \in Int
      /\ \A j \in DOMAIN ring : ring[j].n \in Int
      /\ Holding => aligner.frame.n \in Int
  <2>1. \A f \in Frame : f.n \in Int
    BY DEF Frame
  <2> QED BY <1>q, <2>1, FrameNumbers
<1>a. aligner \in [pc : {"pop", "note", "push", "count"}, frame : Frame \cup {NoFrame},
                   next : Nat]
  BY <1>t DEF TypeOK
<1>1. CASE Receive
  <2>1. received' = received + 1 /\ hand = NoFrame /\ UNCHANGED <<ring, log, aligner>>
    BY <1>1 DEF Receive, outputVars
  <2>2. hand' # NoFrame => hand'.n = received'
    BY <1>1 DEF Receive
  <2>3. UNCHANGED Holding
    BY <2>1 DEF Holding
  <2>4. /\ \A i \in DOMAIN log : log[i].n < received'
        /\ \A j \in DOMAIN ring : ring[j].n < received'
        /\ Holding => aligner.frame.n < received'
    BY <1>q, <1>n, <2>1 DEF OrderInv
  <2>5. /\ \A i \in DOMAIN log : log[i].n <= received'
        /\ \A j \in DOMAIN ring : ring[j].n <= received'
        /\ Holding => aligner.frame.n <= received'
    BY <1>q, <1>n, <2>1, <2>4
  <2> QED BY <2>1, <2>2, <2>3, <2>4, <2>5 DEF OrderInv, Rising
<1>2. CASE Offer
  <2>1. /\ hand # NoFrame /\ hand' = NoFrame /\ hand \in Frame
        /\ UNCHANGED <<received, log, aligner>>
    BY <1>q, <1>2 DEF Offer, outputVars
  <2>2. UNCHANGED Holding
    BY <2>1 DEF Holding
  <2>3. CASE UNCHANGED ring
    BY <2>1, <2>2, <2>3 DEF OrderInv, Rising
  <2>4. CASE ring' = Append(ring, hand)
    <3>1. /\ hand.n = received /\ Rising(ring)
          /\ \A i \in DOMAIN ring : ring[i].n < hand.n
          /\ \A i \in DOMAIN log : log[i].n < hand.n
          /\ Holding => aligner.frame.n < hand.n
      BY <2>1 DEF OrderInv
    <3>2. /\ Rising(ring')
          /\ \A j \in DOMAIN ring' : (j \in DOMAIN ring /\ ring'[j] = ring[j]) \/ ring'[j] = hand
      BY <1>q, <2>1, <2>4, <3>1, RisingAppend
    <3>3. /\ \A i \in DOMAIN log : \A j \in DOMAIN ring' : log[i].n < ring'[j].n
          /\ Holding => \A j \in DOMAIN ring' : aligner.frame.n < ring'[j].n
          /\ \A j \in DOMAIN ring' : ring'[j].n <= received
      BY <1>q, <3>1, <3>2 DEF OrderInv
    <3>4. Rising(log) /\ Rising(ring)'
      BY <3>2 DEF OrderInv, Rising
    <3> QED BY <2>1, <2>2, <3>3, <3>4 DEF OrderInv, Rising
  <2> QED BY <1>2, <2>3, <2>4 DEF Offer, RingAfter
<1>3. CASE PopRing
  <2>1. Len(ring) > 0 /\ NextIn(ring) = 1 /\ aligner.pc = "pop"
    BY <1>3 DEF PopRing, NextIn
  <2>2. ring' = SubSeq(ring, 1, 1 - 1) \o SubSeq(ring, 1 + 1, Len(ring))
    BY <1>3, <2>1 DEF PopRing
  <2>3. /\ ring' \in Seq(Frame) /\ Len(ring') = Len(ring) - 1
        /\ \A i \in 1 .. (Len(ring) - 1) : ring'[i] = ring[i + 1]
    BY <1>q, <2>1, <2>2, PopShape
  <2>4. /\ \A j \in DOMAIN ring' : j \in Int /\ j > 0 /\ j + 1 \in DOMAIN ring
                                  /\ ring'[j] = ring[j + 1]
        /\ 1 \in DOMAIN ring
    BY <1>q, <2>1, <2>3
  <2>5. Rising(ring) /\ Rising(log)
    BY DEF OrderInv
  <2>6. \A i, j \in DOMAIN ring' : i < j => ring'[i].n < ring'[j].n
    BY <2>4, <2>5 DEF Rising
  <2>7. \A j \in DOMAIN ring' : ring[1].n < ring'[j].n
    BY <2>4, <2>5 DEF Rising
  <2>8. /\ aligner'.pc = "note" /\ aligner'.frame = ring[1]
        /\ UNCHANGED <<received, hand, log>>
    BY <1>3, <1>a, <2>1 DEF PopRing, producerVars, outputVars
  <2>9. Holding'
    BY <2>8 DEF Holding
  <2>10. /\ \A i \in DOMAIN log : log[i].n < ring[1].n
         /\ ring[1].n <= received
         /\ hand # NoFrame => ring[1].n < received
         /\ \A i \in DOMAIN log : \A j \in DOMAIN ring' : log[i].n < ring'[j].n
         /\ \A j \in DOMAIN ring' : ring'[j].n <= received
         /\ hand # NoFrame => \A j \in DOMAIN ring' : ring'[j].n < received
    BY <2>4 DEF OrderInv
  <2> QED BY <2>5, <2>6, <2>7, <2>8, <2>9, <2>10 DEF OrderInv, Rising
<1>4. CASE NoteMu
  <2>1. /\ aligner.pc = "note" /\ aligner'.pc = "push" /\ aligner'.frame = aligner.frame
        /\ UNCHANGED <<received, hand, ring, log>>
    BY <1>4, <1>a DEF NoteMu, producerVars, outputVars
  <2>2. Holding /\ Holding'
    BY <2>1 DEF Holding
  <2> QED BY <2>1, <2>2 DEF OrderInv, Rising
<1>5. CASE PushTick
  <2>1. /\ aligner.pc = "push" /\ aligner'.pc = "count"
        /\ log' = Append(log, aligner.frame)
        /\ UNCHANGED <<received, hand, ring>>
    BY <1>5, <1>a DEF PushTick, producerVars
  <2>2. Holding /\ ~Holding'
    BY <2>1 DEF Holding
  <2>3. PICK f \in Frame : f = aligner.frame
    BY <1>q, <2>2
  <2>4. /\ Rising(log) /\ \A i \in DOMAIN log : log[i].n < f.n
        /\ \A j \in DOMAIN ring : f.n < ring[j].n
        /\ f.n <= received
        /\ hand # NoFrame => f.n < received
    BY <2>2, <2>3 DEF OrderInv
  <2>5. /\ Rising(log')
        /\ \A i \in DOMAIN log' : (i \in DOMAIN log /\ log'[i] = log[i]) \/ log'[i] = f
    BY <1>q, <2>1, <2>3, <2>4, RisingAppend
  <2>6. /\ \A i \in DOMAIN log' : \A j \in DOMAIN ring : log'[i].n < ring[j].n
        /\ \A i \in DOMAIN log' : log'[i].n <= received
        /\ hand # NoFrame => \A i \in DOMAIN log' : log'[i].n < received
    BY <2>4, <2>5 DEF OrderInv
  <2>7. Rising(log)' /\ Rising(ring)
    BY <2>5 DEF OrderInv, Rising
  <2> QED BY <2>1, <2>2, <2>6, <2>7 DEF OrderInv, Rising
<1>6. CASE CountTick
  <2>1. /\ aligner.pc = "count" /\ aligner'.pc = "pop"
        /\ UNCHANGED <<received, hand, ring, log>>
    BY <1>6, <1>a DEF CountTick, producerVars, outputVars
  <2>2. ~Holding /\ ~Holding'
    BY <2>1 DEF Holding
  <2> QED BY <2>1, <2>2 DEF OrderInv, Rising
<1>7. CASE Reset \/ ResetPop \/ ResetZero \/ Tamper \/ UNCHANGED vars
  <2>1. UNCHANGED <<received, hand, ring, log, aligner>>
    BY <1>7 DEF Reset, ResetPop, ResetZero, Tamper, TamperCount, TamperPush, vars, producerVars,
                outputVars
  <2> QED BY <2>1 DEF OrderInv, Rising, Holding
<1> QED
  BY <1>1, <1>2, <1>3, <1>4, <1>5, <1>6, <1>7 DEF Next, AlignerStep, Tamper

(* Ticks come out in arrival order: ring, aligner and both threads' hands  *)
(* reorder nothing, however the full ring drops frames and resets fall.    *)
THEOREM ArrivalOrderHolds == Spec => []InArrivalOrder
<1>1. Init => OrderInv
  BY DEF Init, OrderInv, Rising, Holding
<1>2. TypeInv /\ OrderInv /\ [Next]_vars => OrderInv'
  BY OrderStep
<1>3. OrderInv => InArrivalOrder
  BY DEF OrderInv, Rising, InArrivalOrder
<1> QED BY <1>1, <1>2, <1>3, TypeInvariance, PTL DEF Spec

-------------------------------------------------------------------------------
\* The frame about to be offered was not dropped before.
DropInv == hand # NoFrame => hand.n \notin dropped

LostInv == NothingLostSilently /\ DropInv

(* Each thread's hand holds one datagram or none.                          *)
LEMMA HandsHoldOne ==
  /\ Cardinality(InHand) = IF hand = NoFrame THEN 0 ELSE 1
  /\ Cardinality(Aligning) = IF aligner.frame = NoFrame THEN 0 ELSE 1
BY FS_EmptySet, FS_Singleton DEF InHand, Aligning

LEMMA RefusedAreFinite ==
  ASSUME TypeInv
  PROVE  /\ IsFiniteSet(rejected) /\ Cardinality(rejected) \in Nat
         /\ IsFiniteSet(dropped) /\ Cardinality(dropped) \in Nat
<1>1. IsFiniteSet(1 .. MaxDatagrams)
  BY IngressAssumption, FS_Interval
<1>2. IsFiniteSet(rejected) /\ IsFiniteSet(dropped)
  BY <1>1, FS_Subset DEF TypeInv, TypeOK
<1> QED BY <1>2, FS_CardinalityType

(* Appending a frame to a queue adds its number to the queue's.            *)
LEMMA NumbersOfAppend ==
  ASSUME NEW q \in Seq(Frame), NEW f \in Frame
  PROVE  /\ Len(Append(q, f)) = Len(q) + 1
         /\ {Append(q, f)[i].n : i \in DOMAIN Append(q, f)} = {q[i].n : i \in DOMAIN q} \cup {f.n}
<1> DEFINE a == Append(q, f)
<1>1. /\ Len(a) = Len(q) + 1 /\ Len(q) \in Nat
      /\ DOMAIN a = DOMAIN q \cup {Len(q) + 1}
      /\ \A i \in DOMAIN q : a[i] = q[i]
      /\ a[Len(q) + 1] = f
  OBVIOUS
<1> HIDE DEF a
<1>2. {a[i].n : i \in DOMAIN a} = {q[i].n : i \in DOMAIN q} \cup {f.n}
  BY <1>1
<1> QED BY <1>1, <1>2 DEF a

LEMMA LostStep == TypeInv /\ LostInv /\ [Next]_vars => LostInv'
<1> SUFFICES ASSUME TypeInv, LostInv, [Next]_vars PROVE LostInv'
  OBVIOUS
<1>t. TypeOK /\ FrameInv
  BY DEF TypeInv
<1>q. /\ log \in Seq(Frame) /\ ring \in Seq(Frame) /\ received \in Nat
      /\ Len(log) \in Nat /\ Len(ring) \in Nat
      /\ hand \in Frame \cup {NoFrame}
      /\ aligner \in [pc : {"pop", "note", "push", "count"}, frame : Frame \cup {NoFrame},
                       next : Nat]
  BY <1>t, IngressAssumption DEF TypeOK
<1>c. /\ IsFiniteSet(rejected) /\ Cardinality(rejected) \in Nat
      /\ IsFiniteSet(dropped) /\ Cardinality(dropped) \in Nat
  BY RefusedAreFinite
<1>h. /\ Cardinality(InHand) = (IF hand = NoFrame THEN 0 ELSE 1)
      /\ Cardinality(Aligning) = (IF aligner.frame = NoFrame THEN 0 ELSE 1)
  BY HandsHoldOne
<1>p. /\ Cardinality(InHand') = (IF hand' = NoFrame THEN 0 ELSE 1)
      /\ Cardinality(Aligning') = (IF aligner'.frame = NoFrame THEN 0 ELSE 1)
  BY FS_EmptySet, FS_Singleton DEF InHand, Aligning
<1>i. /\ rejected \cup dropped \cup InHand \cup Queued \cup Aligning \cup Pushed = 1 .. received
      /\ Cardinality(rejected) + Cardinality(dropped) + Cardinality(InHand) + Len(ring)
           + Cardinality(Aligning) + Len(log) = received
  BY DEF LostInv, NothingLostSilently
\* The six terms of NothingLostSilently's sum, opaque below so that the arithmetic
\* of each step is about six numbers.
<1> DEFINE r == Cardinality(rejected)
           d == Cardinality(dropped)
           h == Cardinality(InHand)
           q == Len(ring)
           a == Cardinality(Aligning)
           l == Len(log)
<1>s. /\ r + d + h + q + a + l = received /\ received \in Nat
      /\ r \in Nat /\ d \in Nat /\ h \in Nat /\ q \in Nat /\ a \in Nat /\ l \in Nat
  BY <1>q, <1>c, <1>h, <1>i
<1>z. /\ h = (IF hand = NoFrame THEN 0 ELSE 1)
      /\ a = (IF aligner.frame = NoFrame THEN 0 ELSE 1)
      /\ h' = (IF hand' = NoFrame THEN 0 ELSE 1)
      /\ a' = (IF aligner'.frame = NoFrame THEN 0 ELSE 1)
  BY <1>h, <1>p
<1>e. /\ (rejected \cup dropped \cup InHand \cup Queued \cup Aligning \cup Pushed)'
             = 1 .. received'
      /\ (r + d + h + q + a + l)' = received'
      => NothingLostSilently'
  BY DEF NothingLostSilently
<1> HIDE DEF r, d, h, q, a, l
<1>f. \A f \in Frame : f # NoFrame
  BY FrameIsNotNoFrame
<1>1. CASE Receive
  <2>1. /\ hand = NoFrame /\ received' = received + 1
        /\ UNCHANGED <<dropped, ring, aligner, log>>
    BY <1>1 DEF Receive, outputVars
  <2>2. /\ InHand = {} /\ UNCHANGED <<Queued, Aligning, Pushed>>
        /\ 1 .. received' = (1 .. received) \cup {received'}
        /\ received' \notin 1 .. received
    BY <1>q, <2>1 DEF InHand, Queued, Aligning, Pushed
  <2>3. received' \notin rejected /\ received' \notin dropped
    BY <1>i, <2>2
  <2>4. CASE \E mu \in MUs : hand' = [n |-> received', mu |-> mu] /\ UNCHANGED rejected
    <3>1. hand' \in Frame /\ hand'.n = received' /\ UNCHANGED rejected
      BY <1>q, <1>t, <1>1, <2>1, <2>4, IngressAssumption DEF Receive, Frame
    <3>2. hand' # NoFrame /\ InHand' = {received'}
      BY <1>f, <3>1 DEF InHand
    <3>3. DropInv'
      BY <2>1, <2>3, <3>1 DEF DropInv
    <3>4. h = 0 /\ h' = 1
      BY <1>z, <2>1, <3>2
    <3>a. r' = r /\ d' = d /\ q' = q /\ a' = a /\ l' = l
      BY <2>1, <2>2, <3>1 DEF r, d, q, a, l
    <3>5. (rejected \cup dropped \cup InHand \cup Queued \cup Aligning \cup Pushed)'
            = 1 .. received'
      BY <1>i, <2>1, <2>2, <3>1, <3>2
    <3>6. (r + d + h + q + a + l)' = received'
      BY <1>s, <2>1, <3>4, <3>a
    <3> QED BY <1>e, <3>3, <3>5, <3>6 DEF LostInv
  <2>5. CASE rejected' = rejected \cup {received'} /\ UNCHANGED hand
    <3>1. r' = r + 1
      BY <1>c, <2>3, <2>5, FS_AddElement DEF r
    <3>2. UNCHANGED InHand /\ DropInv'
      BY <2>1, <2>5 DEF InHand, DropInv
    <3>3. (rejected \cup dropped \cup InHand \cup Queued \cup Aligning \cup Pushed)'
            = 1 .. received'
      BY <1>i, <2>1, <2>2, <2>5, <3>2
    <3>a. d' = d /\ h' = h /\ q' = q /\ a' = a /\ l' = l
      BY <2>1, <2>2, <3>2 DEF d, h, q, a, l
    <3>4. (r + d + h + q + a + l)' = received'
      BY <1>s, <2>1, <3>1, <3>a
    <3> QED BY <1>e, <3>2, <3>3, <3>4 DEF LostInv
  <2> QED BY <1>1, <2>4, <2>5 DEF Receive
<1>2. CASE Offer
  <2>1. /\ hand # NoFrame /\ hand' = NoFrame /\ hand \in Frame
        /\ UNCHANGED <<received, rejected, aligner, log>>
    BY <1>q, <1>2 DEF Offer, outputVars
  <2>2. /\ InHand = {hand.n} /\ InHand' = {} /\ UNCHANGED <<Aligning, Pushed>> /\ DropInv'
    BY <2>1 DEF InHand, Aligning, Pushed, DropInv
  <2>3. h = 1 /\ h' = 0
    BY <1>z, <2>1
  <2>4. CASE ring' = Append(ring, hand) /\ UNCHANGED dropped
    <3>1. q' = q + 1 /\ Queued' = Queued \cup {hand.n}
      <4>1. /\ Len(Append(ring, hand)) = Len(ring) + 1
            /\ {Append(ring, hand)[i].n : i \in DOMAIN Append(ring, hand)} = Queued \cup {hand.n}
        BY <1>q, <2>1, NumbersOfAppend DEF Queued
      <4> QED BY <2>4, <4>1 DEF Queued, q
    <3>a. r' = r /\ d' = d /\ a' = a /\ l' = l
      BY <2>1, <2>2, <2>4 DEF r, d, a, l
    <3>2. (rejected \cup dropped \cup InHand \cup Queued \cup Aligning \cup Pushed)'
            = 1 .. received'
      BY <1>i, <2>1, <2>2, <2>4, <3>1
    <3>3. (r + d + h + q + a + l)' = received'
      BY <1>s, <2>1, <2>3, <3>1, <3>a
    <3> QED BY <1>e, <2>2, <3>2, <3>3 DEF LostInv
  <2>5. CASE dropped' = dropped \cup {hand.n} /\ UNCHANGED ring
    <3>1. hand.n \notin dropped
      BY <2>1 DEF LostInv, DropInv
    <3>2. d' = d + 1 /\ UNCHANGED Queued
      <4>1. Cardinality(dropped \cup {hand.n}) = Cardinality(dropped) + 1
        BY <1>c, <3>1, FS_AddElement
      <4> QED BY <2>5, <4>1 DEF Queued, d
    <3>a. r' = r /\ q' = q /\ a' = a /\ l' = l
      BY <2>1, <2>2, <2>5 DEF r, q, a, l
    <3>3. (rejected \cup dropped \cup InHand \cup Queued \cup Aligning \cup Pushed)'
            = 1 .. received'
      BY <1>i, <2>1, <2>2, <2>5, <3>2
    <3>4. (r + d + h + q + a + l)' = received'
      BY <1>s, <2>1, <2>3, <3>2, <3>a
    <3> QED BY <1>e, <2>2, <3>3, <3>4 DEF LostInv
  <2> QED BY <1>2, <2>4, <2>5 DEF Offer, RingAfter
<1>3. CASE PopRing
  <2>1. Len(ring) > 0 /\ NextIn(ring) = 1 /\ aligner.pc = "pop"
    BY <1>3 DEF PopRing, NextIn
  <2>2. ring' = SubSeq(ring, 1, 1 - 1) \o SubSeq(ring, 1 + 1, Len(ring))
    BY <1>3, <2>1 DEF PopRing
  <2>3. /\ ring' \in Seq(Frame) /\ Len(ring') = Len(ring) - 1
        /\ \A i \in 1 .. (Len(ring) - 1) : ring'[i] = ring[i + 1]
    BY <1>q, <2>1, <2>2, PopShape
  <2>4. ring[1] \in Frame
    BY <1>q, <2>1
  <2>5. Queued = Queued' \cup {ring[1].n}
    <3>1. DOMAIN ring = 1 .. Len(ring) /\ DOMAIN ring' = 1 .. (Len(ring) - 1)
      BY <1>q, <2>3
    <3>2. \A i \in DOMAIN ring : i = 1 \/ (i - 1 \in DOMAIN ring' /\ ring[i] = ring'[i - 1])
      BY <1>q, <2>3, <3>1
    <3>3. \A i \in DOMAIN ring' : i + 1 \in DOMAIN ring /\ ring'[i] = ring[i + 1]
      BY <1>q, <2>3, <3>1
    <3>4. 1 \in DOMAIN ring
      BY <1>q, <2>1, <3>1
    <3> QED BY <3>2, <3>3, <3>4 DEF Queued
  <2>6. /\ aligner.frame = NoFrame /\ aligner'.frame = ring[1]
        /\ UNCHANGED <<received, rejected, dropped, hand, log>>
    BY <1>3, <1>t, <1>q, <2>1 DEF PopRing, FrameInv, Holding, producerVars, outputVars
  <2>7. /\ Aligning = {} /\ Aligning' = {ring[1].n} /\ UNCHANGED <<InHand, Pushed>>
        /\ aligner'.frame # NoFrame /\ DropInv'
    BY <1>f, <2>4, <2>6 DEF Aligning, InHand, Pushed, LostInv, DropInv
  <2>8. a = 0 /\ a' = 1
    BY <1>z, <2>6, <2>7
  <2>a. r' = r /\ d' = d /\ h' = h /\ q' = q - 1 /\ l' = l
    BY <2>3, <2>6, <2>7 DEF r, d, h, q, l
  <2>9. (rejected \cup dropped \cup InHand \cup Queued \cup Aligning \cup Pushed)'
          = 1 .. received'
    BY <1>i, <2>5, <2>6, <2>7
  <2>10. (r + d + h + q + a + l)' = received'
    BY <1>s, <2>6, <2>8, <2>a
  <2> QED BY <1>e, <2>7, <2>9, <2>10 DEF LostInv
<1>4. CASE PushTick
  <2>1. /\ aligner.frame \in Frame /\ aligner'.frame = NoFrame
        /\ log' = Append(log, aligner.frame)
        /\ UNCHANGED <<received, rejected, dropped, hand, ring>>
    BY <1>4, <1>t DEF PushTick, FrameInv, Holding, producerVars
  <2>2. l' = l + 1 /\ Pushed' = Pushed \cup {aligner.frame.n}
    BY <1>q, <2>1, NumbersOfAppend, SMTT(30) DEF Pushed, l
  <2>3. /\ Aligning = {aligner.frame.n} /\ Aligning' = {} /\ UNCHANGED <<InHand, Queued>>
        /\ aligner.frame # NoFrame /\ DropInv'
    BY <1>f, <2>1 DEF Aligning, InHand, Queued, LostInv, DropInv
  <2>4. a = 1 /\ a' = 0
    BY <1>z, <2>1, <2>3
  <2>5. (rejected \cup dropped \cup InHand \cup Queued \cup Aligning \cup Pushed)'
          = 1 .. received'
    BY <1>i, <2>1, <2>2, <2>3
  <2>a. r' = r /\ d' = d /\ h' = h /\ q' = q
    BY <2>1, <2>3 DEF r, d, h, q
  <2>6. (r + d + h + q + a + l)' = received'
    BY <1>s, <2>1, <2>2, <2>4, <2>a
  <2> QED BY <1>e, <2>3, <2>5, <2>6 DEF LostInv
<1>5. CASE \/ NoteMu \/ CountTick \/ Tamper
           \/ Reset \/ ResetPop \/ ResetZero \/ UNCHANGED vars
  <2>1. UNCHANGED <<received, rejected, dropped, hand, ring, log>>
    BY <1>5 DEF NoteMu, CountTick, Tamper, TamperCount, TamperPush, Reset, ResetPop, ResetZero,
                vars, producerVars, outputVars
  <2>2. aligner'.frame = aligner.frame
    BY <1>5, <1>q DEF NoteMu, CountTick, Tamper, TamperCount, TamperPush, Reset, ResetPop,
                      ResetZero, vars
  <2>3. UNCHANGED <<InHand, Queued, Aligning, Pushed>>
    BY <2>1, <2>2 DEF InHand, Queued, Aligning, Pushed
  <2> QED BY <2>1, <2>3 DEF LostInv, NothingLostSilently, DropInv
<1> QED
  BY <1>1, <1>2, <1>3, <1>4, <1>5 DEF Next, AlignerStep, Tamper

(* No frame is lost silently: whatever the threads and a reset interleave, *)
(* each datagram received is refused by the decoder, refused by the full   *)
(* ring, on its way or in the tick log, and in one of these places only    *)
(* (ring.rs's IngressRing::push and main.rs's two ingress threads).        *)
THEOREM NothingIsLost == Spec => []NothingLostSilently
<1>1. Init => LostInv
  <2> SUFFICES ASSUME Init PROVE LostInv
    OBVIOUS
  <2>1. /\ InHand = {} /\ Aligning = {} /\ Queued = {} /\ Pushed = {}
        /\ rejected = {} /\ dropped = {} /\ received = 0
        /\ Len(ring) = 0 /\ Len(log) = 0 /\ 1 .. 0 = {}
    BY DEF Init, InHand, Aligning, Queued, Pushed
  <2>2. Cardinality({}) = 0
    BY FS_EmptySet
  <2> QED BY <2>1, <2>2 DEF Init, LostInv, NothingLostSilently, DropInv
<1>2. TypeInv /\ LostInv /\ [Next]_vars => LostInv'
  BY LostStep
<1>3. LostInv => NothingLostSilently
  BY DEF LostInv
<1> QED BY <1>1, <1>2, <1>3, TypeInvariance, PTL DEF Spec

-------------------------------------------------------------------------------
\* The ids of the aligner's own ticks in a buffer b, and that they rise in it.
Own(b) == {b[i].id : i \in {j \in DOMAIN b : b[j].n # 0}}
OwnRise(b) ==
  \A i, j \in DOMAIN b : (i < j /\ b[i].n # 0 /\ b[j].n # 0) => b[i].id < b[j].id

WindowInv == OwnRise(buf) /\ \A n \in Own(buf) : n < aligner.next

(* A record appended to the buffer.                                        *)
LEMMA OwnAppend ==
  ASSUME NEW b \in Seq(Rec), NEW t \in Rec, OwnRise(b), t.n # 0 => \A n \in Own(b) : n < t.id
  PROVE  /\ OwnRise(Append(b, t))
         /\ Own(Append(b, t)) = IF t.n # 0 THEN Own(b) \cup {t.id} ELSE Own(b)
<1> DEFINE a == Append(b, t)
<1>1. /\ Len(b) \in Nat /\ DOMAIN b = 1 .. Len(b) /\ DOMAIN a = 1 .. (Len(b) + 1)
      /\ \A i \in 1 .. Len(b) : a[i] = b[i]
      /\ a[Len(b) + 1] = t
  BY AppendShape
<1> HIDE DEF a
<1>2. \A i \in DOMAIN a : (i \in DOMAIN b /\ a[i] = b[i]) \/ (i = Len(b) + 1 /\ a[i] = t)
  BY <1>1
<1>3. \A i \in DOMAIN b : i \in DOMAIN a /\ a[i] = b[i]
  BY <1>1
<1>4. Len(b) + 1 \in DOMAIN a /\ a[Len(b) + 1] = t
  BY <1>1
<1>5. Own(a) = IF t.n # 0 THEN Own(b) \cup {t.id} ELSE Own(b)
  <2>1. CASE t.n # 0
    BY <1>2, <1>3, <1>4, <2>1 DEF Own
  <2>2. CASE t.n = 0
    BY <1>2, <1>3, <2>2 DEF Own
  <2> QED BY <2>1, <2>2
<1>6. ASSUME NEW i \in DOMAIN a, NEW j \in DOMAIN a, i < j, a[i].n # 0, a[j].n # 0
      PROVE  a[i].id < a[j].id
  <2>1. i \in DOMAIN b /\ a[i] = b[i]
    BY <1>1, <1>2, <1>6
  <2>2. CASE j \in DOMAIN b
    BY <1>3, <1>6, <2>1, <2>2 DEF OwnRise
  <2>3. CASE j \notin DOMAIN b
    <3>1. a[j] = t
      BY <1>2, <2>3
    <3>2. b[i].id \in Own(b)
      BY <1>6, <2>1 DEF Own
    <3> QED BY <1>6, <2>1, <3>1, <3>2
  <2> QED BY <2>2, <2>3
<1> QED BY <1>5, <1>6 DEF OwnRise, a

(* The oldest record taken from the buffer: if it is the aligner's it is   *)
(* the oldest of the aligner's.                                            *)
LEMMA OwnTail ==
  ASSUME NEW b \in Seq(Rec), b # <<>>, OwnRise(b)
  PROVE  /\ OwnRise(Tail(b)) /\ Own(Tail(b)) \subseteq Own(b)
         /\ \/ Own(Tail(b)) = Own(b)
            \/ \E o \in Own(b) : /\ \A n \in Own(b) : o <= n
                                 /\ Own(Tail(b)) = Own(b) \ {o}
<1> DEFINE a == Tail(b)
<1>1. /\ Len(b) \in Nat \ {0} /\ DOMAIN b = 1 .. Len(b) /\ DOMAIN a = 1 .. (Len(b) - 1)
      /\ \A i \in 1 .. (Len(b) - 1) : a[i] = b[i + 1]
      /\ \A i \in 1 .. Len(b) : b[i].id \in Nat
  <2>1. \A i \in 1 .. Len(b) : b[i] \in Rec
    OBVIOUS
  <2>2. \A t \in Rec : t.id \in Nat
    BY DEF Rec
  <2>3. Len(b) \in Nat \ {0} /\ DOMAIN b = 1 .. Len(b)
    OBVIOUS
  <2>4. /\ Len(a) = Len(b) - 1 /\ a \in Seq(Rec)
        /\ \A i \in 1 .. (Len(b) - 1) : a[i] = b[i + 1]
    BY TailShape
  <2> HIDE DEF a
  <2>5. DOMAIN a = 1 .. (Len(b) - 1)
    BY <2>4
  <2> QED BY <2>1, <2>2, <2>3, <2>4, <2>5
<1> HIDE DEF a
<1>2. \A i \in DOMAIN a : i + 1 \in DOMAIN b /\ i + 1 > 1 /\ a[i] = b[i + 1]
  BY <1>1
<1>3. \A i \in DOMAIN b : i = 1 \/ (i - 1 \in DOMAIN a /\ b[i] = a[i - 1])
  BY <1>1
<1>4. OwnRise(a)
  <2> SUFFICES ASSUME NEW i \in DOMAIN a, NEW j \in DOMAIN a, i < j, a[i].n # 0, a[j].n # 0
               PROVE  a[i].id < a[j].id
    BY DEF OwnRise
  <2>1. i + 1 < j + 1
    BY <1>1
  <2> QED BY <1>2, <2>1 DEF OwnRise
<1>5. Own(a) \subseteq Own(b)
  BY <1>2 DEF Own
<1>6. CASE b[1].n = 0
  <2>1. Own(b) \subseteq Own(a)
    BY <1>3, <1>6 DEF Own
  <2> QED BY <1>4, <1>5, <2>1 DEF a
<1>7. CASE b[1].n # 0
  <2>1. 1 \in DOMAIN b /\ b[1].id \in Own(b)
    BY <1>1, <1>7 DEF Own
  <2>2. \A n \in Own(a) : b[1].id < n
    <3>1. ASSUME NEW i \in DOMAIN a, a[i].n # 0 PROVE b[1].id < a[i].id
      BY <1>2, <1>7, <2>1, <3>1 DEF OwnRise
    <3> QED BY <3>1 DEF Own
  <2>3. \A n \in Own(b) : n = b[1].id \/ n \in Own(a)
    BY <1>3 DEF Own
  <2>4. b[1].id \in Nat /\ \A n \in Own(b) : n \in Nat
    BY <1>1, <2>1 DEF Own
  <2>5. \A n \in Own(b) : b[1].id <= n
    BY <2>2, <2>3, <2>4
  <2>6. Own(a) = Own(b) \ {b[1].id}
    BY <1>5, <2>2, <2>3, <2>4
  <2> QED BY <1>4, <1>5, <2>1, <2>5, <2>6 DEF a
<1> QED BY <1>6, <1>7

\* What a push leaves of the aligner's ticks W when it may retire one: all or all but the oldest.
Spared(W, V) == W = V \/ \E o \in V : (\A n \in V : o <= n) /\ W = V \ {o}

LEMMA OwnPush ==
  ASSUME NEW b \in Seq(Rec), NEW t \in Rec, OwnRise(b), t.n # 0 => \A n \in Own(b) : n < t.id
  PROVE  /\ OwnRise(Push(b, t))
         /\ \E W \in SUBSET Own(b) :
              /\ Spared(W, Own(b))
              /\ Own(Push(b, t)) = IF t.n # 0 THEN W \cup {t.id} ELSE W
<1> DEFINE c == IF Len(b) >= Capacity THEN Tail(b) ELSE b
<1>1. /\ c \in Seq(Rec) /\ OwnRise(c) /\ Own(c) \subseteq Own(b) /\ Spared(Own(c), Own(b))
  <2>1. CASE Len(b) >= Capacity
    <3>1. b # <<>>
      BY <2>1, CapacityAssumption
    <3>2. Tail(b) \in Seq(Rec)
      BY <3>1, TailShape
    <3> QED BY <2>1, <3>1, <3>2, OwnTail DEF Spared
  <2>2. CASE ~(Len(b) >= Capacity)
    BY <2>2 DEF Spared
  <2> QED BY <2>1, <2>2
<1>2. Push(b, t) = Append(c, t)
  BY DEF Push
<1> HIDE DEF c
<1>3. /\ OwnRise(Append(c, t))
      /\ Own(Append(c, t)) = IF t.n # 0 THEN Own(c) \cup {t.id} ELSE Own(c)
  BY <1>1, OwnAppend
<1> QED BY <1>1, <1>2, <1>3

(* The least of a set of numbers is what TickWindow calls the oldest.      *)
LEMMA OldestIs ==
  ASSUME OwnIds \in SUBSET Nat, NEW o \in OwnIds, \A n \in OwnIds : o <= n
  PROVE  Ticks!Oldest = o
<1>1. \A x \in OwnIds : (\A m \in OwnIds : x <= m) => x = o
  OBVIOUS
<1> QED BY <1>1 DEF Ticks!Oldest

LEMMA OwnAreIds == ASSUME TypeInv PROVE OwnIds = Own(buf) /\ OwnIds \in SUBSET Nat
<1>1. \A i \in DOMAIN buf : buf[i].id \in Nat
  <2>1. buf \in Seq(Rec) /\ \A t \in Rec : t.id \in Nat
    BY DEF TypeInv, TypeOK, Rec
  <2> QED BY <2>1
<1> QED BY <1>1 DEF OwnIds, Own

\* What a step does to the buffer and to the aligner's next id.
LEMMA WindowStep ==
  ASSUME TypeInv, WindowInv, [Next]_vars, TypeInv'
  PROVE  WindowInv' /\ [Ticks!WindowNext]_(Ticks!windowVars)
<1>t. TypeOK /\ FrameInv
  BY DEF TypeInv
<1>a. /\ aligner \in [pc : {"pop", "note", "push", "count"}, frame : Frame \cup {NoFrame},
                       next : Nat]
      /\ aligner.next \in Nat /\ buf \in Seq(Rec)
      /\ tamper \in [Operators -> Nat \cup {NoTamper}]
  BY <1>t DEF TypeOK, Rec
<1>w. OwnRise(buf) /\ \A n \in Own(buf) : n < aligner.next
  BY DEF WindowInv
<1>o. OwnIds = Own(buf) /\ OwnIds \in SUBSET Nat /\ OwnIds' = Own(buf') /\ OwnIds' \in SUBSET Nat
  <2>1. OwnIds = Own(buf) /\ OwnIds \in SUBSET Nat
    BY OwnAreIds
  <2>2. \A i \in DOMAIN buf' : buf'[i].id \in Nat
    <3>1. buf' \in Seq(Rec) /\ \A t \in Rec : t.id \in Nat
      BY DEF TypeInv, TypeOK, Rec
    <3> QED BY <3>1
  <2> QED BY <2>1, <2>2 DEF OwnIds, Own
\* A set of ids from which the oldest may be gone.
<1>s. ASSUME NEW W, Spared(W, Own(buf)), W # Own(buf)
      PROVE  OwnIds # {} /\ W = OwnIds \ {Ticks!Oldest}
  BY <1>o, <1>s, OldestIs DEF Spared
<1>1. CASE PushTick
  <2>1. /\ aligner.pc = "push" /\ aligner'.next = aligner.next + 1
        /\ buf' = Push(buf, [id |-> aligner.next, n |-> aligner.frame.n])
    BY <1>1, <1>a DEF PushTick, TickId
  <2>2. PICK t \in Rec : t = [id |-> aligner.next, n |-> aligner.frame.n] /\ t.n # 0
    <3>1. aligner.frame \in Frame
      BY <1>t, <2>1 DEF FrameInv, Holding
    <3>2. aligner.frame.n \in 1 .. MaxDatagrams
      BY <3>1 DEF Frame
    <3>3. aligner.frame.n \in 0 .. MaxDatagrams /\ aligner.frame.n # 0
      BY <3>2, IngressAssumption
    <3>4. [id |-> aligner.next, n |-> aligner.frame.n] \in Rec
      BY <1>a, <3>3 DEF Rec
    <3> QED BY <3>3, <3>4
  <2>3. \A n \in Own(buf) : n < t.id
    BY <1>w, <2>2
  <2>4. PICK W \in SUBSET Own(buf) : Spared(W, Own(buf)) /\ Own(Push(buf, t)) = W \cup {t.id}
    BY <1>a, <1>w, <2>2, <2>3, OwnPush
  <2>5. OwnRise(Push(buf, t))
    BY <1>a, <1>w, <2>2, <2>3, OwnPush
  <2>6. Own(buf') = W \cup {aligner.next} /\ OwnRise(buf')
    BY <2>1, <2>2, <2>4, <2>5
  <2>7. WindowInv'
    <3>1. \A n \in Own(buf) : n \in Nat /\ n < aligner.next
      BY <1>o, <1>w
    <3>2. \A n \in Own(buf') : n < aligner'.next
      BY <1>a, <2>1, <2>4, <2>6, <3>1
    <3> QED BY <2>6, <3>2 DEF WindowInv, OwnRise, Own
  <2>8. Ticks!Emit
    <3>1. CASE W = Own(buf)
      BY <1>o, <2>1, <2>6, <3>1 DEF Ticks!Emit
    <3>2. CASE W # Own(buf)
      BY <1>o, <1>s, <2>1, <2>4, <2>6, <3>2 DEF Ticks!Emit
    <3> QED BY <3>1, <3>2
  <2> QED BY <2>7, <2>8 DEF Ticks!WindowNext
\* The other steps leave the aligner's next id alone; some spare all its ticks but the oldest.
<1>2. ASSUME aligner'.next = aligner.next, OwnRise(buf'), Spared(Own(buf'), Own(buf))
      PROVE  WindowInv' /\ [Ticks!WindowNext]_(Ticks!windowVars)
  <2>1. Own(buf') \subseteq Own(buf)
    BY <1>2 DEF Spared
  <2>2. WindowInv'
    BY <1>w, <1>2, <2>1 DEF WindowInv, OwnRise, Own
  <2>3. CASE Own(buf') = Own(buf)
    BY <1>o, <1>2, <2>2, <2>3 DEF Ticks!windowVars
  <2>4. CASE Own(buf') # Own(buf)
    <3>1. Ticks!Retire
      BY <1>o, <1>s, <1>2, <2>4 DEF Ticks!Retire
    <3> QED BY <2>2, <3>1 DEF Ticks!WindowNext
  <2> QED BY <2>3, <2>4
<1>3. ASSUME UNCHANGED buf, aligner'.next = aligner.next
      PROVE  WindowInv' /\ [Ticks!WindowNext]_(Ticks!windowVars)
  BY <1>w, <1>2, <1>3 DEF Spared
<1>4. ASSUME NEW o \in Operators, TamperPush(o)
      PROVE  WindowInv' /\ [Ticks!WindowNext]_(Ticks!windowVars)
  <2>1. /\ tamper[o] # NoTamper /\ buf' = Push(buf, [id |-> tamper[o], n |-> 0])
        /\ UNCHANGED aligner
    BY <1>4 DEF TamperPush
  <2>2. PICK t \in Rec : t = [id |-> tamper[o], n |-> 0] /\ t.n = 0
    BY <1>a, <2>1, IngressAssumption DEF Rec
  <2>3. OwnRise(Push(buf, t)) /\ Spared(Own(Push(buf, t)), Own(buf))
    BY <1>a, <1>w, <2>2, OwnPush
  <2> QED BY <1>2, <2>1, <2>2, <2>3
<1>5. CASE ResetPop
  <2>1. UNCHANGED aligner
    BY <1>5 DEF ResetPop
  <2>2. CASE buf = <<>>
    BY <1>3, <1>5, <2>1, <2>2 DEF ResetPop
  <2>3. CASE buf # <<>>
    <3>1. buf' = Tail(buf)
      BY <1>5, <2>3 DEF ResetPop
    <3>2. OwnRise(Tail(buf)) /\ Spared(Own(Tail(buf)), Own(buf))
      BY <1>a, <1>w, <2>3, OwnTail DEF Spared
    <3> QED BY <1>2, <2>1, <3>1, <3>2
  <2> QED BY <2>2, <2>3
<1>6. CASE \/ Receive \/ Offer \/ Reset \/ ResetZero \/ UNCHANGED vars
           \/ \E o \in Operators : TamperCount(o)
  BY <1>3, <1>6 DEF Receive, Offer, Reset, ResetZero, TamperCount, vars, outputVars
<1>7. CASE PopRing \/ NoteMu \/ CountTick
  <2>1. UNCHANGED buf
    BY <1>7 DEF PopRing, NoteMu, CountTick, outputVars
  <2>2. aligner'.next = aligner.next
    BY <1>7, <1>a DEF PopRing, NoteMu, CountTick
  <2> QED BY <1>3, <2>1, <2>2
<1> QED
  BY <1>1, <1>4, <1>5, <1>6, <1>7 DEF Next, AlignerStep

(* The ingress implements a TickWindow: among the tampered records other   *)
(* requests put in between and under resets that race with it, its ids     *)
(* stay consecutive and the buffer retires the oldest of them first.       *)
THEOREM IngressRefinement == Spec => ImplementsWindow
<1>1. Init => WindowInv /\ Ticks!WindowInit
  BY DEF Init, WindowInv, OwnRise, Own, Ticks!WindowInit, OwnIds
<1>2. TypeInv /\ TypeInv' /\ WindowInv /\ [Next]_vars =>
        WindowInv' /\ [Ticks!WindowNext]_(Ticks!windowVars)
  BY WindowStep
<1> QED
  BY <1>1, <1>2, TypeInvariance, PTL DEF Spec, ImplementsWindow, Ticks!WindowSpec
===============================================================================
