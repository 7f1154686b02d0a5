--------------------------- MODULE NorthboundProofs ---------------------------
(***************************************************************************)
(* Machine-checked facts about Northbound, for every buffer and channel    *)
(* capacity, every set of browsers and readers and every bound; and about  *)
(* the times its OPC UA side shows (UaTime), for every width of integers.  *)
(***************************************************************************)
EXTENDS Northbound, UaTime, TickBufferProofs

Rec == [id : Nat, n : Nat \ {0}]
Snap == [id : Nat, n : Nat]

SourceType ==
  /\ buf \in Seq(Rec) /\ Len(buf) <= Capacity
  /\ ticksEmitted \in Nat /\ counted \in Nat /\ pushes \in Nat
  /\ source \in [pc : {"push", "count"}, next : Nat]
  /\ handler \in [pc : {"idle", "tamper", "reset", "zero"}, arg : Nat]

BridgeType ==
  /\ bridge \in [pc : {"read", "record", "store"}, cursor : Nat \cup {NoCursor}, snap : Snap]
  /\ l1 \in [last : Nat, total : Nat]
  /\ latest \in Snap
  /\ publisher \in [pc : {"clone", "set"}, snap : Snap]
  /\ space \in [id : Nat \cup {NoCursor}, n : Nat]

\* The rates shown are covered by what was counted up to the last metrics event, and
\* what the counter has gained since is covered by what was counted since.
RateInv ==
  /\ emitter \in [pc : {"off", "wave", "metrics", "qse"}, last : Nat]
  /\ rates \in [number : Nat, mark : Nat, excess : BOOLEAN, sum : Nat]
  /\ ticksEmitted <= counted /\ rates.mark <= counted
  /\ rates.number = 0 => rates.sum = 0
  /\ rates.number > 0 => /\ emitter.pc # "off"
                         /\ rates.sum <= rates.mark
                         /\ ticksEmitted - emitter.last <= counted - rates.mark
  /\ rates.number > 1 => ~rates.excess

\* What the bridge has not read yet, although its cursor lets it, was pushed later than
\* all it has read: ids may start again at 0, the records' numbers never do.
UnreadInv ==
  /\ \A i \in DOMAIN buf : /\ buf[i].n <= pushes
                           /\ buf[i].id > bridge.cursor => buf[i].n > bridge.snap.n
  /\ bridge.snap.n <= pushes
  /\ \/ bridge.snap.id = bridge.cursor /\ bridge.snap.n > 0
     \/ bridge.cursor = NoCursor /\ bridge.snap = NoData

\* a is b, or an earlier snapshot.
AtMost(a, b) == a = b \/ (a.id <= b.id /\ a.n < b.n)

\* The stations of a tick, each at most the one before it.
ChainInv ==
  /\ AtMost(latest, bridge.snap)
  /\ latest = NoData \/ latest.n > 0
  /\ publisher.pc = "set" => /\ publisher.snap.n > 0
                             /\ AtMost(publisher.snap, latest) /\ AtMost(space, publisher.snap)
  /\ space = NeverSet \/ AtMost(space, latest)

-------------------------------------------------------------------------------
LEMMA RecFields ==
  /\ \A r \in Rec : r.id \in Nat /\ r.n \in Nat /\ r.n > 0
  /\ \A b \in Seq(Rec) : \A i \in DOMAIN b : b[i] \in Rec
<1>1. \A r \in Rec : r.id \in Nat /\ r.n \in Nat /\ r.n > 0
  BY DEF Rec
<1>2. \A b \in Seq(Rec) : \A i \in DOMAIN b : b[i] \in Rec
  OBVIOUS
<1> QED BY <1>1, <1>2

(* The batch of read_since has a record of the greatest id; CursorAfter    *)
(* and LastRow are that id and, of those that have it, the first pushed.   *)
LEMMA ReadShape ==
  ASSUME NEW b \in Seq(Rec), NEW c \in Nat \cup {NoCursor}, FreshRecords(b, c) # {}
  PROVE  /\ LastRow(b, c) \in Rec
         /\ \E i \in DOMAIN b : b[i] = LastRow(b, c) /\ b[i].id > c
         /\ LastRow(b, c).id = CursorAfter(b, c)
         /\ \A i \in DOMAIN b : b[i].id <= CursorAfter(b, c)
<1> DEFINE fresh == FreshRecords(b, c)
           ids == FreshIds(b, c)
<1>1. \A i \in DOMAIN b : b[i] \in Rec /\ b[i].id \in Nat /\ b[i].n \in Nat
  BY RecFields
<1>2. \A t \in fresh : t \in Rec /\ \E i \in DOMAIN b : b[i] = t /\ b[i].id > c
  BY <1>1 DEF FreshRecords
<1>3. \A i \in DOMAIN b : b[i].id > c => b[i] \in fresh
  BY DEF FreshRecords
<1>4. ids = {t.id : t \in fresh}
  BY DEF FreshIds, Ids, FreshRecords
<1>5. ids \in SUBSET Nat /\ ids # {}
  BY <1>2, <1>4 DEF Rec
<1>6. PICK bound \in Nat : \A i \in DOMAIN b : b[i].id <= bound
  <2> DEFINE f == [i \in DOMAIN b |-> b[i].id]
  <2>1. Len(b) \in Nat /\ DOMAIN b = 1 .. Len(b)
    OBVIOUS
  <2>2. \A i \in 1 .. Len(b) : f[i] \in Nat
    BY <1>1, <2>1
  <2>3. \A i \in DOMAIN b : f[i] = b[i].id
    OBVIOUS
  <2> HIDE DEF f
  <2>4. \E k \in Nat : \A i \in 1 .. Len(b) : f[i] <= k
    BY <2>1, <2>2, FiniteIsBounded
  <2> QED BY <2>1, <2>3, <2>4
<1>7. \A m \in ids : m <= bound
  BY <1>2, <1>4, <1>6
<1>8. \E m \in ids : \A n \in ids : n <= m
  <2> HIDE DEF ids
  <2> QED BY <1>5, <1>7, GreatestExists
<1>9. CursorAfter(b, c) \in ids /\ \A n \in ids : n <= CursorAfter(b, c)
  BY <1>5, <1>8 DEF CursorAfter
<1> DEFINE top == CursorAfter(b, c)
           numbers == {t.n : t \in {u \in fresh : u.id = top}}
<1>10. numbers \in SUBSET Nat /\ numbers # {}
  BY <1>2, <1>4, <1>9 DEF Rec
<1>11. PICK least \in numbers : \A n \in numbers : least <= n
  <2> HIDE DEF numbers
  <2> QED BY <1>10, LeastExists
<1>12. PICK t \in fresh : t.id = top /\ t.n = least
  OBVIOUS
<1>13. \A u \in fresh : u.id \in Nat /\ u.n \in Nat /\ u.id <= top /\ (u.id = top => least <= u.n)
  <2> SUFFICES ASSUME NEW u \in fresh
               PROVE  /\ u.id \in Nat /\ u.n \in Nat /\ u.id <= top
                      /\ u.id = top => least <= u.n
    OBVIOUS
  <2>1. u.id \in Nat /\ u.n \in Nat
    BY <1>2, RecFields
  <2>2. u.id \in ids
    BY <1>4
  <2>3. u.id = top => u.n \in numbers
    OBVIOUS
  <2> HIDE DEF fresh, top, numbers, ids
  <2> QED BY <1>9, <1>11, <2>1, <2>2, <2>3 DEF top
<1>14. top \in Nat
  BY <1>5, <1>9
<1>15. \A u \in fresh : u.id < t.id \/ (u.id = t.id /\ t.n <= u.n)
  <2> HIDE DEF fresh, top, numbers
  <2> QED BY <1>12, <1>13, <1>14
<1>16. /\ LastRow(b, c) \in fresh
       /\ \A u \in fresh : \/ u.id < LastRow(b, c).id
                           \/ u.id = LastRow(b, c).id /\ LastRow(b, c).n <= u.n
  <2> HIDE DEF top, numbers
  <2> QED BY <1>12, <1>15 DEF LastRow
<1>17. LastRow(b, c).id = top
  <2>1. LastRow(b, c).id \in Nat /\ LastRow(b, c).id <= top
    BY <1>13, <1>16
  <2>2. t.id < LastRow(b, c).id \/ t.id = LastRow(b, c).id
    BY <1>12, <1>16
  <2> HIDE DEF fresh, top, numbers
  <2> QED BY <1>12, <1>14, <2>1, <2>2
<1>18. \A i \in DOMAIN b : b[i].id <= top
  <2> SUFFICES ASSUME NEW i \in DOMAIN b PROVE b[i].id <= top
    OBVIOUS
  <2>1. CASE b[i].id > c
    BY <1>3, <1>13, <2>1
  <2>2. CASE ~(b[i].id > c)
    <3>1. \E u \in fresh : u.id = top /\ u.id > c
      BY <1>2, <1>4, <1>9
    <3> HIDE DEF fresh, top, numbers
    <3> QED BY <1>1, <1>14, <2>2, <3>1 DEF NoCursor
  <2> QED BY <2>1, <2>2
<1> QED BY <1>2, <1>16, <1>17, <1>18

-------------------------------------------------------------------------------
(* What a step of the pipeline does to the buffer: no record but one new   *)
(* one, with the next number.                                              *)
LEMMA SourceStepShape ==
  ASSUME SourceType, SourceNext
  PROVE  /\ SourceType'
         /\ pushes <= pushes'
         /\ \A i \in DOMAIN buf' : \/ \E j \in DOMAIN buf : buf'[i] = buf[j]
                                   \/ buf'[i].n = pushes' /\ pushes' = pushes + 1
<1> DEFINE Goal == /\ pushes <= pushes'
                   /\ buf' \in Seq(Rec) /\ Len(buf') <= Capacity /\ pushes' \in Nat
                   /\ \A i \in DOMAIN buf' : \/ \E j \in DOMAIN buf : buf'[i] = buf[j]
                                             \/ buf'[i].n = pushes' /\ pushes' = pushes + 1
<1>1. ASSUME NEW id \in Nat, PushRecord(id) PROVE Goal
  <2> DEFINE t == [id |-> id, n |-> pushes + 1]
  <2>1. t \in Rec /\ t.n = pushes + 1
    BY DEF SourceType, Rec
  <2>2. buf' = Push(buf, t) /\ pushes' = pushes + 1
    BY <1>1 DEF PushRecord
  <2> HIDE DEF t
  <2>3. buf \in Seq(Rec) /\ Len(buf) <= Capacity
    BY DEF SourceType
  <2>4. /\ buf' \in Seq(Rec) /\ Len(buf') <= Capacity
        /\ \A i \in DOMAIN buf' : buf'[i] = t \/ \E j \in DOMAIN buf : buf'[i] = buf[j]
    BY <2>1, <2>2, <2>3, PushMembers
  <2>5. pushes' \in Nat /\ pushes <= pushes'
    BY <2>2 DEF SourceType
  <2> QED BY <2>1, <2>2, <2>4, <2>5
<1>2. ASSUME UNCHANGED <<buf, pushes>> PROVE Goal
  BY <1>2 DEF SourceType
<1>3. CASE PushTick
  <2>1. source.next \in Nat /\ source' \in [pc : {"push", "count"}, next : Nat]
    BY <1>3 DEF PushTick, SourceType
  <2>2. Goal
    BY <1>1, <1>3, <2>1 DEF PushTick
  <2> HIDE DEF Goal
  <2> QED BY <1>3, <2>1, <2>2 DEF PushTick, SourceType, Goal
<1>4. CASE CountTick
  BY <1>2, <1>4 DEF CountTick, AddTick, SourceType
<1>5. CASE Restart
  BY <1>2, <1>5 DEF Restart, SourceType
<1>6. CASE TamperCount
  BY <1>2, <1>6, SourceAssumption DEF TamperCount, AddTick, SourceType
<1>7. CASE TamperPush
  <2>1. handler.arg \in Nat
    BY DEF SourceType
  <2>2. Goal
    BY <1>1, <1>7, <2>1 DEF TamperPush
  <2> HIDE DEF Goal
  <2> QED BY <1>7, <2>1, <2>2 DEF TamperPush, SourceType, Goal
<1>8. CASE Reset
  BY <1>2, <1>8 DEF Reset, SourceType
<1>9. CASE ResetPop
  <2>1. CASE buf = <<>>
    BY <1>2, <1>9, <2>1 DEF ResetPop, SourceType
  <2>2. CASE buf # <<>>
    <3>1. buf' = Tail(buf) /\ UNCHANGED <<ticksEmitted, source, pushes, counted, handler>>
      BY <1>9, <2>2 DEF ResetPop
    <3>2. /\ buf' \in Seq(Rec) /\ Len(buf') = Len(buf) - 1
          /\ \A i \in 1 .. (Len(buf) - 1) : buf'[i] = buf[i + 1]
      BY <2>2, <3>1, TailShape DEF SourceType
    <3>3. Len(buf) \in Nat /\ DOMAIN buf = 1 .. Len(buf) /\ DOMAIN buf' = 1 .. Len(buf')
      BY <3>2 DEF SourceType
    <3>4. \A i \in DOMAIN buf' : i \in 1 .. (Len(buf) - 1) /\ i + 1 \in DOMAIN buf
      BY <3>2, <3>3
    <3>5. \A i \in DOMAIN buf' : \E j \in DOMAIN buf : buf'[i] = buf[j]
      BY <3>2, <3>4
    <3>6. Len(buf') <= Capacity
      BY <3>2, <3>3, CapacityAssumption DEF SourceType
    <3> QED BY <3>1, <3>2, <3>5, <3>6 DEF SourceType
  <2> QED BY <2>1, <2>2
<1>10. CASE ResetTicks
  BY <1>2, <1>10 DEF ResetTicks, SourceType
<1> QED
  BY <1>3, <1>4, <1>5, <1>6, <1>7, <1>8, <1>9, <1>10 DEF SourceNext

-------------------------------------------------------------------------------
(* The inductive invariant of the whole composition.                       *)
IInv == SourceType /\ BridgeType /\ RateInv /\ UnreadInv /\ ChainInv

LEMMA InitIInv == Init => IInv
<1> SUFFICES ASSUME Init PROVE IInv
  OBVIOUS
<1> USE DEF Init
<1>1. SourceType
  BY CapacityAssumption DEF SourceInit, SourceType
<1>2. BridgeType
  BY DEF BridgeInit, BridgeType, NoData, NeverSet, Snap
<1>3. RateInv
  BY DEF SourceInit, SseInit, RateInv
<1>4. UnreadInv
  BY DEF SourceInit, BridgeInit, UnreadInv, NoData
<1>5. ChainInv
  BY DEF BridgeInit, ChainInv, AtMost, NoData
<1> QED BY <1>1, <1>2, <1>3, <1>4, <1>5 DEF IInv

(* The pipeline's steps: the counter gains no more than what is counted,   *)
(* and a new record has a number above all that were read.                 *)
LEMMA SourceKeepsIInv == IInv /\ SourceStep => IInv'
<1> SUFFICES ASSUME IInv, SourceStep PROVE IInv'
  OBVIOUS
<1>1. /\ SourceType /\ BridgeType /\ RateInv /\ UnreadInv /\ ChainInv
      /\ SourceNext /\ UNCHANGED bridgeVars /\ UNCHANGED sseVars
  BY DEF IInv, SourceStep
<1>2. /\ SourceType' /\ pushes <= pushes'
      /\ \A i \in DOMAIN buf' : \/ \E j \in DOMAIN buf : buf'[i] = buf[j]
                                \/ buf'[i].n = pushes' /\ pushes' = pushes + 1
  BY <1>1, SourceStepShape
<1>3. BridgeType'
  BY <1>1 DEF BridgeType, bridgeVars
<1>4. ChainInv'
  BY <1>1 DEF ChainInv, bridgeVars
<1>5. RateInv'
  <2>1. \/ ticksEmitted' = ticksEmitted /\ counted' = counted
        \/ ticksEmitted' = ticksEmitted + 1 /\ counted' = counted + 1
        \/ ticksEmitted' = 0 /\ counted' = counted
    BY <1>1 DEF SourceNext, PushTick, CountTick, Restart, TamperCount, TamperPush, Reset,
                ResetPop, ResetTicks, AddTick
  <2>2. emitter' = emitter /\ rates' = rates
    BY <1>1 DEF sseVars
  <2>3. /\ ticksEmitted \in Nat /\ counted \in Nat
        /\ emitter.last \in Nat /\ rates.mark \in Nat
    BY <1>1 DEF SourceType, RateInv
  <2> QED BY <1>1, <2>1, <2>2, <2>3 DEF RateInv
<1>6. UnreadInv'
  <2>1. bridge' = bridge
    BY <1>1 DEF bridgeVars
  <2>2. /\ bridge.snap.n \in Nat /\ bridge.cursor \in Nat \cup {NoCursor}
        /\ pushes \in Nat /\ pushes' \in Nat
        /\ bridge.snap.n <= pushes
    BY <1>1, <1>2 DEF BridgeType, Snap, SourceType, UnreadInv
  <2>3. ASSUME NEW i \in DOMAIN buf'
        PROVE  /\ buf'[i].n <= pushes'
               /\ buf'[i].id > bridge.cursor => buf'[i].n > bridge.snap.n
    <3>1. CASE \E j \in DOMAIN buf : buf'[i] = buf[j]
      <4>1. PICK j \in DOMAIN buf : buf'[i] = buf[j]
        BY <3>1
      <4>2. /\ buf[j].n <= pushes
            /\ buf[j].id > bridge.cursor => buf[j].n > bridge.snap.n
        BY <1>1 DEF UnreadInv
      <4>3. buf[j].n \in Nat
        BY <1>1, RecFields DEF SourceType
      <4> QED BY <1>2, <2>2, <4>1, <4>2, <4>3
    <3>2. CASE buf'[i].n = pushes' /\ pushes' = pushes + 1
      BY <2>2, <3>2
    <3> QED BY <1>2, <3>1, <3>2
  <2>4. bridge.snap.n <= pushes'
    BY <1>2, <2>2
  <2> QED BY <1>1, <2>1, <2>3, <2>4 DEF UnreadInv
<1> QED BY <1>2, <1>3, <1>4, <1>5, <1>6 DEF IInv

(* The emitter and the browsers: a rate is a difference of two readings.   *)
LEMMA SseKeepsIInv ==
  ASSUME IInv, UNCHANGED <<sourceVars, bridgeVars>>,
         \/ EmitterNext
         \/ \E b \in Browsers : StreamNext(b) \/ BrowserNext(b)
  PROVE  IInv'
<1>1. SourceType /\ BridgeType /\ RateInv /\ UnreadInv /\ ChainInv
  BY DEF IInv
<1>2. SourceType' /\ UnreadInv'
  BY <1>1 DEF SourceType, UnreadInv, sourceVars, bridgeVars
<1>3. BridgeType' /\ ChainInv'
  BY <1>1 DEF BridgeType, ChainInv, bridgeVars
<1>5. UNCHANGED <<ticksEmitted, counted>>
  BY DEF sourceVars
<1>6. RateInv'
  <2> USE <1>1, <1>5
  <2>1. CASE SendMetrics
    <3> DEFINE delta == Delta(ticksEmitted, emitter.last)
    <3>1. /\ ticksEmitted \in Nat /\ counted \in Nat
          /\ emitter.last \in Nat /\ rates.mark \in Nat /\ rates.number \in Nat /\ rates.sum \in Nat
      BY DEF SourceType, RateInv
    <3>2. /\ emitter' = [pc |-> "qse", last |-> ticksEmitted]
          /\ rates' = [number |-> rates.number + (IF rates.number < 2 THEN 1 ELSE 0),
                       mark |-> counted, excess |-> delta > counted - rates.mark,
                       sum |-> rates.sum + delta]
      BY <2>1 DEF SendMetrics
    <3>3. delta \in Nat /\ delta <= ticksEmitted /\ delta \in {0, ticksEmitted - emitter.last}
      BY <3>1 DEF Delta
    <3> HIDE DEF delta
    <3>4. rates.number = 0 \/ (rates.number > 0 /\ delta <= counted - rates.mark)
      BY <3>1, <3>3 DEF RateInv
    <3>5. rates.sum + delta <= counted
      BY <3>1, <3>3, <3>4 DEF RateInv
    <3>6. rates'.number \in Nat /\ rates'.number > 0 /\ (rates'.number > 1 => rates.number > 0)
      BY <3>1, <3>2
    <3>7. rates'.number > 1 => ~rates'.excess
      <4>1. rates.number > 0 => ~(delta > counted - rates.mark)
        BY <3>1, <3>3, <3>4
      <4>2. rates'.excess = (delta > counted - rates.mark)
        BY <3>2
      <4> QED BY <3>6, <4>1, <4>2, Zenon
    <3>8. /\ rates'.mark = counted /\ rates'.sum = rates.sum + delta
          /\ emitter'.pc = "qse" /\ emitter'.last = ticksEmitted
      BY <3>2
    <3>9. /\ emitter' \in [pc : {"off", "wave", "metrics", "qse"}, last : Nat]
          /\ rates' \in [number : Nat, mark : Nat, excess : BOOLEAN, sum : Nat]
      BY <3>1, <3>2, <3>3
    <3>10. ticksEmitted <= counted
      BY DEF RateInv
    <3> QED BY <3>1, <3>5, <3>6, <3>7, <3>8, <3>9, <3>10 DEF RateInv
  <2>2. CASE SendWave \/ NotYetDue \/ SendQse \/ NoQse
    <3>1. rates' = rates /\ emitter.pc # "off"
      BY <2>2 DEF SendWave, NotYetDue, SendQse, NoQse
    <3>2. /\ emitter' \in [pc : {"off", "wave", "metrics", "qse"}, last : Nat]
          /\ emitter'.last = emitter.last /\ emitter'.pc # "off"
      BY <2>2 DEF SendWave, NotYetDue, SendQse, NoQse, RateInv
    <3> QED BY <3>1, <3>2 DEF RateInv
  <2>3. ASSUME NEW b \in Browsers, OpenStream(b) PROVE RateInv'
    <3>1. CASE emitter.pc = "off"
      <4>1. /\ emitter' = [emitter EXCEPT !.pc = "wave"]
            /\ rates' = [rates EXCEPT !.mark = counted]
        BY <2>3, <3>1 DEF OpenStream
      <4>2. rates.number \in Nat /\ ~(rates.number > 0) /\ counted \in Nat /\ ticksEmitted \in Nat
        BY <3>1 DEF RateInv, SourceType
      <4>3. /\ rates'.number = 0 /\ rates'.mark = counted /\ rates'.sum = rates.sum
            /\ rates' \in [number : Nat, mark : Nat, excess : BOOLEAN, sum : Nat]
            /\ emitter' \in [pc : {"off", "wave", "metrics", "qse"}, last : Nat]
        BY <4>1, <4>2 DEF RateInv
      <4> QED BY <4>2, <4>3 DEF RateInv
    <3>2. CASE emitter.pc # "off"
      BY <2>3, <3>2 DEF OpenStream, RateInv
    <3> QED BY <3>1, <3>2
  <2>4. ASSUME NEW b \in Browsers, StreamNext(b) \/ CloseTab(b) PROVE RateInv'
    BY <2>4 DEF StreamNext, SubscribeStream, Deliver, Lagged, CloseTab, RateInv
  <2> QED BY <2>1, <2>2, <2>3, <2>4 DEF EmitterNext, BrowserNext
<1> QED BY <1>1, <1>2, <1>3, <1>6 DEF IInv

-------------------------------------------------------------------------------
LEMMA AtMostIsTransitive ==
  ASSUME NEW a \in [id : Nat \cup {NoCursor}, n : Nat], NEW b \in Snap, NEW c \in Snap,
         AtMost(a, b), AtMost(b, c)
  PROVE  AtMost(a, c)
<1>1. /\ a.id \in Int /\ b.id \in Int /\ c.id \in Int
      /\ a.n \in Int /\ b.n \in Int /\ c.n \in Int
  BY DEF Snap, NoCursor
<1> QED BY <1>1 DEF AtMost

(* The bridge reads what is newer in id and number, counts it, stores it.  *)
LEMMA BridgeKeepsIInv ==
  ASSUME IInv, BridgeNext, UNCHANGED <<sourceVars, sseVars>>
  PROVE  IInv'
<1>1. SourceType /\ BridgeType /\ RateInv /\ UnreadInv /\ ChainInv
  BY DEF IInv
<1>2. SourceType' /\ RateInv'
  BY <1>1 DEF SourceType, RateInv, sourceVars, sseVars
<1>3. /\ buf' = buf /\ pushes' = pushes
      /\ buf \in Seq(Rec) /\ pushes \in Nat
  BY <1>1 DEF sourceVars, SourceType
<1>4. /\ bridge.pc \in {"read", "record", "store"}
      /\ bridge.cursor \in Nat \cup {NoCursor} /\ bridge.snap \in Snap
      /\ bridge.snap.id \in Nat /\ bridge.snap.n \in Nat
      /\ bridge = [pc |-> bridge.pc, cursor |-> bridge.cursor, snap |-> bridge.snap]
      /\ l1.last \in Nat /\ l1.total \in Nat
      /\ latest \in Snap /\ latest.id \in Nat /\ latest.n \in Nat
  BY <1>1 DEF BridgeType, Snap
<1>5. UNCHANGED <<publisher, space>>
  BY DEF BridgeNext, BridgeRead, BridgeRecord, BridgeStore, BridgeStep
<1>6. CASE BridgeRead
  <2> DEFINE cursor == CursorAfter(buf, bridge.cursor)
             snap == LastRow(buf, bridge.cursor)
  <2>1. /\ bridge.pc = "read" /\ FreshRecords(buf, bridge.cursor) # {}
        /\ bridge' = [pc |-> "record", cursor |-> cursor, snap |-> snap]
        /\ l1' = l1 /\ latest' = latest
    BY <1>6 DEF BridgeRead, BridgeStep
  <2>2. /\ snap \in Rec
        /\ \E i \in DOMAIN buf : buf[i] = snap /\ buf[i].id > bridge.cursor
        /\ snap.id = cursor
        /\ \A i \in DOMAIN buf : buf[i].id <= cursor
    BY <1>3, <1>4, <2>1, ReadShape
  <2>3. /\ snap.id \in Nat /\ snap.n \in Nat /\ snap.n > 0 /\ snap \in Snap
        /\ snap.id > bridge.cursor /\ snap.n > bridge.snap.n /\ snap.n <= pushes
    BY <1>1, <2>2 DEF Rec, Snap, UnreadInv
  <2>4. bridge'.pc = "record" /\ bridge'.cursor = cursor /\ bridge'.snap = snap
    BY <2>1
  <2> HIDE DEF cursor, snap
  <2>5. BridgeType'
    BY <1>1, <1>5, <2>1, <2>2, <2>3 DEF BridgeType
  <2>6. UnreadInv'
    <3>1. \A i \in DOMAIN buf : buf[i].n <= pushes /\ ~(buf[i].id > cursor)
      BY <1>1, <1>3, <2>2, <2>3, RecFields DEF UnreadInv
    <3> QED BY <1>3, <2>2, <2>3, <2>4, <3>1 DEF UnreadInv
  <2>7. AtMost(bridge.snap, snap)
    <3>1. bridge.snap.id = bridge.cursor \/ bridge.snap.id = 0
      BY <1>1 DEF UnreadInv, NoData
    <3> QED BY <1>4, <2>3, <3>1 DEF AtMost
  <2>8. AtMost(latest, snap)
    <3>1. latest \in [id : Nat \cup {NoCursor}, n : Nat] /\ AtMost(latest, bridge.snap)
      BY <1>1, <1>4 DEF Snap, ChainInv
    <3> QED BY <1>4, <2>3, <2>7, <3>1, AtMostIsTransitive
  <2>9. ChainInv'
    BY <1>1, <1>5, <2>1, <2>4, <2>8 DEF ChainInv
  <2> QED BY <1>2, <2>5, <2>6, <2>9 DEF IInv
<1>7. CASE BridgeRecord
  <2>1. /\ bridge.pc = "record" /\ latest' = latest
        /\ l1' = [last |-> bridge.snap.id, total |-> l1.total + 1]
        /\ bridge' = [pc |-> "store", cursor |-> bridge.cursor, snap |-> bridge.snap]
    BY <1>4, <1>7 DEF BridgeRecord, BridgeStep
  <2>2. /\ bridge'.pc = "store" /\ bridge'.cursor = bridge.cursor /\ bridge'.snap = bridge.snap
        /\ l1'.last = bridge.snap.id /\ l1'.total = l1.total + 1
    BY <2>1
  <2>3. BridgeType'
    BY <1>1, <1>4, <1>5, <2>1 DEF BridgeType
  <2>4. UnreadInv'
    BY <1>1, <1>3, <2>2 DEF UnreadInv
  <2>6. ChainInv'
    BY <1>1, <1>5, <2>1, <2>2 DEF ChainInv
  <2> QED BY <1>2, <2>3, <2>4, <2>6 DEF IInv
<1>8. CASE BridgeStore
  <2>1. /\ bridge.pc = "store" /\ l1' = l1 /\ latest' = bridge.snap
        /\ bridge' = [pc |-> "read", cursor |-> bridge.cursor, snap |-> bridge.snap]
    BY <1>4, <1>8 DEF BridgeStore, BridgeStep
  <2>2. bridge'.pc = "read" /\ bridge'.cursor = bridge.cursor /\ bridge'.snap = bridge.snap
    BY <2>1
  <2>3. BridgeType'
    BY <1>1, <1>4, <1>5, <2>1 DEF BridgeType
  <2>4. UnreadInv'
    BY <1>1, <1>3, <2>2 DEF UnreadInv
  <2>5. /\ publisher.pc = "set" => AtMost(publisher.snap, bridge.snap)
        /\ space = NeverSet \/ AtMost(space, bridge.snap)
        /\ bridge.snap = NoData \/ bridge.snap.n > 0
    <3>1. /\ publisher.snap \in Snap /\ publisher.snap \in [id : Nat \cup {NoCursor}, n : Nat]
          /\ space \in [id : Nat \cup {NoCursor}, n : Nat]
      BY <1>1 DEF BridgeType, Snap
    <3>2. /\ AtMost(latest, bridge.snap)
          /\ space = NeverSet \/ AtMost(space, latest)
          /\ publisher.pc = "set" => AtMost(publisher.snap, latest)
      BY <1>1 DEF ChainInv
    <3>3. bridge.snap = NoData \/ bridge.snap.n > 0
      BY <1>1 DEF UnreadInv
    <3>4. publisher.pc = "set" => AtMost(publisher.snap, bridge.snap)
      BY <1>4, <3>1, <3>2, AtMostIsTransitive
    <3>5. space = NeverSet \/ AtMost(space, bridge.snap)
      BY <1>4, <3>1, <3>2, AtMostIsTransitive
    <3> QED BY <3>3, <3>4, <3>5
  <2>6. AtMost(latest', bridge'.snap)
    BY <2>1, <2>2 DEF AtMost
  <2>7. ChainInv'
    BY <1>1, <1>5, <2>1, <2>2, <2>5, <2>6 DEF ChainInv
  <2> QED BY <1>2, <2>3, <2>4, <2>7 DEF IInv
<1> QED BY <1>6, <1>7, <1>8 DEF BridgeNext

(* The publisher takes the latest snapshot, which is no older than what    *)
(* the address space shows, and shows it.                                  *)
LEMMA PublisherKeepsIInv ==
  ASSUME IInv, PublisherNext, UNCHANGED <<sourceVars, sseVars>>
  PROVE  IInv' /\ (space' = space \/ (space'.id >= space.id /\ space'.n >= space.n))
<1>1. SourceType /\ BridgeType /\ RateInv /\ UnreadInv /\ ChainInv
  BY DEF IInv
<1>2. SourceType' /\ RateInv'
  BY <1>1 DEF SourceType, RateInv, sourceVars, sseVars
<1>3. UNCHANGED <<buf, pushes, bridge, l1, latest>>
  BY DEF sourceVars, PublisherNext, Clone, SetValues
<1>4. UnreadInv'
  BY <1>1, <1>3 DEF UnreadInv
<1>5. /\ latest \in Snap /\ publisher.snap \in Snap
      /\ space \in [id : Nat \cup {NoCursor}, n : Nat]
  BY <1>1 DEF BridgeType
<1>6. CASE Clone
  <2>1. /\ publisher.pc = "clone" /\ latest # NoData
        /\ publisher' = [pc |-> "set", snap |-> latest]
        /\ space' = space
    BY <1>6 DEF Clone, HasData, NoData
  <2>2. publisher'.pc = "set" /\ publisher'.snap = latest
    BY <2>1
  <2>3. BridgeType'
    BY <1>1, <1>3, <1>5, <2>1 DEF BridgeType
  <2>4. latest.n > 0 /\ AtMost(latest, latest)
    BY <1>1, <2>1 DEF ChainInv, AtMost
  <2>5. AtMost(space, latest)
    <3>1. CASE space = NeverSet
      BY <1>5, <2>4, <3>1 DEF NeverSet, NoCursor, AtMost, Snap
    <3> QED BY <1>1, <3>1 DEF ChainInv
  <2>6. ChainInv'
    BY <1>1, <1>3, <2>1, <2>2, <2>4, <2>5 DEF ChainInv
  <2> QED BY <1>2, <1>4, <2>1, <2>3, <2>6 DEF IInv
<1>7. CASE SetValues
  <2>1. /\ publisher.pc = "set" /\ space' = publisher.snap
        /\ publisher' = [pc |-> "clone", snap |-> NoData]
    BY <1>7 DEF SetValues
  <2>2. publisher'.pc = "clone"
    BY <2>1
  <2>3. BridgeType'
    BY <1>1, <1>3, <1>5, <2>1 DEF BridgeType, NoData, Snap
  <2>4. AtMost(publisher.snap, latest) /\ AtMost(space, publisher.snap)
    BY <1>1, <2>1 DEF ChainInv
  <2>5. ChainInv'
    BY <1>1, <1>3, <2>1, <2>2, <2>4 DEF ChainInv
  <2>7. space'.id >= space.id /\ space'.n >= space.n
    BY <1>5, <2>1, <2>4 DEF AtMost, Snap, NoCursor
  <2> QED BY <1>2, <1>4, <2>3, <2>5, <2>7 DEF IInv
<1> QED BY <1>6, <1>7 DEF PublisherNext

-------------------------------------------------------------------------------
LEMMA NextIInv ==
  IInv /\ [Next]_vars => /\ IInv'
                         /\ space' = space \/ (space'.id >= space.id /\ space'.n >= space.n)
<1> SUFFICES ASSUME IInv, [Next]_vars
             PROVE  /\ IInv'
                    /\ space' = space \/ (space'.id >= space.id /\ space'.n >= space.n)
  OBVIOUS
<1>1. CASE SourceStep
  BY <1>1, SourceKeepsIInv DEF SourceStep, bridgeVars
<1>2. CASE BridgeTask
  <2>1. BridgeNext /\ UNCHANGED <<sourceVars, sseVars>>
    BY <1>2 DEF BridgeTask
  <2>2. space' = space
    BY <2>1 DEF BridgeNext, BridgeRead, BridgeRecord, BridgeStore, BridgeStep
  <2> QED BY <2>1, <2>2, BridgeKeepsIInv
<1>3. CASE PublisherTask
  BY <1>3, PublisherKeepsIInv DEF PublisherTask
<1>4. ASSUME EmitterTask \/ \E b \in Browsers : StreamTask(b) \/ BrowserStep(b)
      PROVE  IInv' /\ space' = space
  <2>1. /\ UNCHANGED <<sourceVars, bridgeVars>>
        /\ EmitterNext \/ \E b \in Browsers : StreamNext(b) \/ BrowserNext(b)
    BY <1>4 DEF EmitterTask, StreamTask, BrowserStep
  <2> QED BY <2>1, SseKeepsIInv DEF bridgeVars
<1>5. CASE UNCHANGED vars
  <2>1. UNCHANGED <<sourceVars, bridgeVars, sseVars>>
    BY <1>5 DEF vars
  <2>2. SourceType' /\ RateInv' /\ UnreadInv'
    BY <2>1 DEF IInv, SourceType, RateInv, UnreadInv, sourceVars, bridgeVars, sseVars
  <2>3. BridgeType' /\ ChainInv' /\ space' = space
    BY <2>1 DEF IInv, BridgeType, ChainInv, bridgeVars
  <2> QED BY <2>2, <2>3 DEF IInv
<1> QED BY <1>1, <1>2, <1>3, <1>4, <1>5 DEF Next

LEMMA Inductive == Spec => []IInv
BY InitIInv, NextIInv, PTL DEF Spec

(* What a client reads in the address space never goes back, in id or in   *)
(* age, however often the pipeline restarts its ids at 0, whatever is      *)
(* tampered with and reset.                                                *)
THEOREM NeverPublishedBack == Spec => PublishedForward
<1>1. IInv /\ [Next]_vars => [space'.id >= space.id /\ space'.n >= space.n]_space
  BY NextIInv
<1> QED BY <1>1, Inductive, PTL DEF Spec, PublishedForward

(* The rates on the dashboard never add up to more than was counted, and   *)
(* from the second on none is above what was counted since the one before. *)
THEOREM RatesStayHonest == Spec => []RatesAreHonest
<1>1. IInv => RatesAreHonest
  <2> SUFFICES ASSUME IInv PROVE RatesAreHonest
    OBVIOUS
  <2>1. RateInv /\ counted \in Nat
    BY DEF IInv, SourceType
  <2>2. rates.sum <= counted
    BY <2>1 DEF RateInv
  <2>3. rates.number > 1 => ~rates.excess
    BY <2>1 DEF RateInv
  <2> QED BY <2>2, <2>3 DEF RatesAreHonest
<1> QED BY <1>1, Inductive, PTL

-------------------------------------------------------------------------------
\* The division never leaves the signed range, so the cast changes nothing.
LEMMA TicksFit ==
  ASSUME NEW ns \in 0 .. MaxU64
  PROVE  /\ UaTicks(ns) = SaturatingAdd(ns, Epoch) \div NsPerTick
         /\ UaTicks(ns) \in 0 .. MaxI64
<1> DEFINE total == SaturatingAdd(ns, Epoch)
<1>1. total \in 0 .. MaxU64
  BY WidthsAssumption DEF SaturatingAdd
<1>2. total \div NsPerTick \in Nat /\ total \div NsPerTick <= MaxU64 \div NsPerTick
  <2> HIDE DEF total
  <2> QED BY <1>1, WidthsAssumption
<1>3. total \div NsPerTick \in 0 .. MaxI64
  <2> HIDE DEF total
  <2>1. MaxU64 \div NsPerTick \in Int
    BY WidthsAssumption
  <2> QED BY <1>2, <2>1, WidthsAssumption
<1> QED BY <1>3, WidthsAssumption DEF UaTicks, AsI64

\* A later tick is never shown at an earlier time, past the year 2554 where the
\* sum saturates too: utc_ns_to_opcua_ticks is monotone and never negative.
THEOREM TimeNeverRunsBack ==
  ASSUME NEW a \in 0 .. MaxU64, NEW b \in 0 .. MaxU64, a <= b
  PROVE  0 <= UaTicks(a) /\ UaTicks(a) <= UaTicks(b)
<1> DEFINE p == SaturatingAdd(a, Epoch)
           q == SaturatingAdd(b, Epoch)
<1>1. p \in Nat /\ q \in Nat /\ p <= q
  BY WidthsAssumption DEF SaturatingAdd
<1>2. p \div NsPerTick <= q \div NsPerTick
  <2> HIDE DEF p, q
  <2> QED BY <1>1, WidthsAssumption
<1>3. UaTicks(a) = p \div NsPerTick /\ UaTicks(b) = q \div NsPerTick
  BY TicksFit
<1>4. 0 <= UaTicks(a)
  BY TicksFit, WidthsAssumption
<1> QED BY <1>2, <1>3, <1>4
===============================================================================
