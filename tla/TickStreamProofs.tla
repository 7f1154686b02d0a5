--------------------------- MODULE TickStreamProofs ---------------------------
(***************************************************************************)
(* Machine-checked facts about TickStream, for every Capacity, every set   *)
(* of subscriptions and every bound on the emissions.                      *)
(***************************************************************************)
EXTENDS TickStream, TickBufferProofs

Base == nextId - Len(buf)          \* the oldest id the buffer can hold

\* What is known of one open subscription.
SubInv(s, base) ==
  /\ from[s] <= base
  /\ cursor[s] < nextId
  /\ again[s] = {}
  /\ got[s] \cap lost[s] = {}
  /\ \A n \in got[s] : from[s] <= n /\ n <= cursor[s]
  /\ \A n \in lost[s] : from[s] <= n /\ n < base
  /\ \A n \in Nat : from[s] <= n /\ n < nextId /\ (n < base \/ n <= cursor[s])
                      => n \in got[s] \cup lost[s]

IInv ==
  /\ TypeOK
  /\ Window
  /\ Base >= 0
  /\ \A s \in open : SubInv(s, Base)

-------------------------------------------------------------------------------
(* The ids in the buffer are exactly the last Len(buf) ids emitted.        *)
LEMMA IdsOfWindow ==
  ASSUME TypeOK, Window, Base >= 0
  PROVE  Ids(buf) = Base .. (nextId - 1)
<1>1. Len(buf) \in Nat /\ DOMAIN buf = 1 .. Len(buf) /\ nextId \in Nat
  BY DEF TypeOK
<1>2. ASSUME NEW n \in Ids(buf) PROVE n \in Base .. (nextId - 1)
  BY <1>1, <1>2 DEF Ids, Window, IsWindow, Base
<1>3. ASSUME NEW n \in Base .. (nextId - 1) PROVE n \in Ids(buf)
  <2>1. n - Base + 1 \in DOMAIN buf
    BY <1>1 DEF Base
  <2>2. buf[n - Base + 1].id = n
    BY <1>1, <2>1 DEF Window, IsWindow, Base
  <2>3. QED
    BY <2>1, <2>2 DEF Ids
<1>4. QED
  BY <1>2, <1>3

(* What a cursor still has to read is the part of the window above it.     *)
LEMMA FreshOfWindow ==
  ASSUME TypeOK, Window, Base >= 0, NEW c \in Int
  PROVE  FreshIds(buf, c) = {n \in Base .. (nextId - 1) : n > c}
BY IdsOfWindow DEF FreshIds

(* A read leaves the cursor on the newest id, unless it read nothing.      *)
LEMMA CursorOfWindow ==
  ASSUME TypeOK, Window, Base >= 0, NEW c \in Int
  PROVE  /\ FreshIds(buf, c) = {} => CursorAfter(buf, c) = c
         /\ FreshIds(buf, c) # {} => CursorAfter(buf, c) = nextId - 1
<1>1. Len(buf) \in Nat /\ nextId \in Nat /\ Base \in Int
  BY DEF TypeOK, Base
<1>2. CASE FreshIds(buf, c) = {}
  BY <1>2 DEF CursorAfter
<1>3. CASE FreshIds(buf, c) # {}
  <2>1. nextId - 1 \in FreshIds(buf, c)
    BY <1>1, <1>3, FreshOfWindow
  <2>2. \A n \in FreshIds(buf, c) : n \in Int /\ n <= nextId - 1
    BY <1>1, FreshOfWindow
  <2>3. \A m \in FreshIds(buf, c) :
          (\A n \in FreshIds(buf, c) : n <= m) <=> m = nextId - 1
    BY <1>1, <2>1, <2>2
  <2>4. CursorAfter(buf, c) = CHOOSE m \in FreshIds(buf, c) :
                                \A n \in FreshIds(buf, c) : n <= m
    BY <1>3 DEF CursorAfter
  <2>5. QED
    BY <1>3, <2>1, <2>3, <2>4
<1>4. QED
  BY <1>2, <1>3

-------------------------------------------------------------------------------
LEMMA InitIInv == Init => IInv
BY CapacityAssumption DEF Init, IInv, TypeOK, Window, IsWindow, Base, NoCursor

(* Pushing the next id keeps a window a window, retiring its oldest id     *)
(* when the buffer is full.                                                *)
LEMMA PushWindow ==
  ASSUME NEW b \in Seq(Tick), NEW n \in Nat, Len(b) <= Capacity, IsWindow(b, n),
         NEW t \in Tick, t.id = n
  PROVE  /\ IsWindow(Push(b, t), n + 1)
         /\ {r.id : r \in Retired(b)} =
              (n - Len(b)) .. (n - Len(Push(b, t)))
         /\ Len(Push(b, t)) \in {Len(b), Len(b) + 1}
         /\ Len(Push(b, t)) >= 1
<1> DEFINE p == Push(b, t)
<1>1. Capacity \in Nat /\ Capacity > 0 /\ Len(b) \in Nat /\ DOMAIN b = 1 .. Len(b)
  BY CapacityAssumption
<1>2. /\ p \in Seq(Tick)
      /\ Len(b) >= Capacity =>
           /\ Len(p) = Len(b)
           /\ \A i \in 1 .. (Len(b) - 1) : p[i] = b[i + 1]
      /\ Len(b) < Capacity =>
           /\ Len(p) = Len(b) + 1
           /\ \A i \in 1 .. Len(b) : p[i] = b[i]
      /\ p[Len(p)] = t
  BY PushShape
<1> HIDE DEF p
<1>3. DOMAIN p = 1 .. Len(p) /\ Len(p) \in Nat
  BY <1>2
<1>4. ASSUME NEW i \in DOMAIN p PROVE p[i].id = n + 1 - Len(p) + i - 1
  <2>1. CASE i = Len(p)
    <3>1. p[i] = t
      BY <1>2, <2>1
    <3>2. p[i].id = n
      BY <3>1
    <3>3. QED
      BY <1>3, <2>1, <3>2
  <2>2. CASE i # Len(p) /\ Len(b) >= Capacity
    <3>1. Len(p) = Len(b) /\ \A j \in 1 .. (Len(b) - 1) : p[j] = b[j + 1]
      BY <1>2, <2>2
    <3>2. i \in 1 .. (Len(b) - 1) /\ i + 1 \in DOMAIN b
      BY <1>1, <1>3, <2>2, <3>1
    <3>3. b[i + 1].id = n - Len(b) + (i + 1) - 1
      BY <3>2 DEF IsWindow
    <3>4. n - Len(b) + (i + 1) - 1 = n + 1 - Len(p) + i - 1
      BY <1>1, <1>3, <3>1
    <3>5. p[i] = b[i + 1]
      BY <3>1, <3>2
    <3>6. QED
      BY <3>3, <3>4, <3>5
  <2>3. CASE i # Len(p) /\ Len(b) < Capacity
    <3>1. Len(p) = Len(b) + 1 /\ \A j \in 1 .. Len(b) : p[j] = b[j]
      BY <1>2, <2>3
    <3>2. i \in 1 .. Len(b) /\ i \in DOMAIN b
      BY <1>1, <1>3, <2>3, <3>1
    <3>3. b[i].id = n - Len(b) + i - 1
      BY <3>2 DEF IsWindow
    <3>4. n - Len(b) + i - 1 = n + 1 - Len(p) + i - 1
      BY <1>1, <1>3, <3>1
    <3>5. p[i] = b[i]
      BY <3>1, <3>2
    <3>6. QED
      BY <3>3, <3>4, <3>5
  <2>4. QED
    BY <1>1, <2>1, <2>2, <2>3
<1>5. {r.id : r \in Retired(b)} = (n - Len(b)) .. (n - Len(p))
  <2>1. CASE Len(b) >= Capacity
    <3>1. 1 \in DOMAIN b /\ Head(b) = b[1]
      BY <1>1, <2>1
    <3>2. b[1].id = n - Len(b)
      BY <1>1, <3>1 DEF IsWindow
    <3>3. Retired(b) = {Head(b)} /\ Len(p) = Len(b)
      BY <1>2, <2>1 DEF Retired
    <3>4. (n - Len(b)) .. (n - Len(p)) = {n - Len(b)}
      BY <1>1, <3>3
    <3>5. Head(b).id = n - Len(b)
      BY <3>1, <3>2
    <3>6. {r.id : r \in {Head(b)}} = {n - Len(b)}
      BY <3>5
    <3>7. QED
      BY <3>3, <3>4, <3>6
  <2>2. CASE Len(b) < Capacity
    <3>1. Len(p) = Len(b) + 1 /\ Retired(b) = {}
      <4>1. Retired(b) = {}
        BY <1>1, <2>2 DEF Retired
      <4>2. QED
        BY <1>2, <2>2, <4>1
    <3>2. (n - Len(b)) .. (n - Len(p)) = {}
      BY <1>1, <3>1
    <3>3. QED
      BY <3>1, <3>2
  <2>3. QED
    BY <1>1, <2>1, <2>2
<1>6. Len(p) \in {Len(b), Len(b) + 1} /\ Len(p) >= 1
  BY <1>1, <1>2
<1>7. QED
  BY <1>4, <1>5, <1>6 DEF IsWindow, p

LEMMA EmitWindow ==
  ASSUME TypeOK, Window, Base >= 0, Emit
  PROVE  /\ buf' \in Seq(Tick) /\ Len(buf') <= Capacity
         /\ Window'
         /\ Base <= Base' /\ Base' <= nextId
         /\ {t.id : t \in Retired(buf)} = Base .. (Base' - 1)
<1>1. PICK t : t = [id |-> nextId]
  OBVIOUS
<1>2. /\ buf \in Seq(Tick) /\ t \in Tick /\ t.id = nextId
      /\ Len(buf) <= Capacity /\ Len(buf) \in Nat /\ IsWindow(buf, nextId)
      /\ nextId \in Nat
  BY <1>1 DEF TypeOK, Window, Tick
<1>3. buf' = Push(buf, t) /\ nextId' = nextId + 1
  BY <1>1 DEF Emit
<1>4. buf' \in Seq(Tick) /\ Len(buf') <= Capacity
  BY <1>2, <1>3, PushShape
<1>5. /\ IsWindow(buf', nextId')
      /\ {r.id : r \in Retired(buf)} = (nextId - Len(buf)) .. (nextId - Len(buf'))
      /\ Len(buf') \in {Len(buf), Len(buf) + 1}
      /\ Len(buf') >= 1
  BY <1>2, <1>3, PushWindow
<1>6. Base <= Base' /\ Base' <= nextId /\ Base' - 1 = nextId - Len(buf')
  BY <1>2, <1>3, <1>4, <1>5 DEF Base
<1>7. QED
  BY <1>4, <1>5, <1>6 DEF Window, IsWindow, Base

LEMMA PopWindow ==
  ASSUME TypeOK, Window, Base >= 0, Pop
  PROVE  /\ buf' \in Seq(Tick) /\ Len(buf') <= Capacity
         /\ Window'
         /\ Base <= Base' /\ Base' <= nextId
         /\ {Head(buf).id} = Base .. (Base' - 1)
<1>1. /\ buf \in Seq(Tick) /\ buf # <<>> /\ nextId \in Nat
      /\ Len(buf) <= Capacity /\ Capacity \in Nat
      /\ buf' = Tail(buf) /\ nextId' = nextId
  BY CapacityAssumption DEF TypeOK, Pop
<1>2. /\ buf' \in Seq(Tick) /\ Len(buf) \in Nat /\ Len(buf) > 0
      /\ Len(buf') = Len(buf) - 1
      /\ \A i \in 1 .. (Len(buf) - 1) : buf'[i] = buf[i + 1]
  BY <1>1
<1>3. DOMAIN buf' = 1 .. Len(buf') /\ DOMAIN buf = 1 .. Len(buf)
  BY <1>1, <1>2
<1>4. Window'
  <2> SUFFICES ASSUME NEW i \in DOMAIN buf'
               PROVE  buf'[i].id = nextId' - Len(buf') + i - 1
    BY DEF Window, IsWindow
  <2>1. i + 1 \in DOMAIN buf /\ buf'[i] = buf[i + 1]
    BY <1>2, <1>3
  <2>2. buf[i + 1].id = nextId - Len(buf) + (i + 1) - 1
    BY <2>1 DEF Window, IsWindow
  <2>3. buf'[i].id = nextId - Len(buf) + (i + 1) - 1
    BY <2>1, <2>2
  <2>4. QED
    BY <1>1, <1>2, <1>3, <2>3
<1>5. Base' = Base + 1 /\ Base \in Int /\ Base' <= nextId
  BY <1>1, <1>2 DEF Base
<1>6. 1 \in DOMAIN buf /\ Head(buf) = buf[1] /\ buf[1].id = Base
  BY <1>1, <1>2, <1>3 DEF Window, IsWindow, Base
<1>7. QED
  BY <1>1, <1>2, <1>4, <1>5, <1>6

(* When ids leave the bottom of the window, each open subscription keeps   *)
(* its invariant: the ids it had not read move from pending to lost.       *)
LEMMA RetireKeepsSubInv ==
  ASSUME IInv, NEW s \in open, NEW gone,
         NEW above \in Int, gone = Base .. (above - 1),
         Base <= above, above <= nextId, nextId' \in {nextId, nextId + 1},
         lost' = LostWith(gone), UNCHANGED <<open, cursor, from, got, again>>
  PROVE  SubInv(s, above)'
<1>1. /\ s \in Subs /\ nextId \in Nat /\ Base \in Nat /\ from[s] \in Nat
      /\ cursor[s] \in Nat \cup {-1} /\ got[s] \in SUBSET Nat /\ SubInv(s, Base)
  BY DEF IInv, TypeOK, Base, NoCursor
<1>2. lost'[s] = lost[s] \cup {n \in gone : n > cursor[s]}
  BY <1>1 DEF LostWith
<1>3. got'[s] = got[s] /\ cursor'[s] = cursor[s] /\ from'[s] = from[s] /\ again'[s] = {}
  BY <1>1 DEF SubInv
<1>4. got'[s] \cap lost'[s] = {}
  BY <1>1, <1>2, <1>3 DEF SubInv
<1>5. \A n \in lost'[s] : from[s] <= n /\ n < above
  <2>1. \A n \in lost[s] : from[s] <= n /\ n < Base
    BY <1>1 DEF SubInv
  <2>2. \A n \in gone : n \in Int /\ Base <= n /\ n < above
    BY <1>1
  <2>3. from[s] <= Base /\ lost[s] \subseteq Nat
    BY <1>1 DEF SubInv, IInv, TypeOK
  <2>4. QED
    BY <1>1, <1>2, <2>1, <2>2, <2>3
<1>6. \A n \in Nat : from[s] <= n /\ n < nextId' /\ (n < above \/ n <= cursor[s])
                        => n \in got[s] \cup lost'[s]
  BY <1>1, <1>2 DEF SubInv
<1>7. from[s] <= above /\ cursor[s] < nextId'
  BY <1>1 DEF SubInv
<1>8. QED
  BY <1>1, <1>3, <1>4, <1>5, <1>6, <1>7 DEF SubInv

LEMMA EmitIInv == IInv /\ Emit => IInv'
<1> SUFFICES ASSUME IInv, Emit PROVE IInv'
  OBVIOUS
<1>1. /\ TypeOK /\ Window /\ Base >= 0 /\ Base \in Nat /\ nextId \in Nat
  BY DEF IInv, TypeOK, Base
<1>2. /\ buf' \in Seq(Tick) /\ Len(buf') <= Capacity /\ Window'
      /\ Base <= Base' /\ Base' <= nextId
      /\ {t.id : t \in Retired(buf)} = Base .. (Base' - 1)
  BY <1>1, EmitWindow
<1>3. nextId' = nextId + 1 /\ UNCHANGED <<open, cursor, from, got, again>>
  BY DEF Emit
<1>4. Base' \in Nat
  BY <1>1, <1>2, <1>3 DEF Base
<1>5. PICK gone : gone = {t.id : t \in Retired(buf)}
  OBVIOUS
<1>6. lost' = LostWith(gone)
  BY <1>5 DEF Emit
<1>7. ASSUME NEW above \in Int, Base <= above, above <= nextId, gone = Base .. (above - 1),
             NEW s \in open
      PROVE  SubInv(s, above)'
  BY <1>3, <1>6, <1>7, RetireKeepsSubInv
<1>8. \A s \in open' : SubInv(s, Base)'
  <2>1. PICK above \in Int : above = Base'
    BY <1>4
  <2>2. Base <= above /\ above <= nextId /\ gone = Base .. (above - 1)
    BY <1>2, <1>5, <2>1
  <2>3. \A s \in open : SubInv(s, above)'
    BY <1>7, <2>2
  <2>4. QED
    BY <1>3, <2>1, <2>3 DEF SubInv
<1>9. TypeOK'
  <2>1. \A a, b \in Nat : a .. (b - 1) \in SUBSET Nat
    OBVIOUS
  <2>2. gone = Base .. (Base' - 1)
    BY <1>2, <1>5
  <2>3. gone \in SUBSET Nat
    BY <1>1, <1>4, <2>1, <2>2
  <2>4. lost' \in [Subs -> SUBSET Nat]
    BY <1>1, <1>6, <2>3 DEF LostWith, TypeOK
  <2>5. QED
    BY <1>1, <1>2, <1>3, <2>4 DEF TypeOK
<1>10. QED
  BY <1>2, <1>4, <1>8, <1>9 DEF IInv

LEMMA PopIInv == IInv /\ Pop => IInv'
<1> SUFFICES ASSUME IInv, Pop PROVE IInv'
  OBVIOUS
<1>1. /\ TypeOK /\ Window /\ Base >= 0 /\ Base \in Nat /\ nextId \in Nat
  BY DEF IInv, TypeOK, Base
<1>2. /\ buf' \in Seq(Tick) /\ Len(buf') <= Capacity /\ Window'
      /\ Base <= Base' /\ Base' <= nextId
      /\ {Head(buf).id} = Base .. (Base' - 1)
  BY <1>1, PopWindow
<1>3. nextId' = nextId /\ UNCHANGED <<open, cursor, from, got, again>>
  BY DEF Pop
<1>4. Base' \in Nat
  BY <1>1, <1>2, <1>3 DEF Base
<1>5. PICK gone : gone = {Head(buf).id}
  OBVIOUS
<1>6. lost' = LostWith(gone)
  BY <1>5 DEF Pop
<1>7. ASSUME NEW above \in Int, Base <= above, above <= nextId, gone = Base .. (above - 1),
             NEW s \in open
      PROVE  SubInv(s, above)'
  BY <1>3, <1>6, <1>7, RetireKeepsSubInv
<1>8. \A s \in open' : SubInv(s, Base)'
  <2>1. PICK above \in Int : above = Base'
    BY <1>4
  <2>2. Base <= above /\ above <= nextId /\ gone = Base .. (above - 1)
    BY <1>2, <1>5, <2>1
  <2>3. \A s \in open : SubInv(s, above)'
    BY <1>7, <2>2
  <2>4. QED
    BY <1>3, <2>1, <2>3 DEF SubInv
<1>9. TypeOK'
  <2>1. \A a, b \in Nat : a .. (b - 1) \in SUBSET Nat
    OBVIOUS
  <2>2. gone = Base .. (Base' - 1)
    BY <1>2, <1>5
  <2>3. gone \in SUBSET Nat
    BY <1>1, <1>4, <2>1, <2>2
  <2>4. lost' \in [Subs -> SUBSET Nat]
    BY <1>1, <1>6, <2>3 DEF LostWith, TypeOK
  <2>5. QED
    BY <1>1, <1>2, <1>3, <2>4 DEF TypeOK
<1>10. QED
  BY <1>2, <1>4, <1>8, <1>9 DEF IInv

LEMMA SubscribeIInv == ASSUME IInv, NEW s \in Subs, Subscribe(s) PROVE IInv'
<1>1. /\ TypeOK /\ Base \in Nat /\ Base' = Base /\ nextId' = nextId /\ buf' = buf
      /\ nextId \in Nat /\ Base <= nextId
  BY DEF IInv, TypeOK, Base, Subscribe
<1>2. TypeOK'
  BY <1>1 DEF TypeOK, Subscribe, Base
<1>3. Window' /\ Base' >= 0
  BY <1>1 DEF IInv, Window, IsWindow
<1>4. ASSUME NEW r \in open' PROVE SubInv(r, Base)'
  <2>1. CASE r = s
    <3>1. /\ from'[r] = Base /\ cursor'[r] = -1 /\ got'[r] = {} /\ again'[r] = {}
          /\ lost'[r] = {}
      BY <1>1, <2>1 DEF Subscribe, TypeOK, Base, NoCursor
    <3>2. QED
      BY <1>1, <3>1 DEF SubInv
  <2>2. CASE r # s
    <3>1. r \in open /\ SubInv(r, Base)
      BY <1>4, <2>2 DEF Subscribe, IInv
    <3>2. /\ from'[r] = from[r] /\ cursor'[r] = cursor[r] /\ got'[r] = got[r]
          /\ again'[r] = again[r] /\ lost'[r] = lost[r]
      BY <1>1, <2>2, <3>1 DEF Subscribe, TypeOK
    <3>3. QED
      BY <1>1, <3>1, <3>2 DEF SubInv
  <2>3. QED
    BY <2>1, <2>2
<1>5. QED
  BY <1>2, <1>3, <1>4 DEF IInv

LEMMA ReadSinceIInv == ASSUME IInv, NEW s \in Subs, ReadSince(s) PROVE IInv'
<1>1. /\ TypeOK /\ Window /\ Base \in Nat /\ nextId' = nextId /\ buf' = buf
      /\ nextId \in Nat /\ s \in open /\ open' = open /\ from' = from /\ lost' = lost
      /\ cursor[s] \in Nat \cup {-1} /\ from[s] \in Nat /\ Len(buf) \in Nat
  BY DEF IInv, TypeOK, Base, ReadSince, NoCursor
<1>2. Base' = Base /\ Base <= nextId
  BY <1>1 DEF Base
<1>3. PICK fresh : fresh = FreshIds(buf, cursor[s])
  OBVIOUS
<1>4. fresh = {n \in Base .. (nextId - 1) : n > cursor[s]}
  BY <1>1, <1>3, FreshOfWindow
<1>5. PICK c : c = CursorAfter(buf, cursor[s])
  OBVIOUS
<1>6. (fresh = {} => c = cursor[s]) /\ (fresh # {} => c = nextId - 1)
  BY <1>1, <1>3, <1>5, CursorOfWindow
<1>7. /\ cursor' = [cursor EXCEPT ![s] = c]
      /\ got' = [got EXCEPT ![s] = @ \cup fresh]
      /\ again' = [again EXCEPT ![s] = @ \cup (got[s] \cap fresh)]
  BY <1>3, <1>5 DEF ReadSince
<1>8. c \in Nat \cup {-1} /\ fresh \in SUBSET Nat
  BY <1>1, <1>2, <1>4, <1>6
<1>9. TypeOK'
  BY <1>1, <1>7, <1>8 DEF TypeOK, NoCursor
<1>10. Window' /\ Base' >= 0
  BY <1>1, <1>2 DEF Window, IsWindow
<1>11. SubInv(s, Base)'
  <2>1. /\ cursor'[s] = c /\ got'[s] = got[s] \cup fresh
        /\ again'[s] = again[s] \cup (got[s] \cap fresh)
    BY <1>1, <1>7 DEF TypeOK
  <2>2. SubInv(s, Base)
    BY <1>1 DEF IInv
  <2>3. got[s] \cap fresh = {} /\ lost[s] \cap fresh = {}
    BY <1>1, <1>4, <2>2 DEF SubInv, TypeOK
  <2>4. c < nextId /\ cursor[s] <= c
    BY <1>1, <1>2, <1>4, <1>6, <2>2 DEF SubInv
  <2>5. \A n \in got[s] \cup fresh : from[s] <= n /\ n <= c
    <3>1. \A n \in got[s] : n \in Nat /\ from[s] <= n /\ n <= cursor[s]
      BY <1>1, <2>2 DEF SubInv, TypeOK
    <3>2. \A n \in fresh : from[s] <= n /\ n <= c
      BY <1>1, <1>2, <1>4, <1>6, <2>2 DEF SubInv
    <3>3. c \in Int /\ cursor[s] \in Int /\ cursor[s] <= c /\ from[s] \in Int
      BY <1>1, <1>8, <2>4
    <3>4. \A n \in got[s] : from[s] <= n /\ n <= c
      BY <3>1, <3>3
    <3>5. QED
      BY <3>2, <3>4
  <2>6. \A n \in Nat : from[s] <= n /\ n < nextId /\ (n < Base \/ n <= c)
                          => n \in got[s] \cup fresh \cup lost[s]
    BY <1>1, <1>2, <1>4, <1>6, <2>2 DEF SubInv
  <2>7. QED
    BY <1>1, <1>2, <2>1, <2>2, <2>3, <2>4, <2>5, <2>6 DEF SubInv
<1>12. ASSUME NEW r \in open', r # s PROVE SubInv(r, Base)'
  <2>1. r \in Subs /\ SubInv(r, Base)
    BY <1>1, <1>12 DEF IInv, TypeOK
  <2>2. /\ from'[r] = from[r] /\ cursor'[r] = cursor[r] /\ got'[r] = got[r]
        /\ again'[r] = again[r] /\ lost'[r] = lost[r]
    BY <1>1, <1>7, <1>12, <2>1 DEF TypeOK
  <2>3. QED
    BY <1>1, <1>2, <2>1, <2>2 DEF SubInv
<1>13. QED
  BY <1>9, <1>10, <1>11, <1>12 DEF IInv

LEMMA NextIInv == IInv /\ [Next]_vars => IInv'
<1> SUFFICES ASSUME IInv, [Next]_vars PROVE IInv'
  OBVIOUS
<1>1. CASE Emit
  BY <1>1, EmitIInv
<1>2. CASE Pop
  BY <1>2, PopIInv
<1>3. ASSUME NEW s \in Subs, Subscribe(s) PROVE IInv'
  BY <1>3, SubscribeIInv
<1>4. ASSUME NEW s \in Subs, Unsubscribe(s) PROVE IInv'
  BY <1>4 DEF Unsubscribe, IInv, TypeOK, Window, IsWindow, Base, SubInv
<1>5. ASSUME NEW s \in Subs, ReadSince(s) PROVE IInv'
  BY <1>5, ReadSinceIInv
<1>6. CASE UNCHANGED vars
  BY <1>6 DEF vars, IInv, TypeOK, Window, IsWindow, Base, SubInv
<1>7. QED
  BY <1>1, <1>2, <1>3, <1>4, <1>5, <1>6 DEF Next

LEMMA Inductive == Spec => []IInv
BY InitIInv, NextIInv, PTL DEF Spec

-------------------------------------------------------------------------------
(* The stream is type correct and the buffer bounded (TickBuffer::push).   *)
THEOREM TypeCorrect == Spec => []TypeOK
<1>1. IInv => TypeOK
  BY DEF IInv
<1>2. QED
  BY <1>1, Inductive, PTL

(* The buffer always holds the newest ids emitted, consecutively: push     *)
(* drops from the old end only.                                            *)
THEOREM WindowHolds == Spec => []Window
<1>1. IInv => Window
  BY DEF IInv
<1>2. QED
  BY <1>1, Inductive, PTL

(* read_since never returns a tick twice to one subscription.              *)
THEOREM ExactlyOnce == Spec => []NeverTwice
<1>1. IInv => NeverTwice
  BY DEF IInv, NeverTwice, SubInv
<1>2. QED
  BY <1>1, Inductive, PTL

(* Every tick owed to a subscription was delivered, is pending in the      *)
(* buffer, or was retired unread; never two of these.                      *)
THEOREM AccountedHolds == Spec => []Accounted
<1>1. ASSUME IInv, NEW s \in open
      PROVE  /\ got[s] \cup Pending(s) \cup lost[s] = from[s] .. (nextId - 1)
             /\ got[s] \cap lost[s] = {}
             /\ Pending(s) \cap (got[s] \cup lost[s]) = {}
  <2>1. /\ TypeOK /\ Window /\ Base \in Nat /\ nextId \in Nat /\ SubInv(s, Base)
        /\ cursor[s] \in Nat \cup {-1} /\ from[s] \in Nat /\ Base <= nextId
        /\ got[s] \in SUBSET Nat /\ lost[s] \in SUBSET Nat
    BY <1>1 DEF IInv, TypeOK, Base, NoCursor
  <2>2. Pending(s) = {n \in Base .. (nextId - 1) : n > cursor[s]}
    BY <2>1, FreshOfWindow DEF Pending
  <2>3. from[s] <= Base /\ cursor[s] < nextId
    BY <2>1 DEF SubInv
  <2>4. \A n \in got[s] : n \in from[s] .. (nextId - 1) /\ n <= cursor[s]
    BY <2>1 DEF SubInv
  <2>5. \A n \in lost[s] : n \in from[s] .. (nextId - 1) /\ n < Base
    BY <2>1 DEF SubInv
  <2>6. \A n \in from[s] .. (nextId - 1) : n \in got[s] \cup Pending(s) \cup lost[s]
    BY <2>1, <2>2 DEF SubInv
  <2>7. \A n \in Pending(s) : n \in from[s] .. (nextId - 1) /\ n > cursor[s] /\ n >= Base
    BY <2>1, <2>2, <2>3
  <2>8. got[s] \cap lost[s] = {}
    BY <2>1 DEF SubInv
  <2>9. Pending(s) \cap (got[s] \cup lost[s]) = {}
    BY <2>1, <2>4, <2>5, <2>7
  <2>10. QED
    BY <2>4, <2>5, <2>6, <2>7, <2>8, <2>9
<1>2. IInv => Accounted
  BY <1>1 DEF Accounted
<1>3. QED
  BY <1>2, Inductive, PTL

(* The buffered stream implements the lossy in-order feed: what a read     *)
(* returns is a suffix of the ticks the subscription had not been given.   *)
LEMMA ReadSinceDelivers ==
  ASSUME IInv, NEW s \in Subs, ReadSince(s)
  PROVE  Feed!Deliver(s) \/ UNCHANGED <<nextId, open, cursor, got>>
<1>1. /\ TypeOK /\ Window /\ Base \in Nat /\ nextId \in Nat /\ s \in open
      /\ cursor[s] \in Nat \cup {-1} /\ Base <= nextId
      /\ UNCHANGED <<nextId, open>>
  BY DEF IInv, TypeOK, Base, ReadSince, NoCursor
<1>2. PICK fresh : fresh = FreshIds(buf, cursor[s])
  OBVIOUS
<1>3. fresh = {n \in Base .. (nextId - 1) : n > cursor[s]}
  BY <1>1, <1>2, FreshOfWindow
<1>4. /\ cursor' = [cursor EXCEPT ![s] = CursorAfter(buf, cursor[s])]
      /\ got' = [got EXCEPT ![s] = @ \cup fresh]
  BY <1>2 DEF ReadSince
<1>5. CASE fresh = {}
  <2>1. cursor[s] \in Int
    BY <1>1
  <2>2. CursorAfter(buf, cursor[s]) = cursor[s]
    <3>1. FreshIds(buf, cursor[s]) = {}
      BY <1>2, <1>5
    <3>2. QED
      BY <1>1, <2>1, <3>1, CursorOfWindow
  <2>3. cursor' = cursor /\ got' = got
    BY <1>4, <1>5, <2>2 DEF IInv, TypeOK
  <2>4. QED
    BY <1>1, <2>3
<1>6. CASE fresh # {}
  <2>1. CursorAfter(buf, cursor[s]) = nextId - 1
    BY <1>1, <1>2, <1>6, CursorOfWindow
  <2>2. PICK oldest \in Int :
          oldest = IF cursor[s] + 1 >= Base THEN cursor[s] + 1 ELSE Base
    BY <1>1
  <2>3. oldest \in (cursor[s] + 1) .. (nextId - 1)
    BY <1>1, <1>3, <1>6, <2>2
  <2>4. fresh = oldest .. (nextId - 1)
    <3>1. cursor[s] \in Int /\ cursor[s] >= -1
      BY <1>1
    <3>2. \A n \in Int : n \in fresh <=> n \in oldest .. (nextId - 1)
      BY <1>1, <1>3, <2>2, <3>1
    <3>3. fresh \subseteq Int /\ oldest .. (nextId - 1) \subseteq Int
      BY <1>1, <1>3
    <3>4. QED
      BY <3>2, <3>3
  <2>5. /\ got' = [got EXCEPT ![s] = @ \cup (oldest .. (nextId - 1))]
        /\ cursor' = [cursor EXCEPT ![s] = nextId - 1]
    BY <1>4, <2>1, <2>4
  <2>6. QED
    BY <1>1, <2>3, <2>5 DEF Feed!Deliver
<1>7. QED
  BY <1>5, <1>6

THEOREM Refinement == Spec => ImplementsFeed
<1>1. Init => Feed!FeedInit
  BY DEF Init, Feed!FeedInit, NoCursor
<1>2. IInv /\ [Next]_vars => [Feed!FeedNext]_(Feed!feedVars)
  <2> SUFFICES ASSUME IInv, [Next]_vars PROVE [Feed!FeedNext]_(Feed!feedVars)
    OBVIOUS
  <2>1. CASE Emit
    BY <2>1 DEF Emit, Feed!FeedNext, Feed!Publish
  <2>2. CASE Pop
    BY <2>2 DEF Pop, Feed!feedVars
  <2>3. ASSUME NEW s \in Subs, Subscribe(s) PROVE Feed!FeedNext
    BY <2>3 DEF Subscribe, Feed!FeedNext, Feed!Open, NoCursor
  <2>4. ASSUME NEW s \in Subs, Unsubscribe(s) PROVE Feed!FeedNext
    BY <2>4 DEF Unsubscribe, Feed!FeedNext, Feed!Close
  <2>5. ASSUME NEW s \in Subs, ReadSince(s) PROVE [Feed!FeedNext]_(Feed!feedVars)
    BY <2>5, ReadSinceDelivers DEF Feed!FeedNext, Feed!feedVars
  <2>6. CASE UNCHANGED vars
    BY <2>6 DEF vars, Feed!feedVars
  <2>7. QED
    BY <2>1, <2>2, <2>3, <2>4, <2>5, <2>6 DEF Next
<1>3. QED
  BY <1>1, <1>2, Inductive, PTL DEF Spec, ImplementsFeed, Feed!FeedSpec
===============================================================================
