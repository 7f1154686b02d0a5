--------------------------- MODULE TickBufferProofs ---------------------------
(***************************************************************************)
(* Facts about the operations of a TickBuffer of any capacity, whatever    *)
(* its records carry.                                                      *)
(***************************************************************************)
EXTENDS TickBuffer, SequenceTheorems, WellFoundedInduction, TLAPS

(* An appended record is the last one; the others stay where they are.     *)
LEMMA AppendShape ==
  ASSUME NEW T, NEW b \in Seq(T), NEW t \in T
  PROVE  /\ Append(b, t) \in Seq(T)
         /\ Len(Append(b, t)) = Len(b) + 1
         /\ \A i \in 1 .. Len(b) : Append(b, t)[i] = b[i]
         /\ Append(b, t)[Len(b) + 1] = t
OBVIOUS

(* A push keeps the buffer bounded; it retires the head exactly when the   *)
(* buffer is full, and the new record becomes the last one.                *)
LEMMA PushShape ==
  ASSUME NEW T, NEW b \in Seq(T), NEW t \in T, Len(b) <= Capacity
  PROVE  /\ Push(b, t) \in Seq(T)
         /\ Len(Push(b, t)) <= Capacity
         /\ Len(b) >= Capacity =>
              /\ Len(Push(b, t)) = Len(b)
              /\ \A i \in 1 .. (Len(b) - 1) : Push(b, t)[i] = b[i + 1]
         /\ Len(b) < Capacity =>
              /\ Len(Push(b, t)) = Len(b) + 1
              /\ \A i \in 1 .. Len(b) : Push(b, t)[i] = b[i]
         /\ Push(b, t)[Len(Push(b, t))] = t
<1>1. Capacity \in Nat /\ Capacity > 0
  BY CapacityAssumption
<1>2. CASE Len(b) >= Capacity
  <2>1. Tail(b) \in Seq(T) /\ Len(Tail(b)) = Len(b) - 1
    BY <1>1, <1>2
  <2>2. \A i \in 1 .. (Len(b) - 1) : Tail(b)[i] = b[i + 1]
    BY <1>1, <1>2
  <2>3. Push(b, t) = Append(Tail(b), t)
    BY <1>2 DEF Push
  <2>4. Len(b) \in Nat
    OBVIOUS
  <2>5. QED
    <3> DEFINE rest == Tail(b)
    <3>1. rest \in Seq(T) /\ Len(rest) = Len(b) - 1
      BY <2>1
    <3>2. \A i \in 1 .. (Len(b) - 1) : rest[i] = b[i + 1]
      BY <2>2
    <3>3. Push(b, t) = Append(rest, t)
      BY <2>3
    <3> HIDE DEF rest
    <3>4. QED
      BY <1>1, <1>2, <2>4, <3>1, <3>2, <3>3, AppendShape
<1>3. CASE Len(b) < Capacity
  BY <1>1, <1>3 DEF Push
<1>4. QED
  BY <1>1, <1>2, <1>3

(* The index after one that is not the last.                               *)
LEMMA NextIndex ==
  ASSUME NEW n \in Nat, NEW i \in 1 .. n, i # n
  PROVE  i \in 1 .. (n - 1) /\ i + 1 \in 1 .. n
OBVIOUS

(* What a push leaves in the buffer was there, but the last record.        *)
LEMMA PushMembers ==
  ASSUME NEW T, NEW b \in Seq(T), NEW t \in T, Len(b) <= Capacity
  PROVE  /\ Push(b, t) \in Seq(T) /\ Len(Push(b, t)) <= Capacity
         /\ \A i \in DOMAIN Push(b, t) :
              Push(b, t)[i] = t \/ \E j \in DOMAIN b : Push(b, t)[i] = b[j]
<1>0. /\ Push(b, t) \in Seq(T) /\ Len(Push(b, t)) <= Capacity
      /\ Len(b) >= Capacity =>
           /\ Len(Push(b, t)) = Len(b)
           /\ \A i \in 1 .. (Len(b) - 1) : Push(b, t)[i] = b[i + 1]
      /\ Len(b) < Capacity =>
           /\ Len(Push(b, t)) = Len(b) + 1
           /\ \A i \in 1 .. Len(b) : Push(b, t)[i] = b[i]
      /\ Push(b, t)[Len(Push(b, t))] = t
  BY PushShape
<1> DEFINE new == Push(b, t)
<1>1. /\ new \in Seq(T) /\ Len(new) <= Capacity
      /\ Len(b) >= Capacity => /\ Len(new) = Len(b)
                               /\ \A i \in 1 .. (Len(b) - 1) : new[i] = b[i + 1]
      /\ Len(b) < Capacity => /\ Len(new) = Len(b) + 1
                              /\ \A i \in 1 .. Len(b) : new[i] = b[i]
      /\ new[Len(new)] = t
  BY <1>0
<1> HIDE DEF new
<1>2. /\ Len(b) \in Nat /\ DOMAIN b = 1 .. Len(b) /\ DOMAIN new = 1 .. Len(new)
      /\ Capacity \in Nat
  BY <1>1, CapacityAssumption
<1>3. ASSUME NEW i \in DOMAIN new, i # Len(new)
      PROVE  \E j \in DOMAIN b : new[i] = b[j]
  <2>1. CASE Len(b) >= Capacity
    <3>1. Len(new) = Len(b) /\ i \in 1 .. Len(b) /\ i # Len(b)
      BY <1>1, <1>2, <1>3, <2>1, Zenon
    <3>2. i \in 1 .. (Len(b) - 1) /\ i + 1 \in 1 .. Len(b)
      BY <1>2, <3>1, NextIndex, Zenon
    <3>3. new[i] = b[i + 1]
      BY ONLY <1>1, <2>1, <3>2
    <3> QED BY ONLY <1>2, <3>2, <3>3
  <2>2. CASE Len(b) < Capacity
    <3>1. Len(new) = Len(b) + 1 /\ i \in 1 .. (Len(b) + 1) /\ i # Len(b) + 1
      BY <1>1, <1>2, <1>3, <2>2, Zenon
    <3>2. i \in 1 .. Len(b)
      BY <1>2, <3>1
    <3>3. new[i] = b[i]
      BY ONLY <1>1, <2>2, <3>2
    <3> QED BY ONLY <1>2, <3>2, <3>3
  <2> QED BY <1>2, <2>1, <2>2
<1>4. \A i \in DOMAIN new : new[i] = t \/ \E j \in DOMAIN b : new[i] = b[j]
  BY <1>1, <1>3
<1> QED BY <1>1, <1>4 DEF new

(* Popping shifts the records that stay by one.                            *)
LEMMA TailShape ==
  ASSUME NEW T, NEW b \in Seq(T), b # <<>>
  PROVE  /\ Tail(b) \in Seq(T)
         /\ Len(Tail(b)) = Len(b) - 1
         /\ \A i \in 1 .. (Len(b) - 1) : Tail(b)[i] = b[i + 1]
OBVIOUS

-------------------------------------------------------------------------------
(* A function on 1 .. n is a sequence of length n.                         *)
LEMMA FunctionIsSequence ==
  ASSUME NEW S, NEW n \in Nat, NEW f \in [1 .. n -> S]
  PROVE  f \in Seq(S) /\ Len(f) = n
<1>1. f \in Seq(S)
  BY SeqDef
<1>2. DOMAIN f = 1 .. n
  OBVIOUS
<1>3. Len(f) = n
  BY <1>1, <1>2, LenProperties
<1> QED BY <1>1, <1>3

-------------------------------------------------------------------------------
(* Bounds of sets of natural numbers.                                      *)

(* A set of naturals has a least element.                                  *)
LEMMA LeastExists ==
  ASSUME NEW S \in SUBSET Nat, S # {}
  PROVE  \E m \in S : \A n \in S : m <= n
<1>1. PICK m \in S : \A n \in S : ~ (<<n, m>> \in OpToRel(<, Nat))
  BY WFMin, NatLessThanWellFounded
<1>2. \A n \in S : ~ (n < m)
  BY <1>1 DEF OpToRel
<1>3. m \in Nat /\ \A n \in S : n \in Nat
  OBVIOUS
<1> QED BY <1>2, <1>3

(* A set of naturals with an upper bound has a greatest element.           *)
LEMMA GreatestExists ==
  ASSUME NEW S \in SUBSET Nat, S # {}, NEW b \in Nat, \A s \in S : s <= b
  PROVE  \E m \in S : \A n \in S : n <= m
<1> DEFINE T == {n \in Nat : \A s \in S : s <= n}
<1>1. PICK m \in T : \A n \in T : m <= n
  <2>1. T \subseteq Nat /\ b \in T
    OBVIOUS
  <2> HIDE DEF T
  <2> QED BY <2>1, LeastExists
<1>2. m \in S
  <2> SUFFICES ASSUME m \notin S PROVE FALSE
    OBVIOUS
  <2>1. \A s \in S : s \in Nat /\ s <= m /\ s # m
    OBVIOUS
  <2>2. m \in Nat /\ m # 0
    <3>1. PICK s \in S : TRUE
      OBVIOUS
    <3> QED BY <2>1, <3>1
  <2>3. m - 1 \in Nat /\ \A s \in S : s <= m - 1
    BY <2>1, <2>2
  <2>4. m - 1 \in T
    BY <2>3
  <2> QED BY <1>1, <2>2, <2>4
<1> QED BY <1>2

(* The values of a function on 1 .. k have an upper bound.                 *)
LEMMA FiniteIsBounded ==
  ASSUME NEW k \in Nat, NEW f, \A i \in 1 .. k : f[i] \in Nat
  PROVE  \E b \in Nat : \A i \in 1 .. k : f[i] <= b
<1> DEFINE Bounded(j) == \E b \in Nat : \A i \in 1 .. j : f[i] <= b
           T == {j \in 1 .. k : ~Bounded(j)}
<1>1. SUFFICES ASSUME T # {} PROVE FALSE
  <2>1. Bounded(0)
    OBVIOUS
  <2>2. k = 0 \/ k \in 1 .. k
    OBVIOUS
  <2>3. Bounded(k) => \E b \in Nat : \A i \in 1 .. k : f[i] <= b
    OBVIOUS
  <2> HIDE DEF Bounded
  <2>4. T = {} => Bounded(k)
    BY <2>1, <2>2
  <2> QED BY <2>3, <2>4
<1>2. PICK m \in T : \A n \in T : m <= n
  <2>1. T \subseteq Nat
    OBVIOUS
  <2> HIDE DEF T
  <2> QED BY <1>1, <2>1, LeastExists
<1>3. m \in 1 .. k /\ ~Bounded(m)
  OBVIOUS
<1>4. Bounded(m - 1)
  <2>1. Bounded(0)
    OBVIOUS
  <2>2. m - 1 = 0 \/ m - 1 \in 1 .. k
    BY <1>3
  <2>3. m - 1 \notin T
    <3>1. m \in Nat /\ m - 1 < m
      BY <1>3
    <3> HIDE DEF T
    <3> QED BY <1>2, <3>1
  <2> HIDE DEF Bounded
  <2> QED BY <2>1, <2>2, <2>3
<1>5. PICK b \in Nat : \A i \in 1 .. (m - 1) : f[i] <= b
  BY <1>4
<1>6. f[m] \in Nat
  BY <1>3
<1>7. \A i \in 1 .. m : i = m \/ i \in 1 .. (m - 1)
  BY <1>3
<1>8. \A i \in 1 .. m : f[i] \in Nat
  BY <1>3
<1>9. \A i \in 1 .. m : f[i] <= b + f[m]
  <2> SUFFICES ASSUME NEW i \in 1 .. m PROVE f[i] <= b + f[m]
    OBVIOUS
  <2>1. f[i] \in Nat /\ (f[i] <= b \/ f[i] = f[m])
    BY <1>5, <1>7, <1>8
  <2> HIDE DEF T
  <2> QED BY <1>6, <2>1
<1>10. b + f[m] \in Nat
  BY <1>6
<1> QED BY <1>3, <1>9, <1>10
===============================================================================
