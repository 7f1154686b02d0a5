-------------------------- MODULE DataPipelineProofs --------------------------
(***************************************************************************)
(* Machine-checked facts about DataPipeline, for every buffer capacity,    *)
(* every BufWriter, every set of requests, vendors and environments and    *)
(* every number of loops.                                                  *)
(***************************************************************************)
EXTENDS DataPipeline, TickBufferProofs, FiniteSetTheorems

Rec == [id : Nat, n : Nat \ {0}, src : Nat]
Row == [id : Int, n : Nat, by : Nat]
Cursor == Nat \cup {NoCursor}
File == Loops \cup {NoFile}

\* Concatenation as a name the provers need not look into.
Joined(x, y) == x \o y

\* No two records of a buffer carry one number.
Numbered(b) == \A i, j \in DOMAIN b : b[i].n = b[j].n => i = j

-------------------------------------------------------------------------------
(* Sums of the values of a function, as FoldFunction computes them.  A sum *)
(* of naturals counts the pairs of an argument and a natural under its     *)
(* value, and so it changes by one when one value does.                    *)

Units(f, s) == {u \in s \X Nat : u[2] < f[u[1]]}

(* A finite set is the union of an argument and of fewer of them.          *)
LEMMA UnitsSplit ==
  ASSUME NEW S, NEW f \in [S -> Nat], NEW s \in SUBSET S, NEW x \in s,
         IsFiniteSet(Units(f, s \ {x}))
  PROVE  /\ IsFiniteSet(Units(f, s))
         /\ Cardinality(Units(f, s)) = f[x] + Cardinality(Units(f, s \ {x}))
<1> DEFINE Column == {u \in {x} \X Nat : u[2] < f[x]}
           I == 0 .. (f[x] - 1)
           g == [i \in I |-> <<x, i>>]
<1>1. f[x] \in Nat
  OBVIOUS
<1>2. IsFiniteSet(I) /\ Cardinality(I) = f[x]
  BY <1>1, FS_Interval
<1>3. g \in Bijection(I, Column)
  <2>1. g \in [I -> Column]
    BY <1>1
  <2>2. \A i, j \in I : g[i] = g[j] => i = j
    OBVIOUS
  <2>3. \A u \in Column : \E i \in I : g[i] = u
    <3> TAKE u \in Column
    <3>1. PICK i \in Nat : u = <<x, i>>
      OBVIOUS
    <3>2. i < f[x]
      BY <3>1
    <3>3. i \in I
      BY <1>1, <3>2
    <3> QED BY <3>1, <3>3
  <2> HIDE DEF g, I, Column
  <2>4. DOMAIN g = I
    BY <2>1
  <2> QED BY <2>1, <2>2, <2>3, <2>4 DEF Bijection, Injection, Surjection, IsInjective
<1> HIDE DEF g
<1>4. IsFiniteSet(Column) /\ Cardinality(Column) = f[x]
  <2>1. ExistsBijection(I, Column)
    BY <1>3 DEF ExistsBijection
  <2> HIDE DEF I, Column
  <2> QED BY <1>2, <2>1, FS_Bijection
<1>5. Units(f, s) = Column \cup Units(f, s \ {x})
  BY DEF Units
<1>6. Column \cap Units(f, s \ {x}) = {}
  BY DEF Units
<1> HIDE DEF Column, I
<1>7. Cardinality(Units(f, s \ {x})) \in Nat
  BY FS_CardinalityType
<1>8. Cardinality({}) = 0
  BY FS_EmptySet
<1>9. /\ IsFiniteSet(Column \cup Units(f, s \ {x}))
      /\ Cardinality(Column \cup Units(f, s \ {x})) =
           Cardinality(Column) + Cardinality(Units(f, s \ {x}))
             - Cardinality(Column \cap Units(f, s \ {x}))
  BY <1>4, FS_Union
<1>10. Cardinality(Column \cup Units(f, s \ {x})) = f[x] + Cardinality(Units(f, s \ {x}))
  <2>1. Cardinality(Column \cap Units(f, s \ {x})) = 0
    BY <1>6, <1>8
  <2>2. Cardinality(Column) = f[x]
    BY <1>4
  <2> QED BY <1>1, <1>7, <1>9, <2>1, <2>2
<1> QED BY <1>5, <1>9, <1>10

(* There are finitely many, for finitely many arguments.                   *)
LEMMA UnitsFinite ==
  ASSUME NEW S, IsFiniteSet(S), NEW f \in [S -> Nat], NEW s \in SUBSET S
  PROVE  IsFiniteSet(Units(f, s))
<1> DEFINE Bad == {Cardinality(t) : t \in {r \in SUBSET S : ~IsFiniteSet(Units(f, r))}}
<1>1. \A t \in SUBSET S : IsFiniteSet(t) /\ Cardinality(t) \in Nat
  BY FS_Subset, FS_CardinalityType
<1>2. Bad = {}
  <2> SUFFICES ASSUME Bad # {}
               PROVE  FALSE
    OBVIOUS
  <2>1. Bad \in SUBSET Nat
    BY <1>1
  <2>2. PICK m \in Bad : \A n \in Bad : m <= n
    BY <2>1, LeastExists
  <2>3. PICK t \in SUBSET S : ~IsFiniteSet(Units(f, t)) /\ Cardinality(t) = m
    BY <2>2
  <2>4. t # {}
    <3>1. Units(f, {}) = {}
      BY DEF Units
    <3> QED BY <2>3, <3>1, FS_EmptySet
  <2>5. PICK x : x \in t
    BY <2>4
  <2>6. t \ {x} \in SUBSET S /\ Cardinality(t \ {x}) = m - 1 /\ m \in Nat
    BY <1>1, <2>3, <2>5, FS_RemoveElement
  <2>7. IsFiniteSet(Units(f, t \ {x}))
    BY <2>2, <2>6
  <2> QED BY <2>3, <2>5, <2>7, UnitsSplit
<1> QED BY <1>2

(* The fold is a function over the sets of arguments, whose recursion the  *)
(* number of units satisfies and nothing else does.                        *)
Chosen(s) == CHOOSE x \in s : TRUE

Summed(g, f, S) ==
  g = [s \in SUBSET S |-> IF s = {} THEN 0 ELSE f[Chosen(s)] + g[s \ {Chosen(s)}]]

\* Counting units obeys the recursion of a sum.
LEMMA UnitsAreSummed ==
  ASSUME NEW S, IsFiniteSet(S), NEW f \in [S -> Nat]
  PROVE  Summed([s \in SUBSET S |-> Cardinality(Units(f, s))], f, S)
<1> DEFINE g == [s \in SUBSET S |-> Cardinality(Units(f, s))]
<1> SUFFICES ASSUME NEW s \in SUBSET S
             PROVE  Cardinality(Units(f, s)) =
                      IF s = {} THEN 0 ELSE f[Chosen(s)] + g[s \ {Chosen(s)}]
  BY DEF Summed
<1>1. CASE s = {}
  <2>1. Units(f, s) = {}
    BY <1>1 DEF Units
  <2> QED BY <1>1, <2>1, FS_EmptySet
<1>2. CASE s # {}
  <2>1. Chosen(s) \in s
    BY <1>2 DEF Chosen
  <2>2. s \ {Chosen(s)} \in SUBSET S
    OBVIOUS
  <2>3. Cardinality(Units(f, s)) = f[Chosen(s)] + Cardinality(Units(f, s \ {Chosen(s)}))
    BY <2>1, <2>2, UnitsFinite, UnitsSplit
  <2> QED BY <1>2, <2>2, <2>3
<1> QED BY <1>1, <1>2

\* Whatever obeys it counts units.
LEMMA SummedIsUnits ==
  ASSUME NEW S, IsFiniteSet(S), NEW f \in [S -> Nat], NEW g, Summed(g, f, S)
  PROVE  g[S] = Cardinality(Units(f, S))
<1> DEFINE Bad == {Cardinality(t) : t \in {r \in SUBSET S : g[r] # Cardinality(Units(f, r))}}
<1>1. \A t \in SUBSET S : IsFiniteSet(t) /\ Cardinality(t) \in Nat
  BY FS_Subset, FS_CardinalityType
<1>2. \A t \in SUBSET S :
        g[t] = IF t = {} THEN 0 ELSE f[Chosen(t)] + g[t \ {Chosen(t)}]
  BY DEF Summed
<1>3. Bad = {}
  <2> SUFFICES ASSUME Bad # {}
               PROVE  FALSE
    OBVIOUS
  <2>1. Bad \in SUBSET Nat
    BY <1>1
  <2>2. PICK m \in Bad : \A n \in Bad : m <= n
    BY <2>1, LeastExists
  <2>3. PICK t \in SUBSET S : g[t] # Cardinality(Units(f, t)) /\ Cardinality(t) = m
    BY <2>2
  <2>4. t # {}
    <3>1. Units(f, {}) = {}
      BY DEF Units
    <3> QED BY <1>2, <2>3, <3>1, FS_EmptySet
  <2> DEFINE x == Chosen(t)
  <2>5. x \in t
    BY <2>4 DEF Chosen
  <2> HIDE DEF x
  <2>6. t \ {x} \in SUBSET S /\ Cardinality(t \ {x}) = m - 1 /\ m \in Nat
    BY <1>1, <2>3, <2>5, FS_RemoveElement
  <2>7. g[t \ {x}] = Cardinality(Units(f, t \ {x}))
    BY <2>2, <2>6
  <2>8. Cardinality(Units(f, t)) = f[x] + Cardinality(Units(f, t \ {x}))
    BY <2>5, <2>6, UnitsFinite, UnitsSplit
  <2>9. g[t] = f[x] + g[t \ {x}]
    BY <1>2, <2>4 DEF x
  <2> QED BY <2>3, <2>7, <2>8, <2>9
<1> QED BY <1>3

(* The sum of a function's values is the number of its units.              *)
LEMMA SumIsUnits ==
  ASSUME NEW S, IsFiniteSet(S), NEW f \in [S -> Nat]
  PROVE  FoldFunction(+, 0, f) = Cardinality(Units(f, S))
<1> DEFINE it == CHOOSE g : g = [s \in SUBSET S |->
                   IF s = {} THEN 0
                   ELSE f[CHOOSE x \in s : TRUE] + g[s \ {CHOOSE x \in s : TRUE}]]
<1>1. FoldFunction(+, 0, f) = it[S]
  <2>1. DOMAIN f = S
    OBVIOUS
  <2> QED BY <2>1 DEF FoldFunction, FoldFunctionOnSet, MapThenFoldSet
<1>2. it = CHOOSE g : Summed(g, f, S)
  BY DEF Summed, Chosen
<1> HIDE DEF it
<1>3. Summed(it, f, S)
  BY <1>2, UnitsAreSummed
<1> QED BY <1>1, <1>3, SummedIsUnits

(* It goes up by one when one value does.                                  *)
LEMMA SumOfOneMore ==
  ASSUME NEW S, IsFiniteSet(S), NEW f \in [S -> Nat], NEW x \in S, NEW g \in [S -> Nat],
         g = [f EXCEPT ![x] = f[x] + 1]
  PROVE  FoldFunction(+, 0, g) = FoldFunction(+, 0, f) + 1
<1>1. Units(g, S) = Units(f, S) \cup {<<x, f[x]>>}
  <2>1. \A y \in S, i \in Nat : i < g[y] <=> i < f[y] \/ (y = x /\ i = f[x])
    <3>1. f[x] \in Nat /\ g[x] = f[x] + 1 /\ \A y \in S \ {x} : g[y] = f[y]
      OBVIOUS
    <3> QED BY <3>1
  <2>2. f[x] \in Nat
    OBVIOUS
  <2> QED BY <2>1, <2>2 DEF Units
<1>2. <<x, f[x]>> \notin Units(f, S)
  BY DEF Units
<1>3. IsFiniteSet(Units(f, S))
  BY UnitsFinite
<1>4. Cardinality(Units(g, S)) = Cardinality(Units(f, S)) + 1
  BY <1>1, <1>2, <1>3, FS_AddElement
<1> QED BY <1>4, SumIsUnits

(* And it is none when every value is.                                     *)
LEMMA SumOfNone ==
  ASSUME NEW S, IsFiniteSet(S), NEW f \in [S -> Nat], \A x \in S : f[x] = 0
  PROVE  FoldFunction(+, 0, f) = 0
<1>1. Units(f, S) = {}
  BY DEF Units
<1> QED BY <1>1, SumIsUnits, FS_EmptySet

(* A sum of naturals is one.                                               *)
LEMMA SumIsNatural ==
  ASSUME NEW S, IsFiniteSet(S), NEW f \in [S -> Nat]
  PROVE  FoldFunction(+, 0, f) \in Nat
<1>1. IsFiniteSet(Units(f, S))
  BY UnitsFinite
<1>2. Cardinality(Units(f, S)) \in Nat
  BY <1>1, FS_CardinalityType
<1>3. FoldFunction(+, 0, f) = Cardinality(Units(f, S))
  BY SumIsUnits
<1> QED BY <1>2, <1>3

-------------------------------------------------------------------------------
(* The order of a batch is a strict total order on numbered records.       *)
LEMMA BeforeIsOrder ==
  /\ \A t \in Rec : ~Before(t, t)
  /\ \A t, u, v \in Rec : Before(t, u) /\ Before(u, v) => Before(t, v)
  /\ \A t, u \in Rec : Before(t, u) => ~Before(u, t)
  /\ \A t, u \in Rec : t.n # u.n => Before(t, u) \/ Before(u, t)
  /\ \A t, u \in Rec : Before(t, u) => t.id <= u.id
<1>1. \A t \in Rec : t.id \in Nat /\ t.n \in Nat
  BY DEF Rec
<1>2. ASSUME NEW t \in Rec, NEW u \in Rec, NEW v \in Rec
      PROVE  /\ ~Before(t, t)
             /\ Before(t, u) /\ Before(u, v) => Before(t, v)
             /\ Before(t, u) => ~Before(u, t) /\ t.id <= u.id
             /\ t.n # u.n => Before(t, u) \/ Before(u, t)
  <2>1. /\ t.id \in Int /\ t.n \in Int /\ u.id \in Int /\ u.n \in Int
        /\ v.id \in Int /\ v.n \in Int
    BY <1>1
  <2> QED BY <2>1 DEF Before
<1> QED BY <1>2

(* Any finite set of numbered records can be put in that order: the place  *)
(* of a record is the number of those before it.                           *)
LEMMA SortedExists ==
  ASSUME NEW F \in SUBSET Rec, IsFiniteSet(F), \A t, u \in F : t.n = u.n => t = u
  PROVE  \E s \in [1 .. Cardinality(F) -> F] :
           \A i, j \in DOMAIN s : i < j => Before(s[i], s[j])
<1> DEFINE size == Cardinality(F)
           below == [t \in F |-> {u \in F : Before(u, t)}]
           place == [t \in F |-> Cardinality(below[t]) + 1]
<1>1. size \in Nat
  BY FS_CardinalityType
<1>2. ASSUME NEW t \in F
      PROVE  /\ below[t] \in SUBSET (F \ {t}) /\ IsFiniteSet(below[t])
             /\ Cardinality(below[t]) \in Nat /\ Cardinality(below[t]) < size
  <2>1. below[t] \in SUBSET (F \ {t})
    BY BeforeIsOrder
  <2>2. IsFiniteSet(F \ {t}) /\ Cardinality(F \ {t}) = size - 1
    BY FS_RemoveElement
  <2> HIDE DEF below, size
  <2>3. IsFiniteSet(below[t]) /\ Cardinality(below[t]) <= size - 1
    BY <2>1, <2>2, FS_Subset
  <2>4. Cardinality(below[t]) \in Nat
    BY <2>3, FS_CardinalityType
  <2> QED BY <1>1, <2>1, <2>3, <2>4
<1>3. ASSUME NEW t \in F, NEW u \in F, Before(t, u)
      PROVE  Cardinality(below[t]) < Cardinality(below[u])
  <2>1. below[t] \in SUBSET below[u]
    BY <1>3, BeforeIsOrder
  <2>2. t \in below[u]
    BY <1>3
  <2>3. t \notin below[t]
    BY <1>2
  <2> HIDE DEF below
  <2>4. Cardinality(below[t]) <= Cardinality(below[u])
    BY <1>2, <2>1, FS_Subset
  <2>5. Cardinality(below[u]) # Cardinality(below[t])
    BY <1>2, <2>1, <2>2, <2>3, FS_Subset
  <2> QED BY <1>2, <2>4, <2>5
<1>4. \A t \in F : place[t] = Cardinality(below[t]) + 1
  OBVIOUS
<1> HIDE DEF below
<1>5. place \in [F -> 1 .. size]
  BY <1>1, <1>2
<1> HIDE DEF place, size
<1>6. \A t, u \in F : Before(t, u) => place[t] < place[u]
  BY <1>2, <1>3, <1>4
<1>7. \A t, u \in F : t # u => Before(t, u) \/ Before(u, t)
  BY BeforeIsOrder
<1>8. \A t, u \in F : place[t] \in Int /\ (place[t] = place[u] => t = u)
  BY <1>1, <1>5, <1>6, <1>7
<1>9. place \in Surjection(F, 1 .. size)
  <2>1. place \in Injection(F, 1 .. size)
    BY <1>5, <1>8 DEF Injection, IsInjective
  <2>2. IsFiniteSet(1 .. size) /\ Cardinality(1 .. size) = size
    BY <1>1, FS_Interval
  <2> QED BY <2>1, <2>2, FS_Injection DEF size
<1> DEFINE s == [i \in 1 .. size |-> CHOOSE t \in F : place[t] = i]
<1>10. \A i \in 1 .. size : s[i] \in F /\ place[s[i]] = i
  BY <1>9 DEF Surjection
<1>11. s \in [1 .. size -> F] /\ DOMAIN s = 1 .. size
  BY <1>10
<1> HIDE DEF s
<1>12. ASSUME NEW i \in 1 .. size, NEW j \in 1 .. size, i < j PROVE Before(s[i], s[j])
  <2>1. s[i] \in F /\ s[j] \in F /\ place[s[i]] = i /\ place[s[j]] = j
    BY <1>10
  <2>2. ~(j < i) /\ i # j
    BY <1>12
  <2> QED BY <1>6, <1>7, <2>1, <2>2
<1>13. \A i, j \in DOMAIN s : i < j => Before(s[i], s[j])
  BY <1>11, <1>12
<1> QED BY <1>11, <1>13 DEF size

(* The batch of read_since: the fresh records, each once and sorted.       *)
LEMMA FreshShape ==
  ASSUME NEW b \in Seq(Rec), Numbered(b), NEW c \in Cursor
  PROVE  /\ FreshRows(b, c) \in Seq(Rec)
         /\ \A i \in DOMAIN FreshRows(b, c) :
              \E k \in DOMAIN b : FreshRows(b, c)[i] = b[k] /\ b[k].id > c
         /\ \A k \in DOMAIN b : b[k].id > c =>
              \E i \in DOMAIN FreshRows(b, c) : FreshRows(b, c)[i] = b[k]
         /\ \A i, j \in DOMAIN FreshRows(b, c) :
              i < j => /\ FreshRows(b, c)[i].id <= FreshRows(b, c)[j].id
                       /\ FreshRows(b, c)[i].n # FreshRows(b, c)[j].n
<1> DEFINE F == FreshRecords(b, c)
           J == {j \in DOMAIN b : b[j].id > c}
           f == [j \in J |-> b[j]]
           size == Cardinality(F)
<1>1. /\ DOMAIN b = 1 .. Len(b) /\ Len(b) \in Nat
      /\ \A k \in DOMAIN b : b[k] \in Rec
  OBVIOUS
<1>2. F \in SUBSET Rec /\ F = {b[j] : j \in J}
  BY <1>1 DEF FreshRecords
<1>3. IsFiniteSet(F)
  <2>1. IsFiniteSet(J)
    <3>1. IsFiniteSet(1 .. Len(b)) /\ J \in SUBSET (1 .. Len(b))
      BY <1>1, FS_Interval
    <3> QED BY <3>1, FS_Subset
  <2>2. f \in Surjection(J, F)
    BY <1>2 DEF Surjection
  <2> HIDE DEF f, J, F
  <2> QED BY <2>1, <2>2, FS_Surjection
<1>4. \A t, u \in F : t.n = u.n => t = u
  BY <1>2 DEF Numbered
<1>5. \A i \in J : b[i] \in F
  BY <1>2
<1>6. \A t \in F : \E j \in J : t = b[j]
  BY <1>2
<1> HIDE DEF F, f
<1> DEFINE q == FreshRows(b, c)
<1>7. q \in [1 .. size -> F] /\ \A i, j \in DOMAIN q : i < j => Before(q[i], q[j])
  <2>1. \E s \in [1 .. size -> F] : \A i, j \in DOMAIN s : i < j => Before(s[i], s[j])
    BY <1>2, <1>3, <1>4, SortedExists
  <2> QED BY <2>1 DEF FreshRows, F
<1>8. size \in Nat
  BY <1>3, FS_CardinalityType
<1> HIDE DEF q, size
<1>9. DOMAIN q = 1 .. size /\ \A i \in 1 .. size : q[i] \in F
  BY <1>7
<1>10. q \in Seq(Rec)
  <2>1. q \in [1 .. size -> Rec]
    BY <1>2, <1>9, <1>7
  <2> QED BY <1>8, <2>1, FunctionIsSequence
<1>11. q \in Surjection(1 .. size, F)
  <2>1. \A i, j \in 1 .. size : q[i] = q[j] => i = j
    <3> SUFFICES ASSUME NEW i \in 1 .. size, NEW j \in 1 .. size, q[i] = q[j], i # j
                 PROVE  FALSE
      OBVIOUS
    <3>1. i < j \/ j < i
      BY <1>8
    <3>2. Before(q[i], q[j]) \/ Before(q[j], q[i])
      BY <1>7, <1>9, <3>1
    <3> QED BY <1>2, <1>9, <3>2, BeforeIsOrder
  <2>2. q \in Injection(1 .. size, F)
    BY <1>7, <2>1 DEF Injection, IsInjective
  <2>3. Cardinality(1 .. size) = Cardinality(F)
    BY <1>8, FS_Interval DEF size
  <2> QED BY <1>3, <2>2, <2>3, FS_Injection
<1>12. \A i \in DOMAIN q : \E k \in DOMAIN b : q[i] = b[k] /\ b[k].id > c
  BY <1>6, <1>9
<1>13. \A k \in DOMAIN b : b[k].id > c => \E i \in DOMAIN q : q[i] = b[k]
  BY <1>5, <1>9, <1>11 DEF Surjection
<1>14. ASSUME NEW i \in DOMAIN q, NEW j \in DOMAIN q, i < j
       PROVE  q[i].id <= q[j].id /\ q[i].n # q[j].n
  <2>1. q[i] \in F /\ q[j] \in F /\ Before(q[i], q[j])
    BY <1>7, <1>9, <1>14
  <2>2. q[i] # q[j]
    BY <1>2, <2>1, BeforeIsOrder
  <2> QED BY <1>2, <1>4, <2>1, <2>2, BeforeIsOrder
<1> QED BY <1>10, <1>12, <1>13, <1>14 DEF q

-------------------------------------------------------------------------------
(* What read_since leaves behind: a cursor that never goes back, at the id *)
(* of the batch's last row, with nothing of the buffer above it.           *)
LEMMA CursorShape ==
  ASSUME NEW b \in Seq(Rec), Numbered(b), NEW c \in Cursor
  PROVE  /\ CursorAfter(b, c) \in Cursor /\ c <= CursorAfter(b, c)
         /\ \A k \in DOMAIN b : b[k].id <= CursorAfter(b, c)
         /\ FreshRows(b, c) = <<>> => CursorAfter(b, c) = c
         /\ FreshRows(b, c) # <<>> =>
              FreshRows(b, c)[Len(FreshRows(b, c))].id = CursorAfter(b, c)
<1> DEFINE q == FreshRows(b, c)
           fresh == FreshIds(b, c)
           e == CursorAfter(b, c)
           ids == [k \in 1 .. Len(b) |-> b[k].id]
<1>1. /\ DOMAIN b = 1 .. Len(b) /\ Len(b) \in Nat
      /\ \A k \in DOMAIN b : b[k] \in Rec /\ b[k].id \in Nat
  <2>1. DOMAIN b = 1 .. Len(b) /\ Len(b) \in Nat /\ \A k \in DOMAIN b : b[k] \in Rec
    OBVIOUS
  <2>2. \A t \in Rec : t.id \in Nat
    BY DEF Rec
  <2> QED BY <2>1, <2>2
<1>2. /\ q \in Seq(Rec)
      /\ \A i \in DOMAIN q : \E k \in DOMAIN b : q[i] = b[k] /\ b[k].id > c
      /\ \A k \in DOMAIN b : b[k].id > c => \E i \in DOMAIN q : q[i] = b[k]
      /\ \A i, j \in DOMAIN q : i < j => q[i].id <= q[j].id
  BY FreshShape
<1>3. fresh \in SUBSET Nat /\ \A n : n \in fresh <=> \E k \in DOMAIN b : n = b[k].id /\ n > c
  BY <1>1 DEF FreshIds, Ids
<1>4. DOMAIN q = 1 .. Len(q) /\ Len(q) \in Nat /\ (q = <<>> <=> Len(q) = 0)
  BY <1>2
<1>5. q = <<>> <=> fresh = {}
  <2> HIDE DEF q, fresh
  <2>1. q = <<>> <=> DOMAIN q = {}
    <3>1. \A k \in Nat : k = 0 <=> 1 .. k = {}
      OBVIOUS
    <3> QED BY <1>4, <3>1
  <2> QED BY <1>2, <1>3, <2>1
<1>6. c \in Int /\ Cursor \subseteq Int
  BY DEF Cursor, NoCursor
<1>7. CASE fresh = {}
  <2>1. e = c
    BY <1>7 DEF CursorAfter
  <2>2. \A k \in DOMAIN b : ~(b[k].id > c)
    BY <1>3, <1>7
  <2> QED BY <1>1, <1>5, <1>6, <1>7, <2>1, <2>2
<1>8. CASE fresh # {}
  <2>1. \E m \in Nat : \A i \in 1 .. Len(b) : ids[i] <= m
    <3>1. \A i \in 1 .. Len(b) : ids[i] \in Nat
      BY <1>1
    <3> HIDE DEF ids
    <3> QED BY <1>1, <3>1, FiniteIsBounded
  <2>2. \E m \in Nat : \A n \in fresh : n <= m
    <3>1. PICK m \in Nat : \A i \in 1 .. Len(b) : b[i].id <= m
      BY <2>1
    <3> HIDE DEF fresh
    <3>2. ASSUME NEW n \in fresh PROVE n <= m
      <4>1. PICK k \in DOMAIN b : n = b[k].id
        BY <1>3
      <4> QED BY <1>1, <3>1, <4>1
    <3> QED BY <3>2
  <2>3. \E m \in fresh : \A n \in fresh : n <= m
    <3> HIDE DEF fresh
    <3> QED BY <1>3, <1>8, <2>2, GreatestExists
  <2>4. e \in fresh /\ \A n \in fresh : n <= e
    BY <1>8, <2>3 DEF CursorAfter
  <2> HIDE DEF fresh, q, e
  <2>5. e \in Nat /\ e > c
    BY <1>3, <2>4
  <2>6. ASSUME NEW k \in DOMAIN b PROVE b[k].id <= e
    <3>1. CASE b[k].id > c
      BY <1>3, <2>4, <3>1
    <3>2. CASE ~(b[k].id > c)
      BY <1>1, <1>6, <2>5, <3>2
    <3> QED BY <3>1, <3>2
  <2>7. q # <<>> /\ Len(q) \in DOMAIN q
    BY <1>4, <1>5, <1>8
  <2>8. PICK i \in DOMAIN q : q[i].id = e
    BY <1>2, <1>3, <2>4
  <2>9. q[i].id <= q[Len(q)].id
    <3>1. i < Len(q) \/ i = Len(q)
      BY <1>4
    <3>2. q[i].id \in Int
      BY <2>5, <2>8
    <3> QED BY <1>2, <2>7, <3>1, <3>2
  <2>10. q[Len(q)].id <= e /\ q[Len(q)].id \in Nat
    BY <1>1, <1>2, <2>6, <2>7
  <2>11. q[Len(q)].id = e
    BY <2>5, <2>8, <2>9, <2>10
  <2>12. e \in Cursor /\ c <= e
    BY <1>6, <2>5 DEF Cursor
  <2> QED BY <2>6, <2>7, <2>11, <2>12 DEF q, e
<1> QED BY <1>7, <1>8

-------------------------------------------------------------------------------
(* The inductive invariant, in the parts the theorems need.                *)

LoopPcs == {"unborn", "exists", "open", "check", "tick", "push", "count", "write",
            "exit", "done"}
HandlerPcs == {"idle", "restore", "spawn", "keep", "take", "join", "tamper", "tampered",
               "reset", "zero", "zerotampers", "remove"}
HistorianState == [ino : File, by : File, cursor : Cursor, pending : Seq(Row)]
LoopState == [pc : LoopPcs, next : Nat, pre : BOOLEAN, h : HistorianState]
HandlerState == [pc : HandlerPcs, arg : Nat, alive : SUBSET Loops]
FileSystem == [named : File, data : [Loops -> Seq(Row)]]
Svids == Vendors \cup {Generic}

\* The loops a handler may carry in its local.
Carries(c) == At(c, "keep") => client[c].arg \in Loops

CoreType ==
  /\ buf \in Seq(Rec) /\ Len(buf) <= Capacity
  /\ running \in BOOLEAN /\ handle \in File
  /\ ticksEmitted \in Nat /\ pushes \in Nat
  /\ loop \in [Loops -> LoopState]
  /\ client \in [Clients -> HandlerState]
  /\ \A c \in Clients : Carries(c)
  /\ env \in Environments

DataType ==
  /\ fs \in FileSystem
  /\ unwritten \in [Loops -> SUBSET Nat]
  /\ vendor \in Svids /\ seen \in [Svids -> Nat]
  /\ l0 \in [cursor : Cursor, last : Nat, total : Nat]
  /\ l0got \in SUBSET Nat
  /\ stopped \in SUBSET Loops

\* Records are numbered in the order of the pushes, whatever their ids.
BufInv == Numbered(buf) /\ \A k \in DOMAIN buf : buf[k].n <= pushes

L0Inv ==
  /\ \A m \in l0got : m <= pushes
  /\ \A k \in DOMAIN buf : buf[k].id > l0.cursor => buf[k].n \notin l0got
  /\ l0.total = Cardinality(l0got)

\* Where a loop can be alive while the handler of a patient, lone operator is at
\* pc p with local a.
Within(p, a, run, hand, alive) ==
  /\ p \in {"spawn", "keep"} => run
  /\ p \in {"take", "join"} => ~run
  /\ p = "spawn" => alive = {}
  /\ p = "keep" => alive \subseteq {a}
  /\ p = "take" => alive \subseteq {hand}
  /\ p = "join" => alive \subseteq {a} /\ hand = NoLoop
  /\ p \notin {"spawn", "keep", "take", "join"} => alive \subseteq IF run THEN {hand} ELSE {}

StopInv ==
  \A o \in Clients : env.clients = {o} /\ env.impatient = {} =>
    /\ \A c \in Clients \ {o} : At(c, "idle")
    /\ stopped \cap (Alive \cup Unborn) = {}
    /\ client[o].alive \cap Unborn = {}
    /\ Within(client[o].pc, client[o].arg, running, handle, Alive)

\* The rows of session l in w: in order, behind its cursor, and none of them
\* of a record the cursor has still to come to.
Behind(w, l, b, p, cursor) ==
  /\ \A i, j \in DOMAIN w :
       i < j /\ w[i].by = l /\ w[j].by = l => w[i].id <= w[j].id /\ w[i].n # w[j].n
  /\ \A i \in DOMAIN w : w[i].by = l =>
       /\ w[i].id <= cursor /\ w[i].n <= p
       /\ \A k \in DOMAIN b : b[k].id > cursor => b[k].n # w[i].n

\* Session l in state st, with data in the files.  Its historian is there from
\* the open on, its rows nowhere before that.
HistorianOk(l, st, data) ==
  /\ st.h.ino = NoFile => st.h = NoHistorian
  /\ st.h.ino # NoFile => st.h.by = l
  /\ st.pc \in {"unborn", "exists", "open"} => st.h.ino = NoFile
  /\ st.pc = "write" => st.h.ino # NoFile
  /\ \A i \in DOMAIN st.h.pending : st.h.pending[i].by = l
  /\ st.h.ino = NoFile => \A f \in Loops : \A i \in DOMAIN data[f] : data[f][i].by # l

\* What it wrote: the rows of its file, then those its BufWriter holds.
Rows(h, data) == IF h.ino = NoFile THEN <<>> ELSE Joined(data[h.ino], h.pending)

Reaches(w, l, cursor) == \E i \in DOMAIN w : w[i].by = l /\ w[i].id = cursor

\* The last row it wrote is its cursor's and, once ended, it holds none;
\* lost are the rows its failed writes gave up.
LastOk(l, st, data, lost) ==
  lost = {} =>
    /\ st.h.cursor # NoCursor => Reaches(Rows(st.h, data), l, st.h.cursor)
    /\ st.pc = "done" => st.h.pending = <<>>

Session(l, st, data, lost, b, p) ==
  /\ HistorianOk(l, st, data)
  /\ Behind(Rows(st.h, data), l, b, p, st.h.cursor)
  /\ LastOk(l, st, data, lost)

Sessions == \A l \in Loops : Session(l, loop[l], fs.data, unwritten[l], buf, pushes)

TypeInv == CoreType /\ DataType /\ BufInv

\* The forms in which the steps move a handler's locals and a loop's.
GoPc(c, p) == [client EXCEPT ![c].pc = p]
GoPcArg(c, p, a) == [client EXCEPT ![c].pc = p, ![c].arg = a]
GoAll(c, p, a, v) == [client EXCEPT ![c] = [pc |-> p, arg |-> a, alive |-> v]]
RunPc(l, p) == [loop EXCEPT ![l].pc = p]
RunPcPre(l, p, b) == [loop EXCEPT ![l].pc = p, ![l].pre = b]
RunPcNext(l, p, n) == [loop EXCEPT ![l].pc = p, ![l].next = n]
RunPcHist(l, p, h) == [loop EXCEPT ![l].pc = p, ![l].h = h]
RunAll(l, p, n, b, h) == [loop EXCEPT ![l] = [pc |-> p, next |-> n, pre |-> b, h |-> h]]

(* How a handler's locals move.                                            *)
LEMMA HandlerMoves ==
  ASSUME client \in [Clients -> HandlerState], NEW c \in Clients, NEW p \in HandlerPcs,
         NEW a \in Nat, NEW v \in SUBSET Loops
  PROVE  /\ GoPc(c, p) = GoAll(c, p, client[c].arg, client[c].alive)
         /\ GoPcArg(c, p, a) = GoAll(c, p, a, client[c].alive)
         /\ GoAll(c, p, a, v) \in [Clients -> HandlerState]
         /\ GoAll(c, p, a, v)[c] = [pc |-> p, arg |-> a, alive |-> v]
         /\ \A d \in Clients \ {c} : GoAll(c, p, a, v)[d] = client[d]
<1>1. /\ client[c] = [pc |-> client[c].pc, arg |-> client[c].arg, alive |-> client[c].alive]
      /\ client[c].arg \in Nat /\ client[c].alive \in SUBSET Loops
  BY DEF HandlerState
<1>2. [pc |-> p, arg |-> a, alive |-> v] \in HandlerState
  BY DEF HandlerState
<1>3. [client[c] EXCEPT !.pc = p] =
        [pc |-> p, arg |-> client[c].arg, alive |-> client[c].alive]
  BY <1>1
<1>4. [[client[c] EXCEPT !.pc = p] EXCEPT !.arg = a] =
        [pc |-> p, arg |-> a, alive |-> client[c].alive]
  <2>1. \A x \in HandlerState :
          [x EXCEPT !.arg = a] = [pc |-> x.pc, arg |-> a, alive |-> x.alive]
    BY DEF HandlerState
  <2>2. [pc |-> p, arg |-> client[c].arg, alive |-> client[c].alive] \in HandlerState
    BY <1>1 DEF HandlerState
  <2> QED BY <1>3, <2>1, <2>2
<1>5. GoPc(c, p) = GoAll(c, p, client[c].arg, client[c].alive)
  BY <1>3 DEF GoPc, GoAll
<1>6. GoPcArg(c, p, a) = GoAll(c, p, a, client[c].alive)
  BY <1>4 DEF GoPcArg, GoAll
<1> QED BY <1>2, <1>5, <1>6 DEF GoAll

(* How a loop's locals move.                                               *)
LEMMA LoopMoves ==
  ASSUME loop \in [Loops -> LoopState], NEW l \in Loops
  PROVE  /\ loop[l].next \in Nat /\ loop[l].pre \in BOOLEAN /\ loop[l].h \in HistorianState
         /\ \A p \in LoopPcs :
              RunPc(l, p) = RunAll(l, p, loop[l].next, loop[l].pre, loop[l].h)
         /\ \A p \in LoopPcs, b \in BOOLEAN :
              RunPcPre(l, p, b) = RunAll(l, p, loop[l].next, b, loop[l].h)
         /\ \A p \in LoopPcs, n \in Nat :
              RunPcNext(l, p, n) = RunAll(l, p, n, loop[l].pre, loop[l].h)
         /\ \A p \in LoopPcs, h \in HistorianState :
              RunPcHist(l, p, h) = RunAll(l, p, loop[l].next, loop[l].pre, h)
<1> DEFINE st(p, n, b, h) == [pc |-> p, next |-> n, pre |-> b, h |-> h]
<1>1. /\ loop[l] = st(loop[l].pc, loop[l].next, loop[l].pre, loop[l].h)
      /\ loop[l].next \in Nat /\ loop[l].pre \in BOOLEAN /\ loop[l].h \in HistorianState
  BY DEF LoopState
<1>2. ASSUME NEW p \in LoopPcs
      PROVE  /\ [loop[l] EXCEPT !.pc = p] = st(p, loop[l].next, loop[l].pre, loop[l].h)
             /\ st(p, loop[l].next, loop[l].pre, loop[l].h) \in LoopState
  BY <1>1 DEF LoopState
<1>3. ASSUME NEW p \in LoopPcs
      PROVE  RunPc(l, p) = RunAll(l, p, loop[l].next, loop[l].pre, loop[l].h)
  BY <1>2 DEF RunPc, RunAll
<1>4. ASSUME NEW p \in LoopPcs, NEW b \in BOOLEAN
      PROVE  RunPcPre(l, p, b) = RunAll(l, p, loop[l].next, b, loop[l].h)
  <2>1. \A x \in LoopState : [x EXCEPT !.pre = b] = st(x.pc, x.next, b, x.h)
    BY DEF LoopState
  <2>2. [[loop[l] EXCEPT !.pc = p] EXCEPT !.pre = b] = st(p, loop[l].next, b, loop[l].h)
    <3> DEFINE y == st(p, loop[l].next, loop[l].pre, loop[l].h)
    <3>1. y \in LoopState /\ [loop[l] EXCEPT !.pc = p] = y
      BY <1>2
    <3>2. y.pc = p /\ y.next = loop[l].next /\ y.pre = loop[l].pre /\ y.h = loop[l].h
      OBVIOUS
    <3> HIDE DEF y
    <3>3. [y EXCEPT !.pre = b] = st(p, loop[l].next, b, loop[l].h)
      BY <2>1, <3>1, <3>2
    <3> QED BY <3>1, <3>3
  <2> QED BY <2>2 DEF RunPcPre, RunAll
<1>5. ASSUME NEW p \in LoopPcs, NEW n \in Nat
      PROVE  RunPcNext(l, p, n) = RunAll(l, p, n, loop[l].pre, loop[l].h)
  <2>1. \A x \in LoopState : [x EXCEPT !.next = n] = st(x.pc, n, x.pre, x.h)
    BY DEF LoopState
  <2>2. [[loop[l] EXCEPT !.pc = p] EXCEPT !.next = n] = st(p, n, loop[l].pre, loop[l].h)
    <3> DEFINE y == st(p, loop[l].next, loop[l].pre, loop[l].h)
    <3>1. y \in LoopState /\ [loop[l] EXCEPT !.pc = p] = y
      BY <1>2
    <3>2. y.pc = p /\ y.next = loop[l].next /\ y.pre = loop[l].pre /\ y.h = loop[l].h
      OBVIOUS
    <3> HIDE DEF y
    <3>3. [y EXCEPT !.next = n] = st(p, n, loop[l].pre, loop[l].h)
      BY <2>1, <3>1, <3>2
    <3> QED BY <3>1, <3>3
  <2> QED BY <2>2 DEF RunPcNext, RunAll
<1>6. ASSUME NEW p \in LoopPcs, NEW h \in HistorianState
      PROVE  RunPcHist(l, p, h) = RunAll(l, p, loop[l].next, loop[l].pre, h)
  <2>1. \A x \in LoopState : [x EXCEPT !.h = h] = st(x.pc, x.next, x.pre, h)
    BY DEF LoopState
  <2>2. [[loop[l] EXCEPT !.pc = p] EXCEPT !.h = h] = st(p, loop[l].next, loop[l].pre, h)
    <3> DEFINE y == st(p, loop[l].next, loop[l].pre, loop[l].h)
    <3>1. y \in LoopState /\ [loop[l] EXCEPT !.pc = p] = y
      BY <1>2
    <3>2. y.pc = p /\ y.next = loop[l].next /\ y.pre = loop[l].pre /\ y.h = loop[l].h
      OBVIOUS
    <3> HIDE DEF y
    <3>3. [y EXCEPT !.h = h] = st(p, loop[l].next, loop[l].pre, h)
      BY <2>1, <3>1, <3>2
    <3> QED BY <3>1, <3>3
  <2> QED BY <2>2 DEF RunPcHist, RunAll
<1> QED BY <1>1, <1>3, <1>4, <1>5, <1>6

(* What the other loops see of it: nothing.                                *)
LEMMA LoopMoved ==
  ASSUME loop \in [Loops -> LoopState], NEW l \in Loops, NEW p \in LoopPcs,
         NEW n \in Nat, NEW b \in BOOLEAN, NEW h \in HistorianState
  PROVE  /\ RunAll(l, p, n, b, h) \in [Loops -> LoopState]
         /\ RunAll(l, p, n, b, h)[l] = [pc |-> p, next |-> n, pre |-> b, h |-> h]
         /\ \A m \in Loops \ {l} : RunAll(l, p, n, b, h)[m] = loop[m]
<1>1. [pc |-> p, next |-> n, pre |-> b, h |-> h] \in LoopState
  BY DEF LoopState
<1> QED BY <1>1 DEF RunAll

(* The rows a historian holds after a batch: its own, then the batch's.    *)
LEMMA RowsShape ==
  ASSUME NEW h \in HistorianState, NEW b \in Seq(Rec), Numbered(b)
  PROVE  \E F \in Seq(Row) :
           /\ RowsAfter(h, b) = h.pending \o F /\ RowsAfter(h, b) \in Seq(Row)
           /\ Len(F) = Len(FreshRows(b, h.cursor))
           /\ \A i \in DOMAIN F : /\ F[i].by = h.by
                                  /\ F[i].id = FreshRows(b, h.cursor)[i].id
                                  /\ F[i].n = FreshRows(b, h.cursor)[i].n
<1> DEFINE fresh == FreshRows(b, h.cursor)
           F == [i \in DOMAIN fresh |-> [id |-> fresh[i].id, n |-> fresh[i].n, by |-> h.by]]
<1>1. h.pending \in Seq(Row) /\ h.cursor \in Cursor /\ h.by \in Nat
  BY DEF HistorianState, File, Loops, NoFile
<1>2. fresh \in Seq(Rec)
  BY <1>1, FreshShape
<1>3. Len(fresh) \in Nat /\ DOMAIN fresh = 1 .. Len(fresh) /\ \A i \in DOMAIN fresh : fresh[i] \in Rec
  BY <1>2
<1>4. RowsAfter(h, b) = h.pending \o F
  BY DEF RowsAfter
<1> HIDE DEF fresh
<1>5. \A i \in DOMAIN fresh : F[i] = [id |-> fresh[i].id, n |-> fresh[i].n, by |-> h.by]
  OBVIOUS
<1>6. \A i \in DOMAIN fresh : F[i] \in Row
  <2>1. \A t \in Rec : t.id \in Int /\ t.n \in Nat
    BY DEF Rec
  <2> QED BY <1>1, <1>3, <2>1 DEF Row
<1>7. DOMAIN F = 1 .. Len(fresh)
  BY <1>3
<1>8. F \in [1 .. Len(fresh) -> Row]
  BY <1>3, <1>6
<1> HIDE DEF F
<1>9. F \in Seq(Row) /\ Len(F) = Len(fresh)
  BY <1>3, <1>8, FunctionIsSequence
<1>10. h.pending \o F \in Seq(Row)
  BY <1>1, <1>9
<1>11. \A i \in DOMAIN F : F[i].by = h.by /\ F[i].id = fresh[i].id /\ F[i].n = fresh[i].n
  BY <1>3, <1>5, <1>7
<1> QED BY <1>4, <1>9, <1>10, <1>11 DEF fresh

(* A record numbered after all others keeps the numbers of a buffer apart. *)
LEMMA PushNumbered ==
  ASSUME NEW b \in Seq(Rec), Len(b) <= Capacity, Numbered(b), NEW m \in Nat,
         \A k \in DOMAIN b : b[k].n <= m, NEW t \in Rec, t.n = m + 1
  PROVE  /\ Numbered(Push(b, t))
         /\ \A k \in DOMAIN Push(b, t) : Push(b, t)[k].n <= m + 1
<1>0. /\ Push(b, t) \in Seq(Rec)
      /\ Len(b) >= Capacity =>
           /\ Len(Push(b, t)) = Len(b)
           /\ \A i \in 1 .. (Len(b) - 1) : Push(b, t)[i] = b[i + 1]
      /\ Len(b) < Capacity =>
           /\ Len(Push(b, t)) = Len(b) + 1
           /\ \A i \in 1 .. Len(b) : Push(b, t)[i] = b[i]
      /\ Push(b, t)[Len(Push(b, t))] = t
  BY ONLY b \in Seq(Rec), Len(b) <= Capacity, t \in Rec, PushShape
<1> DEFINE p == Push(b, t)
<1>1. /\ Capacity \in Nat /\ Len(b) \in Nat /\ DOMAIN b = 1 .. Len(b)
      /\ \A k \in DOMAIN b : b[k] \in Rec
  BY CapacityAssumption
<1>2. /\ p \in Seq(Rec)
      /\ Len(b) >= Capacity =>
           /\ Len(p) = Len(b)
           /\ \A i \in 1 .. (Len(b) - 1) : p[i] = b[i + 1]
      /\ Len(b) < Capacity =>
           /\ Len(p) = Len(b) + 1
           /\ \A i \in 1 .. Len(b) : p[i] = b[i]
      /\ p[Len(p)] = t
  BY <1>0
<1> HIDE DEF p
<1>3. DOMAIN p = 1 .. Len(p) /\ Len(p) \in Nat
  BY <1>2
<1>4. \A k \in DOMAIN b : b[k].n \in Nat /\ b[k].n <= m /\ b[k].n # m + 1
  <2>1. \A r \in Rec : r.n \in Nat
    BY DEF Rec
  <2>2. \A k \in DOMAIN b : b[k].n \in Nat
    BY <1>1, <2>1
  <2> QED BY <2>2
<1>5. PICK o \in {0, 1} : \A k \in DOMAIN p : k # Len(p) => k + o \in DOMAIN b /\ p[k] = b[k + o]
  <2>1. CASE Len(b) >= Capacity
    <3>1. ASSUME NEW k \in DOMAIN p, k # Len(p) PROVE k + 1 \in DOMAIN b /\ p[k] = b[k + 1]
      <4>1. k \in 1 .. (Len(b) - 1)
        <5>1. Len(p) = Len(b)
          BY <1>2, <2>1
        <5>2. k \in 1 .. Len(p)
          BY <1>3
        <5> QED BY <1>1, <3>1, <5>1, <5>2
      <4> QED BY <1>1, <1>2, <2>1, <4>1
    <3> QED BY <3>1
  <2>2. CASE Len(b) < Capacity
    <3>1. ASSUME NEW k \in DOMAIN p, k # Len(p) PROVE k + 0 \in DOMAIN b /\ p[k] = b[k + 0]
      <4>1. k \in 1 .. Len(b) /\ k + 0 = k
        <5>1. Len(p) = Len(b) + 1
          BY <1>2, <2>2
        <5>2. k \in 1 .. Len(p)
          BY <1>3
        <5> QED BY <1>1, <3>1, <5>1, <5>2
      <4> QED BY <1>1, <1>2, <2>2, <4>1, Zenon
    <3> QED BY <3>1, Zenon
  <2> QED BY <1>1, <2>1, <2>2
<1>6. \A i, j \in DOMAIN p : i + o = j + o => i = j
  BY <1>3
<1>7. Numbered(p)
  <2> SUFFICES ASSUME NEW i \in DOMAIN p, NEW j \in DOMAIN p, p[i].n = p[j].n PROVE i = j
    BY DEF Numbered
  <2>1. CASE i # Len(p) /\ j # Len(p)
    BY <1>5, <1>6, <2>1 DEF Numbered
  <2>2. CASE i = Len(p) \/ j = Len(p)
    BY <1>2, <1>4, <1>5, <2>2
  <2> QED BY <2>1, <2>2
<1>8. ASSUME NEW k \in DOMAIN p PROVE p[k].n <= m + 1
  <2>1. p[k].n = m + 1 \/ (p[k].n \in Nat /\ p[k].n <= m)
    BY <1>2, <1>4, <1>5
  <2> QED BY <2>1
<1> QED BY <1>7, <1>8 DEF p

(* A push numbers its record after every one before it.                    *)
LEMMA PushKeepsBuffer ==
  ASSUME CoreType, BufInv, NEW id \in Nat, NEW src \in Nat, PushRecord(id, src)
  PROVE  /\ buf' \in Seq(Rec) /\ Len(buf') <= Capacity /\ pushes' = pushes + 1 /\ pushes' \in Nat
         /\ BufInv'
         /\ \A k \in DOMAIN buf' : \/ buf'[k] = [id |-> id, n |-> pushes + 1, src |-> src]
                                    \/ \E j \in DOMAIN buf : buf'[k] = buf[j]
<1> DEFINE t == [id |-> id, n |-> pushes + 1, src |-> src]
<1>1. buf \in Seq(Rec) /\ Len(buf) <= Capacity /\ pushes \in Nat
  BY DEF CoreType
<1>2. t \in Rec /\ t.n = pushes + 1
  BY <1>1 DEF Rec
<1>3. buf' = Push(buf, t) /\ pushes' = pushes + 1
  BY DEF PushRecord
<1> HIDE DEF t
<1>4. /\ buf' \in Seq(Rec) /\ Len(buf') <= Capacity
      /\ \A k \in DOMAIN buf' : buf'[k] = t \/ \E j \in DOMAIN buf : buf'[k] = buf[j]
  BY <1>1, <1>2, <1>3, PushMembers
<1>5. Numbered(buf') /\ \A k \in DOMAIN buf' : buf'[k].n <= pushes + 1
  BY <1>1, <1>2, <1>3, PushNumbered DEF BufInv
<1> QED BY <1>1, <1>3, <1>4, <1>5 DEF BufInv, t

(* So does a reset, one record after the other.                            *)
LEMMA TailKeepsBuffer ==
  ASSUME CoreType, BufInv, buf # <<>>, buf' = Tail(buf), UNCHANGED pushes
  PROVE  /\ buf' \in Seq(Rec) /\ Len(buf') <= Capacity /\ BufInv'
         /\ \A k \in DOMAIN buf' : \E j \in DOMAIN buf : buf'[k] = buf[j]
<1>1. buf \in Seq(Rec) /\ Len(buf) <= Capacity
  BY DEF CoreType
<1>2. /\ buf' \in Seq(Rec) /\ Len(buf') = Len(buf) - 1
      /\ \A i \in 1 .. (Len(buf) - 1) : buf'[i] = buf[i + 1]
  BY <1>1, TailShape
<1>3. /\ DOMAIN buf = 1 .. Len(buf) /\ Len(buf) \in Nat /\ DOMAIN buf' = 1 .. Len(buf')
  BY <1>1, <1>2
<1>4. \A k \in DOMAIN buf' : k + 1 \in DOMAIN buf /\ buf'[k] = buf[k + 1]
  BY <1>2, <1>3
<1>5. \A i, j \in DOMAIN buf' : i + 1 = j + 1 => i = j
  BY <1>3
<1>6. Numbered(buf')
  BY <1>4, <1>5 DEF Numbered, BufInv
<1> QED BY <1>1, <1>2, <1>3, <1>4, <1>6, CapacityAssumption DEF BufInv

(* The types of the handlers' locals, after one of them moved on.          *)
LEMMA HandlerGoes ==
  ASSUME CoreType, NEW c \in Clients, NEW p \in HandlerPcs, NEW a \in Nat,
         NEW v \in SUBSET Loops, p = "keep" => a \in Loops,
         client' = GoAll(c, p, a, v)
  PROVE  client' \in [Clients -> HandlerState] /\ \A d \in Clients : Carries(d)'
<1>1. client \in [Clients -> HandlerState] /\ \A d \in Clients : Carries(d)
  BY DEF CoreType
<1>2. client' \in [Clients -> HandlerState]
  BY <1>1, HandlerMoves
<1>3. \A d \in Clients : client'[d] = IF d = c THEN [pc |-> p, arg |-> a, alive |-> v] ELSE client[d]
  BY <1>1, HandlerMoves
<1> QED BY <1>1, <1>2, <1>3 DEF Carries, At

(* The handlers keep the types.                                            *)
LEMMA HandlersKeepTypes ==
  ASSUME TypeInv, NEW c \in Clients, Request(c) \/ HandlerStep(c)
  PROVE  TypeInv'
<1>t. /\ client \in [Clients -> HandlerState] /\ \A d \in Clients : Carries(d)
      /\ buf \in Seq(Rec) /\ Len(buf) <= Capacity
      /\ ticksEmitted \in Nat /\ handle \in File /\ pushes \in Nat
      /\ loop \in [Loops -> LoopState] /\ stopped \in SUBSET Loops
      /\ fs \in FileSystem
      /\ vendor \in Svids
  BY DEF TypeInv, CoreType, DataType
<1>c. client[c].arg \in Nat /\ client[c].alive \in SUBSET Loops
  BY <1>t DEF HandlerState
<1>h. \A f \in File : f \in Nat
  BY DEF File, Loops, NoFile
<1>p. {"idle", "restore", "spawn", "keep", "take", "join", "tamper", "tampered", "reset",
       "zero", "zerotampers", "remove"} \subseteq HandlerPcs
  BY DEF HandlerPcs
<1>a. Alive \in SUBSET Loops
  BY DEF Alive
<1> DEFINE Quiet == /\ UNCHANGED <<buf, pushes, loop, fs, unwritten, vendor, seen, l0, l0got, env>>
                    /\ running' \in BOOLEAN /\ handle' \in File /\ ticksEmitted' \in Nat
                    /\ stopped' \in SUBSET Loops
           Moved(p, a, v) == client' = GoAll(c, p, a, v)
<1>q. ASSUME Quiet, NEW p \in HandlerPcs, NEW a \in Nat, NEW v \in SUBSET Loops,
             p = "keep" => a \in Loops, Moved(p, a, v)
      PROVE  TypeInv'
  <2>1. client' \in [Clients -> HandlerState] /\ \A d \in Clients : Carries(d)'
    BY <1>q, HandlerGoes DEF TypeInv
  <2> QED BY <1>q, <2>1 DEF TypeInv, CoreType, DataType, BufInv
<1>i. UNCHANGED handle => handle' \in File
  BY <1>t
<1>j. UNCHANGED running => running' \in BOOLEAN
  BY DEF TypeInv, CoreType
<1>1. CASE Start(c)
  <2>1. PICK p \in {"restore", "spawn"} : client' = [client EXCEPT ![c].pc = p]
    BY <1>1 DEF Start, Goto
  <2>2. Moved(p, client[c].arg, client[c].alive)
    <3>1. client' = GoPc(c, p)
      BY <2>1 DEF GoPc
    <3>2. p \in HandlerPcs
      BY <1>p
    <3> QED BY <1>t, <1>c, <3>1, <3>2, HandlerMoves
  <2>3. Quiet
    BY <1>t, <1>1 DEF Start, bufVars, fileVars, muVars, otherVars
  <2> QED BY <1>p, <1>c, <1>q, <2>1, <2>2, <2>3
<1>2. CASE StoreTrue(c)
  <2>1. Moved("idle", client[c].arg, client[c].alive)
    <3>1. client' = GoPc(c, "idle")
      BY <1>2 DEF StoreTrue, Goto, GoPc
    <3> QED BY <1>t, <1>p, <1>c, <1>2, <3>1, HandlerMoves
  <2>2. Quiet
    BY <1>t, <1>c, <1>i, <1>j, <1>2 DEF StoreTrue, bufVars, fileVars, muVars, otherVars
  <2>3. "idle" \in HandlerPcs /\ client[c].arg \in Nat /\ client[c].alive \in SUBSET Loops
    BY <1>p, <1>c, <1>t, <2>1 DEF NoLoop
  <2> HIDE DEF Quiet
  <2> QED BY <1>q, <2>1, <2>2, <2>3
<1>3. CASE KeepHandle(c)
  <2>0. client[c].arg \in File
    BY <1>t, <1>3 DEF KeepHandle, Carries, File
  <2>1. Moved("idle", 0, client[c].alive)
    <3>1. client' = GoPcArg(c, "idle", 0)
      BY <1>3 DEF KeepHandle, GoPcArg
    <3> QED BY <1>t, <1>p, <1>c, <1>3, <3>1, HandlerMoves
  <2>2. Quiet
    BY <1>t, <1>c, <1>i, <1>j, <2>0, <1>3 DEF KeepHandle, bufVars, fileVars, muVars, otherVars
  <2>3. "idle" \in HandlerPcs /\ 0 \in Nat /\ client[c].alive \in SUBSET Loops
    BY <1>p, <1>c, <1>t, <2>1 DEF NoLoop
  <2> HIDE DEF Quiet
  <2> QED BY <1>q, <2>1, <2>2, <2>3
<1>4. CASE Stop(c)
  <2>1. Moved("take", NoLoop, Alive)
    BY <1>4 DEF Stop, GoAll
  <2>2. Quiet
    BY <1>t, <1>c, <1>i, <1>j, <1>4 DEF Stop, bufVars, fileVars, muVars, otherVars
  <2>3. "take" \in HandlerPcs /\ NoLoop \in Nat /\ Alive \in SUBSET Loops
    BY <1>p, <1>c, <1>t, <1>a, <2>1 DEF NoLoop
  <2> HIDE DEF Quiet
  <2> QED BY <1>q, <2>1, <2>2, <2>3
<1>5. CASE TakeHandle(c)
  <2>1. Moved("join", handle, client[c].alive)
    <3>1. client' = GoPcArg(c, "join", handle)
      BY <1>5 DEF TakeHandle, GoPcArg
    <3> QED BY <1>t, <1>p, <1>c, <1>h, <1>5, <3>1, HandlerMoves
  <2>2. Quiet
    BY <1>t, <1>c, <1>i, <1>j, <1>5 DEF TakeHandle, bufVars, fileVars, muVars, otherVars, File, NoLoop, NoFile
  <2>3. "join" \in HandlerPcs /\ handle \in Nat /\ client[c].alive \in SUBSET Loops
    BY <1>p, <1>c, <1>t, <1>h, <2>1 DEF NoLoop
  <2> HIDE DEF Quiet
  <2> QED BY <1>q, <2>1, <2>2, <2>3
<1>6. CASE Join(c)
  <2>1. Moved("idle", 0, {})
    BY <1>6 DEF Join, GoAll
  <2>2. Quiet
    BY <1>t, <1>c, <1>i, <1>j, <1>6 DEF Join, bufVars, fileVars, muVars, otherVars
  <2>3. "idle" \in HandlerPcs /\ 0 \in Nat /\ {} \in SUBSET Loops
    BY <1>p, <1>c, <1>t, <2>1 DEF NoLoop
  <2> HIDE DEF Quiet
  <2> QED BY <1>q, <2>1, <2>2, <2>3
<1>7. CASE HangUp(c)
  <2>1. Moved("idle", 0, {})
    BY <1>7 DEF HangUp, GoAll
  <2>2. Quiet
    BY <1>t, <1>c, <1>i, <1>j, <1>7 DEF HangUp, bufVars, fileVars, muVars, otherVars
  <2>3. "idle" \in HandlerPcs /\ 0 \in Nat /\ {} \in SUBSET Loops
    BY <1>p, <1>c, <1>t, <2>1 DEF NoLoop
  <2> HIDE DEF Quiet
  <2> QED BY <1>q, <2>1, <2>2, <2>3
<1>8. CASE TamperCount(c)
  <2>0. ticksEmitted + TamperBase \in Nat
    BY <1>t, PipelineAssumption
  <2>1. Moved("tamper", ticksEmitted + TamperBase, client[c].alive)
    <3>1. client' = GoPcArg(c, "tamper", ticksEmitted + TamperBase)
      BY <1>8 DEF TamperCount, GoPcArg
    <3> QED BY <1>t, <1>p, <1>c, <2>0, <1>8, <3>1, HandlerMoves
  <2>2. Quiet
    BY <1>t, <1>c, <1>i, <1>j, <1>8 DEF TamperCount, bufVars, fileVars, muVars, otherVars
  <2>3. "tamper" \in HandlerPcs /\ ticksEmitted + TamperBase \in Nat /\ client[c].alive \in SUBSET Loops
    BY <1>p, <1>c, <1>t, <2>0, <2>1 DEF NoLoop
  <2> HIDE DEF Quiet
  <2> QED BY <1>q, <2>1, <2>2, <2>3
<1>9. CASE TamperTally(c)
  <2>1. Moved("idle", client[c].arg, client[c].alive)
    <3>1. client' = GoPc(c, "idle")
      BY <1>9 DEF TamperTally, Goto, GoPc
    <3> QED BY <1>t, <1>p, <1>c, <1>9, <3>1, HandlerMoves
  <2>2. Quiet
    BY <1>t, <1>c, <1>i, <1>j, <1>9 DEF TamperTally, bufVars, fileVars, muVars, otherVars
  <2>3. "idle" \in HandlerPcs /\ client[c].arg \in Nat /\ client[c].alive \in SUBSET Loops
    BY <1>p, <1>c, <1>t, <2>1 DEF NoLoop
  <2> HIDE DEF Quiet
  <2> QED BY <1>q, <2>1, <2>2, <2>3
<1>10. CASE Reset(c)
  <2>1. Moved("reset", client[c].arg, client[c].alive)
    <3>1. client' = GoPc(c, "reset")
      BY <1>10 DEF Reset, Goto, GoPc
    <3> QED BY <1>t, <1>p, <1>c, <1>10, <3>1, HandlerMoves
  <2>2. Quiet
    BY <1>t, <1>c, <1>i, <1>j, <1>10 DEF Reset, bufVars, fileVars, muVars, otherVars
  <2>3. "reset" \in HandlerPcs /\ client[c].arg \in Nat /\ client[c].alive \in SUBSET Loops
    BY <1>p, <1>c, <1>t, <2>1 DEF NoLoop
  <2> HIDE DEF Quiet
  <2> QED BY <1>q, <2>1, <2>2, <2>3
<1>11. CASE ResetTicks(c)
  <2>1. Moved("zerotampers", client[c].arg, client[c].alive)
    <3>1. client' = GoPc(c, "zerotampers")
      BY <1>11 DEF ResetTicks, Goto, GoPc
    <3> QED BY <1>t, <1>p, <1>c, <1>11, <3>1, HandlerMoves
  <2>2. Quiet
    BY <1>t, <1>c, <1>i, <1>j, <1>11 DEF ResetTicks, bufVars, fileVars, muVars, otherVars
  <2>3. "zerotampers" \in HandlerPcs /\ client[c].arg \in Nat /\ client[c].alive \in SUBSET Loops
    BY <1>p, <1>c, <1>t, <2>1 DEF NoLoop
  <2> HIDE DEF Quiet
  <2> QED BY <1>q, <2>1, <2>2, <2>3
<1>12. CASE ResetTampers(c)
  <2>1. Moved("remove", client[c].arg, client[c].alive)
    <3>1. client' = GoPc(c, "remove")
      BY <1>12 DEF ResetTampers, Goto, GoPc
    <3> QED BY <1>t, <1>p, <1>c, <1>12, <3>1, HandlerMoves
  <2>2. Quiet
    BY <1>t, <1>c, <1>i, <1>j, <1>12 DEF ResetTampers, bufVars, fileVars, muVars, otherVars
  <2>3. "remove" \in HandlerPcs /\ client[c].arg \in Nat /\ client[c].alive \in SUBSET Loops
    BY <1>p, <1>c, <1>t, <2>1 DEF NoLoop
  <2> HIDE DEF Quiet
  <2> QED BY <1>q, <2>1, <2>2, <2>3
<1>13. CASE Spawn(c)
  <2>1. PICK l \in Loops : /\ LoopGoto(l, "exists") /\ ticksEmitted' = 0
                           /\ client' = [client EXCEPT ![c].pc = "keep", ![c].arg = l]
                           /\ UNCHANGED <<bufVars, running, handle, fileVars, muVars, otherVars,
                                          stopped>>
    BY <1>13 DEF Spawn
  <2>2. l \in Nat
    BY DEF Loops
  <2>3. Moved("keep", l, client[c].alive)
    <3>1. client' = GoPcArg(c, "keep", l)
      BY <2>1 DEF GoPcArg
    <3> QED BY <1>t, <1>p, <1>c, <2>1, <2>2, <3>1, HandlerMoves
  <2>4. client' \in [Clients -> HandlerState] /\ \A d \in Clients : Carries(d)'
    BY <1>p, <1>c, <2>2, <2>3, HandlerGoes DEF TypeInv
  <2>5. loop' \in [Loops -> LoopState]
    <3>1. "exists" \in LoopPcs
      BY DEF LoopPcs
    <3>2. loop[l].next \in Nat /\ loop[l].pre \in BOOLEAN /\ loop[l].h \in HistorianState
      BY <1>t DEF LoopState
    <3>3. loop' = RunPc(l, "exists")
      BY <2>1 DEF LoopGoto, RunPc
    <3>4. RunPc(l, "exists") = RunAll(l, "exists", loop[l].next, loop[l].pre, loop[l].h)
      BY <1>t, <3>1, <3>2, LoopMoves
    <3>5. RunAll(l, "exists", loop[l].next, loop[l].pre, loop[l].h) \in [Loops -> LoopState]
      BY <1>t, <3>1, <3>2, LoopMoved
    <3> QED BY <3>3, <3>4, <3>5
  <2> QED BY <2>1, <2>4, <2>5
          DEF TypeInv, CoreType, DataType, BufInv, bufVars, fileVars, muVars, otherVars
<1>14. CASE TamperPush(c)
  <2>1. Moved("tampered", 0, client[c].alive)
    <3>1. client' = GoPcArg(c, "tampered", 0)
      BY <1>14 DEF TamperPush, GoPcArg
    <3> QED BY <1>t, <1>p, <1>c, <1>14, <3>1, HandlerMoves
  <2>2. client' \in [Clients -> HandlerState] /\ \A d \in Clients : Carries(d)'
    BY <1>p, <1>c, <2>1, HandlerGoes DEF TypeInv
  <2>3. PushRecord(client[c].arg, NoLoop)
    BY <1>14 DEF TamperPush
  <2>4. buf' \in Seq(Rec) /\ Len(buf') <= Capacity /\ pushes' \in Nat /\ BufInv'
    BY <1>c, <2>3, PushKeepsBuffer DEF TypeInv, NoLoop
  <2> QED BY <1>14, <2>2, <2>4 DEF TamperPush, TypeInv, CoreType, DataType, fileVars, muVars, otherVars
<1>15. CASE ResetPop(c)
  <2>1. CASE buf = <<>>
    <3>1. Moved("zero", client[c].arg, client[c].alive)
      <4>1. client' = GoPc(c, "zero")
        BY <1>15, <2>1 DEF ResetPop, Goto, GoPc
      <4> QED BY <1>t, <1>p, <1>c, <1>15, <2>1, <4>1, HandlerMoves
    <3>2. Quiet
      BY <1>t, <1>i, <1>j, <1>15, <2>1 DEF ResetPop, fileVars, muVars, otherVars
    <3> HIDE DEF Quiet
    <3> QED BY <1>p, <1>c, <1>q, <3>1, <3>2
  <2>2. CASE buf # <<>>
    <3>1. buf' = Tail(buf) /\ UNCHANGED pushes
      BY <1>15, <2>2 DEF ResetPop
    <3>2. buf' \in Seq(Rec) /\ Len(buf') <= Capacity /\ BufInv'
      BY <2>2, <3>1, TailKeepsBuffer DEF TypeInv
    <3> QED BY <1>15, <2>2, <3>1, <3>2
            DEF ResetPop, TypeInv, CoreType, DataType, Carries, At, fileVars, muVars, otherVars
  <2> QED BY <2>1, <2>2
<1>16. CASE ResetFile(c)
  <2>1. Moved("idle", client[c].arg, client[c].alive)
    <3>1. client' = GoPc(c, "idle")
      BY <1>16 DEF ResetFile, Goto, GoPc
    <3> QED BY <1>t, <1>p, <1>c, <1>16, <3>1, HandlerMoves
  <2>2. client' \in [Clients -> HandlerState] /\ \A d \in Clients : Carries(d)'
    BY <1>p, <1>c, <2>1, HandlerGoes DEF TypeInv
  <2>3. fs' \in FileSystem
    BY <1>t, <1>16 DEF ResetFile, Unlinked, File, FileSystem
  <2> QED BY <1>16, <2>2, <2>3
          DEF ResetFile, TypeInv, CoreType, DataType, BufInv, bufVars, muVars, otherVars
<1>17. CASE SetVendor(c)
  <2>1. vendor' \in Svids
    BY <1>17 DEF SetVendor, Svids
  <2> QED BY <1>17, <2>1
          DEF SetVendor, TypeInv, CoreType, DataType, BufInv, Carries, At, bufVars, fileVars,
              otherVars
<1> QED BY <1>1, <1>2, <1>3, <1>4, <1>5, <1>6, <1>7, <1>8, <1>9, <1>10, <1>11, <1>12, <1>13,
           <1>14, <1>15, <1>16, <1>17 DEF Request, HandlerStep

-------------------------------------------------------------------------------
(* What Appended is, field by field.                                       *)
LEMMA AppendedFields ==
  ASSUME NEW f \in FileSystem, NEW i \in Loops, NEW R \in Seq(Row)
  PROVE  Appended(f, i, R) =
           [named |-> f.named, data |-> [f.data EXCEPT ![i] = f.data[i] \o R]]
<1> DEFINE D == [f.data EXCEPT ![i] = f.data[i] \o R]
<1>1. Appended(f, i, R) = [f EXCEPT !.data = D]
  BY DEF Appended
<1> HIDE DEF D
<1>2. [f EXCEPT !.data = D] = [named |-> f.named, data |-> D]
  BY DEF FileSystem
<1> QED BY <1>1, <1>2 DEF D

(* Rows added to one file leave the others as they were.                   *)
LEMMA AppendedShape ==
  ASSUME NEW f \in FileSystem, NEW i \in Loops, NEW R \in Seq(Row)
  PROVE  /\ Appended(f, i, R) \in FileSystem
         /\ Appended(f, i, R).named = f.named
         /\ Appended(f, i, R).data[i] = f.data[i] \o R
         /\ \A j \in Loops \ {i} : Appended(f, i, R).data[j] = f.data[j]
<1>1. f.named \in File /\ f.data \in [Loops -> Seq(Row)]
  BY DEF FileSystem
<1>2. f.data[i] \o R \in Seq(Row)
  <2>1. f.data[i] \in Seq(Row)
    BY <1>1
  <2> QED BY <2>1
<1>3. [f.data EXCEPT ![i] = f.data[i] \o R] \in [Loops -> Seq(Row)]
  BY <1>1, <1>2
<1>4. Appended(f, i, R) = [named |-> f.named, data |-> [f.data EXCEPT ![i] = f.data[i] \o R]]
  BY AppendedFields
<1> QED BY <1>1, <1>3, <1>4 DEF FileSystem

(* Rows written out and then a flush of what was left are one writing.     *)
LEMMA AppendedTwice ==
  ASSUME NEW f \in FileSystem, NEW i \in Loops, NEW R \in Seq(Row), NEW P \in Seq(Row)
  PROVE  Appended(Appended(f, i, R), i, P) = Appended(f, i, R \o P)
<1>1. f.data \in [Loops -> Seq(Row)] /\ f.data[i] \in Seq(Row)
  BY DEF FileSystem
<1>2. (f.data[i] \o R) \o P = f.data[i] \o (R \o P)
  <2> DEFINE d == f.data[i]
  <2>1. d \in Seq(Row)
    BY <1>1
  <2> HIDE DEF d
  <2>2. (d \o R) \o P = d \o (R \o P)
    BY <2>1, ConcatAssociative, SMTT(30)
  <2> QED BY <2>2 DEF d
<1> DEFINE g == Appended(f, i, R)
<1>4. g \in FileSystem /\ g.named = f.named /\ g.data = [f.data EXCEPT ![i] = f.data[i] \o R]
  <2>1. g \in FileSystem
    BY AppendedShape
  <2>2. g = [named |-> f.named, data |-> [f.data EXCEPT ![i] = f.data[i] \o R]]
    BY AppendedFields
  <2> QED BY <2>1, <2>2
<1>5. R \o P \in Seq(Row)
  OBVIOUS
<1> HIDE DEF g
<1>6. Appended(g, i, P) = [named |-> g.named, data |-> [g.data EXCEPT ![i] = g.data[i] \o P]]
  BY <1>4, AppendedFields
<1>7. g.data[i] = f.data[i] \o R
  BY <1>1, <1>4
<1>8. [g.data EXCEPT ![i] = g.data[i] \o P] = [f.data EXCEPT ![i] = f.data[i] \o (R \o P)]
  BY <1>1, <1>2, <1>4, <1>7
<1>9. Appended(f, i, R \o P) =
        [named |-> f.named, data |-> [f.data EXCEPT ![i] = f.data[i] \o (R \o P)]]
  BY <1>5, AppendedFields
<1> QED BY <1>4, <1>6, <1>8, <1>9 DEF g

(* A sequence cut in two is put together again by \o.                      *)
LEMMA CutInTwo ==
  ASSUME NEW S, NEW r \in Seq(S), NEW w \in 0 .. Len(r)
  PROVE  /\ SubSeq(r, 1, w) \in Seq(S) /\ SubSeq(r, w + 1, Len(r)) \in Seq(S)
         /\ SubSeq(r, 1, w) \o SubSeq(r, w + 1, Len(r)) = r
         /\ Len(SubSeq(r, w + 1, Len(r))) = Len(r) - w
<1> DEFINE a == SubSeq(r, 1, w)
           b == SubSeq(r, w + 1, Len(r))
<1>1. Len(r) \in Nat /\ w \in Nat /\ w <= Len(r) /\ DOMAIN r = 1 .. Len(r)
  OBVIOUS
<1>2. a \in Seq(S) /\ Len(a) = w /\ \A i \in 1 .. w : a[i] = r[i]
  BY <1>1
<1>3. /\ b \in Seq(S) /\ Len(b) = Len(r) - w
      /\ \A i \in 1 .. (Len(r) - w) : b[i] = r[w + i]
  <2>1. w + 1 \in Int /\ Len(r) \in Int /\ \A i \in (w + 1) .. Len(r) : r[i] \in S
    BY <1>1
  <2>2. /\ b \in Seq(S) /\ Len(b) = IF w + 1 <= Len(r) THEN Len(r) - (w + 1) + 1 ELSE 0
        /\ \A i \in 1 .. (Len(r) - (w + 1) + 1) : b[i] = r[(w + 1) + i - 1]
    BY <2>1, SubSeqProperties
  <2> HIDE DEF b
  <2>3. Len(r) - (w + 1) + 1 = Len(r) - w /\ \A i \in Int : (w + 1) + i - 1 = w + i
    BY ONLY w \in Nat, Len(r) \in Nat
  <2>4. Len(b) = Len(r) - w
    <3>1. Len(b) = IF w + 1 <= Len(r) THEN Len(r) - (w + 1) + 1 ELSE 0
      BY <2>2
    <3>2. \A m \in Nat : w <= m => (IF w + 1 <= m THEN m - (w + 1) + 1 ELSE 0) = m - w
      BY <1>1
    <3> QED BY <1>1, <3>1, <3>2, Zenon
  <2>5. ASSUME NEW i \in 1 .. (Len(r) - w) PROVE b[i] = r[w + i]
    <3>1. i \in 1 .. (Len(r) - (w + 1) + 1) /\ i \in Int
      BY <2>3
    <3>2. b[i] = r[(w + 1) + i - 1]
      BY <2>2, <3>1
    <3> QED BY <2>3, <3>1, <3>2
  <2> QED BY <2>2, <2>4, <2>5
<1> HIDE DEF a, b
<1>4. /\ a \o b \in Seq(S) /\ Len(a \o b) = Len(r)
      /\ \A i \in 1 .. Len(r) : (a \o b)[i] = IF i <= w THEN a[i] ELSE b[i - w]
  <2>1. /\ a \o b \in Seq(S) /\ Len(a \o b) = Len(a) + Len(b)
        /\ \A i \in 1 .. Len(a) + Len(b) :
             (a \o b)[i] = IF i <= Len(a) THEN a[i] ELSE b[i - Len(a)]
    BY <1>2, <1>3, ConcatProperties
  <2>2. Len(a) + Len(b) = Len(r)
    BY <1>1, <1>2, <1>3
  <2> QED BY <1>2, <2>1, <2>2
<1>5. ASSUME NEW i \in 1 .. Len(r) PROVE (a \o b)[i] = r[i]
  <2>1. CASE i <= w
    BY <1>1, <1>2, <1>4, <2>1
  <2>2. CASE ~(i <= w)
    <3>1. i - w \in 1 .. (Len(r) - w) /\ w + (i - w) = i
      BY <1>1, <2>2
    <3> QED BY <1>3, <1>4, <2>2, <3>1
  <2> QED BY <2>1, <2>2
<1>6. a \o b = r
  BY <1>4, <1>5, SeqEqual
<1> QED BY <1>2, <1>3, <1>6 DEF a, b

(* A full BufWriter writes out whole multiples of its rows.                *)
LEMMA WholeBuffers ==
  ASSUME NEW x \in Nat, NEW w \in Nat \ {0}
  PROVE  (x \div w) * w \in 0 .. x
<1>1. x \div w \in Nat /\ x = w * (x \div w) + (x % w) /\ x % w \in Nat
  OBVIOUS
<1>2. (x \div w) * w \in Nat /\ (x \div w) * w = w * (x \div w)
  BY <1>1
<1> QED BY <1>1, <1>2

(* How the code moves a historian's cursor and the rows it holds.          *)
LEMMA HistorianMoves ==
  ASSUME NEW h \in HistorianState, NEW e \in Cursor, NEW P \in Seq(Row)
  PROVE  /\ [h EXCEPT !.cursor = e, !.pending = P] =
              [ino |-> h.ino, by |-> h.by, cursor |-> e, pending |-> P]
         /\ [h EXCEPT !.pending = P] =
              [ino |-> h.ino, by |-> h.by, cursor |-> h.cursor, pending |-> P]
         /\ [ino |-> h.ino, by |-> h.by, cursor |-> e, pending |-> P] \in HistorianState
<1>1. \A x \in HistorianState :
        [x EXCEPT !.pending = P] =
          [ino |-> x.ino, by |-> x.by, cursor |-> x.cursor, pending |-> P]
  BY DEF HistorianState
<1>2. [h EXCEPT !.cursor = e] = [ino |-> h.ino, by |-> h.by, cursor |-> e, pending |-> h.pending]
  BY DEF HistorianState
<1>3. [ino |-> h.ino, by |-> h.by, cursor |-> e, pending |-> h.pending] \in HistorianState
  BY DEF HistorianState
<1>4. [ino |-> h.ino, by |-> h.by, cursor |-> e, pending |-> P] \in HistorianState
  BY DEF HistorianState
<1>5. [[h EXCEPT !.cursor = e] EXCEPT !.pending = P] =
        [ino |-> h.ino, by |-> h.by, cursor |-> e, pending |-> P]
  BY <1>1, <1>2, <1>3
<1> QED BY <1>1, <1>4, <1>5

\* Fewer write-outs than fit: the next full BufWriter still leaves a row over.
LEMMA BufferToCome ==
  ASSUME NEW x \in Nat, NEW w \in Nat \ {0}, NEW k \in 0 .. (x \div w) - 1
  PROVE  k * w \in Nat /\ (k + 1) * w = k * w + w /\ (k + 1) * w \in 0 .. x
<1> DEFINE q == x \div w
<1>1. q \in Nat /\ x = w * q + (x % w) /\ x % w \in Nat
  OBVIOUS
<1> HIDE DEF q
<1>2. k \in Nat /\ q - (k + 1) \in Nat
  BY <1>1 DEF q
<1>3. \A d \in Nat : w * d \in Nat
  OBVIOUS
<1>4. w * q = w * (k + 1) + w * (q - (k + 1))
  BY <1>1, <1>2
<1>5. k * w \in Nat /\ (k + 1) * w = k * w + w /\ (k + 1) * w = w * (k + 1)
  BY <1>2
<1>6. w * (k + 1) \in Nat /\ w * (q - (k + 1)) \in Nat
  BY <1>2, <1>3
<1> QED BY <1>1, <1>4, <1>5, <1>6

\* What the proofs need of concatenation, once and for all.
LEMMA JoinedAssociates ==
  /\ \A x \in Seq(Row) : Joined(x, <<>>) = x /\ Joined(<<>>, x) = x /\ <<>> \in Seq(Row)
  /\ \A x, y \in Seq(Row) : Joined(x, y) \in Seq(Row)
  /\ \A x, y, z \in Seq(Row) : Joined(Joined(x, y), z) = Joined(x, Joined(y, z))
<1>1. \A x, y \in Seq(Row) : x \o y \in Seq(Row)
  OBVIOUS
<1>2. \A x, y, z \in Seq(Row) : (x \o y) \o z = x \o (y \o z)
  BY ConcatAssociative
<1>3. \A x \in Seq(Row) : x \o <<>> = x /\ <<>> \o x = x
  BY ConcatEmptySeq
<1> QED BY <1>1, <1>2, <1>3 DEF Joined

(* A sequence is its rows up to a, then those up to b, then the others.    *)
LEMMA CutInThree ==
  ASSUME NEW r \in Seq(Row), NEW a \in Nat, NEW b \in a .. Len(r)
  PROVE  /\ SubSeq(r, 1, a) \in Seq(Row) /\ SubSeq(r, a + 1, b) \in Seq(Row)
         /\ SubSeq(r, b + 1, Len(r)) \in Seq(Row)
         /\ SubSeq(r, 1, a) \o (SubSeq(r, a + 1, b) \o SubSeq(r, b + 1, Len(r))) = r
         /\ Len(SubSeq(r, b + 1, Len(r))) = Len(r) - b
<1> DEFINE q == SubSeq(r, 1, b)
<1>1. Len(r) \in Nat /\ b \in Nat /\ b <= Len(r) /\ a <= b /\ a \in 0 .. Len(r) /\ b \in 0 .. Len(r)
  OBVIOUS
<1>2. /\ q \in Seq(Row) /\ SubSeq(r, b + 1, Len(r)) \in Seq(Row)
      /\ q \o SubSeq(r, b + 1, Len(r)) = r /\ Len(SubSeq(r, b + 1, Len(r))) = Len(r) - b
  BY <1>1, CutInTwo
<1>3. Len(q) = b /\ \A i \in 1 .. b : q[i] = r[i]
  BY <1>1
<1>4. SubSeq(r, 1, a) \in Seq(Row)
  BY <1>1, CutInTwo
<1> HIDE DEF q
<1>5. /\ SubSeq(q, 1, a) \in Seq(Row) /\ SubSeq(q, a + 1, b) \in Seq(Row)
      /\ SubSeq(q, 1, a) \o SubSeq(q, a + 1, b) = q
  <2>1. a \in 0 .. Len(q) /\ q \in Seq(Row)
    BY <1>1, <1>2, <1>3
  <2>2. /\ SubSeq(q, 1, a) \in Seq(Row) /\ SubSeq(q, a + 1, Len(q)) \in Seq(Row)
        /\ SubSeq(q, 1, a) \o SubSeq(q, a + 1, Len(q)) = q
    BY <2>1, CutInTwo
  <2> QED BY <1>3, <2>2
<1>6. SubSeq(q, 1, a) = SubSeq(r, 1, a)
  BY <1>1, <1>2, <1>3
<1>7. SubSeq(q, a + 1, b) = SubSeq(r, a + 1, b)
  BY <1>1, <1>2, <1>3
<1>8. (SubSeq(r, 1, a) \o SubSeq(r, a + 1, b)) \o SubSeq(r, b + 1, Len(r)) = r
  BY <1>2, <1>5, <1>6, <1>7
<1>9. SubSeq(r, a + 1, b) \in Seq(Row)
  BY <1>5, <1>7
<1> DEFINE x == SubSeq(r, 1, a)
           y == SubSeq(r, a + 1, b)
           z == SubSeq(r, b + 1, Len(r))
<1>10. x \in Seq(Row) /\ y \in Seq(Row) /\ z \in Seq(Row) /\ (x \o y) \o z = r
  BY <1>2, <1>4, <1>8, <1>9
<1>11. Len(z) = Len(r) - b
  BY <1>2
<1> HIDE DEF x, y, z
<1>12. x \o (y \o z) = r
  <2>1. Joined(Joined(x, y), z) = r
    BY <1>10 DEF Joined
  <2>2. Joined(x, Joined(y, z)) = r
    BY <1>10, <2>1, JoinedAssociates
  <2> QED BY <2>2 DEF Joined
<1>13. x \in Seq(Row) /\ y \in Seq(Row) /\ z \in Seq(Row) /\ x \o (y \o z) = r /\ Len(z) = Len(r) - b
  BY <1>10, <1>11, <1>12
<1> QED BY <1>13, Zenon DEF x, y, z

(* What a tick does, after k write-outs: rows in the file, rows it holds   *)
(* and rows it has given up, in that order.                                *)
LEMMA TickUpToShape ==
  ASSUME NEW h \in HistorianState, NEW f \in FileSystem, NEW b \in Seq(Rec), Numbered(b),
         h.ino \in Loops, NEW k \in Nat, NEW held \in k * WriteRows .. Len(RowsAfter(h, b))
  PROVE  \E R, P, Rest \in Seq(Row) :
           /\ R \o (P \o Rest) = RowsAfter(h, b)
           /\ Len(Rest) = Len(RowsAfter(h, b)) - held
           /\ TickUpTo(h, f, b, k, held).fs = Appended(f, h.ino, R)
           /\ TickUpTo(h, f, b, k, held).h =
                [ino |-> h.ino, by |-> h.by, cursor |-> CursorAfter(b, h.cursor), pending |-> P]
<1> DEFINE rows == RowsAfter(h, b)
           w == k * WriteRows
           R == SubSeq(rows, 1, w)
           P == SubSeq(rows, w + 1, held)
           Rest == SubSeq(rows, held + 1, Len(rows))
           e == CursorAfter(b, h.cursor)
<1>1. TickUpTo(h, f, b, k, held).fs = Appended(f, h.ino, R)
  BY DEF TickUpTo
<1>2. TickUpTo(h, f, b, k, held).h = [h EXCEPT !.cursor = e, !.pending = P]
  BY DEF TickUpTo
<1>3. rows \in Seq(Row)
  BY RowsShape
<1>4. w \in Nat
  BY WriteRowsAssumption
<1> HIDE DEF rows, e, w
<1>5. held \in w .. Len(rows)
  BY DEF rows, w
<1>6. /\ R \in Seq(Row) /\ P \in Seq(Row) /\ Rest \in Seq(Row)
      /\ R \o (P \o Rest) = rows /\ Len(Rest) = Len(rows) - held
  BY <1>3, <1>4, <1>5, CutInThree
<1> HIDE DEF P, R, Rest
<1>7. [h EXCEPT !.cursor = e, !.pending = P] =
        [ino |-> h.ino, by |-> h.by, cursor |-> e, pending |-> P]
  <2>1. h.cursor \in Cursor
    BY DEF HistorianState
  <2>2. e \in Cursor
    BY <2>1, CursorShape DEF e
  <2> QED BY <1>6, <2>2, HistorianMoves
<1> QED BY <1>1, <1>2, <1>6, <1>7 DEF rows, e

(* A tick that succeeds: some of the rows go to the file, the others stay. *)
LEMMA TickDoneShape ==
  ASSUME NEW h \in HistorianState, NEW f \in FileSystem, NEW b \in Seq(Rec), Numbered(b),
         h.ino \in Loops
  PROVE  \E R, P \in Seq(Row) :
           /\ R \o P = RowsAfter(h, b)
           /\ TickDone(h, f, b).fs = Appended(f, h.ino, R)
           /\ TickDone(h, f, b).h = [ino |-> h.ino, by |-> h.by,
                                     cursor |-> CursorAfter(b, h.cursor), pending |-> P]
<1> DEFINE rows == RowsAfter(h, b)
           k == WriteOuts(h, b)
<1>1. rows \in Seq(Row) /\ Len(rows) \in Nat
  BY RowsShape
<1>2. k \in Nat /\ k * WriteRows \in 0 .. Len(rows)
  <2>1. k = IF Len(rows) = 0 THEN 0 ELSE (Len(rows) - 1) \div WriteRows
    BY DEF WriteOuts
  <2> HIDE DEF rows, k
  <2>2. CASE Len(rows) = 0
    BY <2>1, <2>2, WriteRowsAssumption
  <2>3. CASE Len(rows) # 0
    <3>1. Len(rows) - 1 \in Nat /\ k = (Len(rows) - 1) \div WriteRows
      BY <1>1, <2>1, <2>3
    <3>2. k * WriteRows \in 0 .. (Len(rows) - 1) /\ k \in Nat
      BY <3>1, WholeBuffers, WriteRowsAssumption
    <3> QED BY <1>1, <3>2
  <2> QED BY <2>2, <2>3
<1> HIDE DEF k
<1>3. Len(rows) \in k * WriteRows .. Len(rows)
  BY <1>1, <1>2
<1>4. PICK R, P, Rest \in Seq(Row) :
        /\ R \o (P \o Rest) = rows /\ Len(Rest) = Len(rows) - Len(rows)
        /\ TickUpTo(h, f, b, k, Len(rows)).fs = Appended(f, h.ino, R)
        /\ TickUpTo(h, f, b, k, Len(rows)).h =
             [ino |-> h.ino, by |-> h.by, cursor |-> CursorAfter(b, h.cursor), pending |-> P]
  BY <1>2, <1>3, TickUpToShape
<1>5. Rest = <<>> /\ P \o Rest = P
  BY <1>1, <1>4
<1>6. TickDone(h, f, b) = TickUpTo(h, f, b, k, Len(rows))
  BY DEF TickDone, k
<1> QED BY <1>4, <1>5, <1>6

(* A tick that fails: what it had to give up is not empty.                 *)
LEMMA TickFailedShape ==
  ASSUME NEW h \in HistorianState, NEW f \in FileSystem, NEW b \in Seq(Rec), Numbered(b),
         h.ino \in Loops, NEW k \in 0 .. WriteOuts(h, b) - 1
  PROVE  /\ \E R, P, Rest \in Seq(Row) :
              /\ R \o (P \o Rest) = RowsAfter(h, b) /\ Rest # <<>>
              /\ TickFailed(h, f, b, k).fs = Appended(f, h.ino, R)
              /\ TickFailed(h, f, b, k).h = [ino |-> h.ino, by |-> h.by,
                                             cursor |-> CursorAfter(b, h.cursor), pending |-> P]
         /\ ((k + 1) * WriteRows + 1) .. Len(RowsAfter(h, b)) # {}
         /\ (k + 1) * WriteRows \in Nat
<1> DEFINE rows == RowsAfter(h, b)
           held == (k + 1) * WriteRows
<1>1. rows \in Seq(Row) /\ Len(rows) \in Nat
  BY RowsShape
<1>2. k \in Nat /\ Len(rows) # 0 /\ k \in 0 .. ((Len(rows) - 1) \div WriteRows) - 1
  <2>1. WriteOuts(h, b) = IF Len(rows) = 0 THEN 0 ELSE (Len(rows) - 1) \div WriteRows
    BY DEF WriteOuts
  <2> HIDE DEF rows
  <2> QED BY <2>1
<1> HIDE DEF rows
<1>3. Len(rows) - 1 \in Nat
  BY <1>1, <1>2
<1>4. k * WriteRows \in Nat /\ held = k * WriteRows + WriteRows /\ held \in 0 .. (Len(rows) - 1)
  BY <1>2, <1>3, BufferToCome, WriteRowsAssumption
<1> HIDE DEF held
<1>5. /\ held \in Nat /\ held \in k * WriteRows .. Len(rows) /\ Len(rows) - held # 0
      /\ held + 1 \in (held + 1) .. Len(rows)
  BY <1>1, <1>4, WriteRowsAssumption
<1>6. PICK R, P, Rest \in Seq(Row) :
        /\ R \o (P \o Rest) = rows /\ Len(Rest) = Len(rows) - held
        /\ TickUpTo(h, f, b, k, held).fs = Appended(f, h.ino, R)
        /\ TickUpTo(h, f, b, k, held).h =
             [ino |-> h.ino, by |-> h.by, cursor |-> CursorAfter(b, h.cursor), pending |-> P]
  <2>1. k \in Nat /\ held \in k * WriteRows .. Len(RowsAfter(h, b))
    BY <1>2, <1>5 DEF rows
  <2>2. \E R, P, Rest \in Seq(Row) :
          /\ R \o (P \o Rest) = RowsAfter(h, b)
          /\ Len(Rest) = Len(RowsAfter(h, b)) - held
          /\ TickUpTo(h, f, b, k, held).fs = Appended(f, h.ino, R)
          /\ TickUpTo(h, f, b, k, held).h =
               [ino |-> h.ino, by |-> h.by, cursor |-> CursorAfter(b, h.cursor), pending |-> P]
    BY <2>1, TickUpToShape
  <2> QED BY <2>2, Zenon DEF rows
<1>7. Rest # <<>>
  BY <1>5, <1>6
<1>8. TickFailed(h, f, b, k) = TickUpTo(h, f, b, k, held)
  BY DEF TickFailed, held
<1> QED BY <1>5, <1>6, <1>7, <1>8 DEF rows, held

-------------------------------------------------------------------------------
(* What the steps of a loop do to its historian, to the files and to the   *)
(* buffer: they leave the historian alone, open it, or move rows on.       *)

IsBatch(F, l, b, c) ==
  /\ Len(F) = Len(FreshRows(b, c))
  /\ \A i \in DOMAIN F : /\ F[i].by = l
                         /\ F[i].id = FreshRows(b, c)[i].id
                         /\ F[i].n = FreshRows(b, c)[i].n

\* The rows F a step adds for session l, from its cursor c on to e: a batch or none.
Comes(F, l, b, c, e) ==
  \/ F = <<>> /\ e = c
  \/ IsBatch(F, l, b, c) /\ e = CursorAfter(b, c)

\* The rows a and F, cut in three.
Regroups(R, P, Rest, a, F) == Joined(R, Joined(P, Rest)) = Joined(a, F)

Keeps(l, h) == h = loop[l].h /\ fs'.data = fs.data

Opens(l, h) ==
  /\ loop[l].pc = "open"
  /\ h.ino \in Loops /\ h.by = l /\ h.cursor = NoCursor /\ h.pending = <<>>
  /\ \/ fs'.data = fs.data
     \/ /\ fs'.data[h.ino] = fs.data[h.ino] \o <<Header>>
        /\ \A j \in Loops \ {h.ino} : fs'.data[j] = fs.data[j]

\* R goes to the file, P stays in the BufWriter and Rest is given up.
Writes(l, h) ==
  /\ loop[l].h.ino \in Loops
  /\ \E F, R, P, Rest \in Seq(Row), e \in Cursor :
       /\ Comes(F, loop[l].h.by, buf, loop[l].h.cursor, e)
       /\ Regroups(R, P, Rest, loop[l].h.pending, F)
       /\ Rest # <<>> => unwritten'[l] # {}
       /\ fs' = Appended(fs, loop[l].h.ino, R)
       /\ h = [ino |-> loop[l].h.ino, by |-> loop[l].h.by, cursor |-> e, pending |-> P]

Effect(l) ==
  \E p \in LoopPcs \ {"unborn", "exists"}, n \in Nat, b \in BOOLEAN, h \in HistorianState :
    /\ loop' = RunAll(l, p, n, b, h)
    /\ loop[l].pc \notin {"unborn", "done"}
    /\ p = "open" => loop[l].pc = "exists"
    /\ p = "write" => h.ino # NoFile
    /\ p = "done" => h.pending = <<>> \/ unwritten'[l] # {}
    /\ \/ Keeps(l, h) /\ loop[l].pc # "write"
       \/ UNCHANGED bufVars /\ (Opens(l, h) \/ Writes(l, h))
    /\ UNCHANGED bufVars \/ PushRecord(loop[l].next, l)
    /\ fs' \in FileSystem
    /\ unwritten' \in [Loops -> SUBSET Nat]
    /\ \A m \in Loops : unwritten[m] \subseteq unwritten'[m]
    /\ ticksEmitted' \in Nat /\ seen' \in [Svids -> Nat]
    /\ UNCHANGED <<client, handle, running, vendor, env, l0, l0got, stopped>>

(* The files the open of a historian leaves behind.                        *)
LEMMA OpenShape ==
  ASSUME NEW f \in FileSystem, NEW l \in Loops, NEW pre \in BOOLEAN
  PROVE  /\ Opened(f, l) \in FileSystem /\ Opened(f, l).data = f.data
         /\ Opened(f, l).named \in Loops
         /\ NewFs(f, l, pre) \in FileSystem
         /\ NewFs(f, l, pre).named = Opened(f, l).named
         /\ \/ NewFs(f, l, pre).data = f.data
            \/ LET i == NewFs(f, l, pre).named
               IN  /\ NewFs(f, l, pre).data[i] = f.data[i] \o <<Header>>
                   /\ \A j \in Loops \ {i} : NewFs(f, l, pre).data[j] = f.data[j]
<1> DEFINE g == Opened(f, l)
<1>1. f.named \in File /\ f.data \in [Loops -> Seq(Row)]
  BY DEF FileSystem
<1>2. [f EXCEPT !.named = l] = [named |-> l, data |-> f.data]
  BY DEF FileSystem
<1>3. g \in FileSystem /\ g.data = f.data /\ g.named \in Loops
  BY <1>1, <1>2 DEF Opened, FileExists, FileSystem, File
<1>4. <<Header>> \in Seq(Row)
  BY DEF Header, Row
<1> HIDE DEF g
<1> DEFINE a == Appended(g, g.named, <<Header>>)
<1>5. /\ a \in FileSystem /\ a.named = g.named
      /\ a.data[g.named] = g.data[g.named] \o <<Header>>
      /\ \A j \in Loops \ {g.named} : a.data[j] = g.data[j]
  BY <1>3, <1>4, AppendedShape
<1>6. NewFs(f, l, pre) = IF pre THEN g ELSE a
  BY DEF NewFs, g
<1> HIDE DEF a
<1>7. CASE pre
  BY <1>3, <1>6, <1>7 DEF g
<1>8. CASE ~pre
  <2>1. NewFs(f, l, pre) = a
    BY <1>6, <1>8
  <2> QED BY <1>3, <1>5, <2>1 DEF g
<1> QED BY <1>7, <1>8

(* The rows a failed write gave up are noted; those of the others stay.    *)
LEMMA UnwrittenGrows ==
  ASSUME unwritten \in [Loops -> SUBSET Nat], NEW l \in Loops, NEW N \in SUBSET Nat,
         unwritten' = [unwritten EXCEPT ![l] = @ \cup N]
  PROVE  /\ unwritten' \in [Loops -> SUBSET Nat]
         /\ \A m \in Loops : unwritten[m] \subseteq unwritten'[m]
         /\ N # {} => unwritten'[l] # {}
OBVIOUS

\* Every step of a loop is one of the effects named above.
LEMMA LoopEffects ==
  ASSUME TypeInv, Sessions, NEW l \in Loops, LoopStep(l)
  PROVE  Effect(l)
<1> DEFINE h0 == loop[l].h
<1>t. /\ loop \in [Loops -> LoopState] /\ fs \in FileSystem /\ buf \in Seq(Rec) /\ Numbered(buf)
      /\ unwritten \in [Loops -> SUBSET Nat] /\ ticksEmitted \in Nat /\ vendor \in Svids
      /\ seen \in [Svids -> Nat] /\ running \in BOOLEAN
  BY DEF TypeInv, CoreType, DataType, BufInv
<1>l. /\ loop[l].next \in Nat /\ loop[l].pre \in BOOLEAN /\ h0 \in HistorianState
      /\ loop[l].pc \in LoopPcs
  BY <1>t DEF LoopState
<1>s. /\ h0.ino \in File /\ h0.by \in File /\ h0.cursor \in Cursor /\ h0.pending \in Seq(Row)
      /\ h0 = [ino |-> h0.ino, by |-> h0.by, cursor |-> h0.cursor, pending |-> h0.pending]
      /\ (h0.ino # NoFile => h0.ino \in Loops)
  BY <1>l DEF HistorianState, File
<1>h. /\ h0.ino = NoFile => h0 = NoHistorian
      /\ loop[l].pc \in {"unborn", "exists", "open"} => h0.ino = NoFile
      /\ loop[l].pc = "write" => h0.ino # NoFile
  BY DEF Sessions, Session, HistorianOk
<1>p. {"open", "check", "tick", "push", "count", "write", "exit", "done"}
        \subseteq LoopPcs \ {"unborn", "exists"}
  BY DEF LoopPcs
<1> DEFINE Calm == /\ unwritten' \in [Loops -> SUBSET Nat]
                   /\ \A m \in Loops : unwritten[m] \subseteq unwritten'[m]
                   /\ ticksEmitted' \in Nat /\ seen' \in [Svids -> Nat]
                   /\ UNCHANGED <<client, handle, running, vendor, env, l0, l0got, stopped>>
                   /\ loop[l].pc \notin {"unborn", "done"}
           Same == fs' = fs
<1>r. /\ \A p \in LoopPcs : RunPc(l, p) = RunAll(l, p, loop[l].next, loop[l].pre, h0)
      /\ \A p \in LoopPcs, b \in BOOLEAN :
           RunPcPre(l, p, b) = RunAll(l, p, loop[l].next, b, h0)
      /\ \A p \in LoopPcs, n \in Nat :
           RunPcNext(l, p, n) = RunAll(l, p, n, loop[l].pre, h0)
      /\ \A p \in LoopPcs, h \in HistorianState :
           RunPcHist(l, p, h) = RunAll(l, p, loop[l].next, loop[l].pre, h)
  BY <1>t, <1>l, LoopMoves
\* A step that only moves the loop on.
<1>m. ASSUME Calm, fs' \in FileSystem, fs'.data = fs.data, loop[l].pc # "write",
             NEW p \in LoopPcs \ {"unborn", "exists"},
             p = "open" => loop[l].pc = "exists", p = "write" => h0.ino # NoFile, p # "done",
             NEW n \in Nat, NEW b \in BOOLEAN, loop' = RunAll(l, p, n, b, h0),
             UNCHANGED bufVars \/ PushRecord(loop[l].next, l)
      PROVE  Effect(l)
  BY <1>m, <1>l DEF Effect, Keeps
<1> HIDE DEF h0
<1>1. CASE CsvExists(l)
  <2>1. loop' = RunPcPre(l, "open", FileExists(fs)) /\ loop[l].pc = "exists"
    BY <1>1 DEF CsvExists, RunPcPre
  <2>2. FileExists(fs) \in BOOLEAN
    BY DEF FileExists
  <2>3. "open" \in LoopPcs \ {"unborn", "exists"}
    BY <1>p
  <2>4. RunPcPre(l, "open", FileExists(fs)) =
          RunAll(l, "open", loop[l].next, FileExists(fs), h0)
    BY <1>t, <1>l, <2>2, <2>3, <1>r
  <2>5. Calm /\ fs' = fs /\ UNCHANGED bufVars
    BY <1>t, <1>1, <2>1 DEF CsvExists, fileVars, muVars, otherVars
  <2> HIDE DEF Calm
  <2> QED BY <1>t, <1>l, <1>m, <2>1, <2>2, <2>3, <2>4, <2>5
<1>2. CASE CsvOpen(l)
  <2>1. PICK opens \in env.opens, writes \in env.writes :
          LET ok == opens /\ (loop[l].pre \/ writes)
          IN  /\ fs' = IF ok THEN NewFs(fs, l, loop[l].pre)
                       ELSE IF opens THEN Opened(fs, l) ELSE fs
              /\ loop' = [loop EXCEPT ![l].pc = "check",
                                      ![l].h = IF ok THEN NewHistorian(fs', l) ELSE NoHistorian]
    BY <1>2 DEF CsvOpen
  <2>2. loop[l].pc = "open" /\ UNCHANGED bufVars
    BY <1>2 DEF CsvOpen
  <2>3. Calm
    BY <1>t, <1>2, <2>2 DEF CsvOpen, muVars, otherVars
  <2>4. h0.ino = NoFile /\ h0 = NoHistorian
    BY <1>h, <2>2
  <2>5. "check" \in LoopPcs \ {"unborn", "exists"}
    BY <1>p, Zenon
  <2>6. CASE opens /\ (loop[l].pre \/ writes)
    <3> DEFINE h == NewHistorian(fs', l)
    <3>1. fs' = NewFs(fs, l, loop[l].pre) /\ loop' = RunPcHist(l, "check", h)
      BY <2>1, <2>6 DEF RunPcHist
    <3>2. /\ fs' \in FileSystem /\ fs'.named \in Loops
          /\ \/ fs'.data = fs.data
             \/ /\ fs'.data[fs'.named] = fs.data[fs'.named] \o <<Header>>
                /\ \A j \in Loops \ {fs'.named} : fs'.data[j] = fs.data[j]
      <4> DEFINE g == NewFs(fs, l, loop[l].pre)
      <4>1. /\ g \in FileSystem /\ g.named \in Loops
            /\ \/ g.data = fs.data
               \/ /\ g.data[g.named] = fs.data[g.named] \o <<Header>>
                  /\ \A j \in Loops \ {g.named} : g.data[j] = fs.data[j]
        BY <1>t, <1>l, OpenShape
      <4> HIDE DEF g
      <4>2. fs' = g
        BY <3>1 DEF g
      <4> QED BY <4>1, <4>2, ZenonT(40)
    <3>3. h = [ino |-> fs'.named, by |-> l, cursor |-> NoCursor, pending |-> <<>>]
      BY DEF NewHistorian
    <3>4. h \in HistorianState
      BY <3>2, <3>3 DEF HistorianState, File, Cursor
    <3> HIDE DEF h
    <3>5. Opens(l, h)
      BY <2>2, <3>2, <3>3, Zenon DEF Opens
    <3>6. RunPcHist(l, "check", h) = RunAll(l, "check", loop[l].next, loop[l].pre, h)
      BY <1>t, <1>l, <2>5, <3>4, <1>r
    <3> QED BY <1>l, <2>2, <2>3, <2>5, <3>1, <3>2, <3>4, <3>5, <3>6, ZenonT(40) DEF Effect
  <2>7. CASE ~(opens /\ (loop[l].pre \/ writes))
    <3>1. loop' = RunPcHist(l, "check", h0) /\ fs' \in {Opened(fs, l), fs}
      BY <2>1, <2>4, <2>7 DEF RunPcHist
    <3>2. fs' \in FileSystem /\ fs'.data = fs.data
      <4>1. Opened(fs, l) \in FileSystem /\ Opened(fs, l).data = fs.data
        BY <1>t, <1>l, OpenShape
      <4> QED BY <1>t, <3>1, <4>1
    <3>3. RunPcHist(l, "check", h0) = RunAll(l, "check", loop[l].next, loop[l].pre, h0)
      BY <1>t, <1>l, <2>5, <1>r
    <3> HIDE DEF Calm
    <3> QED BY <1>l, <1>m, <2>2, <2>3, <2>5, <3>1, <3>2, <3>3
  <2> QED BY <2>6, <2>7
<1>3. CASE Check(l)
  <2>1. PICK p \in {"tick", "exit"} : loop' = RunPc(l, p)
    BY <1>3 DEF Check, LoopGoto, RunPc
  <2>2. p \in LoopPcs \ {"unborn", "exists"} /\ p \notin {"open", "write", "done"}
    BY <1>p
  <2>3. RunPc(l, p) = RunAll(l, p, loop[l].next, loop[l].pre, h0)
    BY <1>t, <1>l, <2>2, <1>r
  <2>4. Calm /\ fs' = fs /\ UNCHANGED bufVars /\ loop[l].pc = "check"
    BY <1>t, <1>3 DEF Check, fileVars, muVars, otherVars
  <2> HIDE DEF Calm
  <2> QED BY <1>t, <1>l, <1>m, <2>1, <2>2, <2>3, <2>4
<1>4. CASE NoteFrame(l)
  <2>1. loop' = RunPc(l, "push")
    BY <1>4 DEF NoteFrame, LoopGoto, RunPc
  <2>2. "push" \in LoopPcs \ {"unborn", "exists"}
    BY <1>p
  <2>3. RunPc(l, "push") = RunAll(l, "push", loop[l].next, loop[l].pre, h0)
    BY <1>t, <1>l, <2>2, <1>r
  <2>4. seen' \in [Svids -> Nat]
    <3>1. seen' = [seen EXCEPT ![vendor] = seen[vendor] + 1]
      BY <1>4 DEF NoteFrame, Noted
    <3>2. seen[vendor] + 1 \in Nat
      BY <1>t
    <3> QED BY <1>t, <3>1, <3>2
  <2>5. Calm /\ fs' = fs /\ UNCHANGED bufVars /\ loop[l].pc = "tick"
    BY <1>t, <1>4, <2>4 DEF NoteFrame, fileVars, otherVars
  <2> HIDE DEF Calm
  <2> QED BY <1>t, <1>l, <1>m, <2>1, <2>2, <2>3, <2>5
<1>5. CASE PushTick(l)
  <2>1. loop' = RunPcNext(l, "count", loop[l].next + 1)
    BY <1>5 DEF PushTick, RunPcNext
  <2>2. "count" \in LoopPcs \ {"unborn", "exists"} /\ loop[l].next + 1 \in Nat
    BY <1>p, <1>l
  <2>3. RunPcNext(l, "count", loop[l].next + 1) =
          RunAll(l, "count", loop[l].next + 1, loop[l].pre, h0)
    BY <1>t, <1>l, <2>2, <1>r
  <2>4. Calm /\ fs' = fs /\ PushRecord(loop[l].next, l) /\ loop[l].pc = "push"
    BY <1>t, <1>5 DEF PushTick, fileVars, muVars, otherVars
  <2> HIDE DEF Calm
  <2> QED BY <1>t, <1>l, <1>m, <2>1, <2>2, <2>3, <2>4
<1>6. CASE CountTick(l)
  <2>1. PICK p \in {"check", "write"} :
          loop' = RunPc(l, p) /\ (p = "write" => h0.ino # NoFile)
    BY <1>6 DEF CountTick, LoopGoto, RunPc, h0
  <2>2. p \in LoopPcs \ {"unborn", "exists"} /\ p \notin {"open", "done"}
    BY <1>p
  <2>3. RunPc(l, p) = RunAll(l, p, loop[l].next, loop[l].pre, h0)
    BY <1>t, <1>l, <2>2, <1>r
  <2>4. Calm /\ fs' = fs /\ UNCHANGED bufVars /\ loop[l].pc = "count"
    BY <1>t, <1>6 DEF CountTick, fileVars, muVars, otherVars
  <2> HIDE DEF Calm
  <2> QED BY <1>t, <1>l, <1>m, <2>1, <2>2, <2>3, <2>4
<1>7. CASE WriteTick(l)
  <2> DEFINE tick == TickDone(h0, fs, buf)
  <2>1. PICK flush \in BOOLEAN :
          /\ fs' = IF flush THEN FlushedFs(tick.h, tick.fs) ELSE tick.fs
          /\ loop' = RunPcHist(l, "check", IF flush THEN Flushed(tick.h) ELSE tick.h)
    <3>1. PICK ok \in env.writes :
            LET flush == (loop[l].next - 1) % FlushEvery = 0 /\ ok
            IN  /\ fs' = IF flush THEN FlushedFs(tick.h, tick.fs) ELSE tick.fs
                /\ loop' = [loop EXCEPT ![l].pc = "check",
                                        ![l].h = IF flush THEN Flushed(tick.h) ELSE tick.h]
      BY <1>7 DEF WriteTick, h0
    <3>2. CASE (loop[l].next - 1) % FlushEvery = 0 /\ ok
      BY <3>1, <3>2 DEF RunPcHist
    <3>3. CASE ~((loop[l].next - 1) % FlushEvery = 0 /\ ok)
      BY <3>1, <3>3 DEF RunPcHist
    <3> QED BY <3>2, <3>3
  <2>2. loop[l].pc = "write" /\ h0.ino \in Loops
    BY <1>7, <1>h, <1>s DEF WriteTick
  <2>3. Calm /\ UNCHANGED bufVars
    BY <1>t, <1>7, <2>2 DEF WriteTick, muVars, otherVars
  <2>4. PICK F \in Seq(Row) :
          RowsAfter(h0, buf) = h0.pending \o F /\ IsBatch(F, h0.by, buf, h0.cursor)
    BY <1>t, <1>l, RowsShape DEF IsBatch, h0
  <2>5. PICK R \in Seq(Row), P \in Seq(Row) :
          /\ R \o P = RowsAfter(h0, buf)
          /\ tick.fs = Appended(fs, h0.ino, R)
          /\ tick.h = [ino |-> h0.ino, by |-> h0.by,
                       cursor |-> CursorAfter(buf, h0.cursor), pending |-> P]
    BY <1>t, <1>l, <2>2, TickDoneShape, ZenonT(40) DEF h0
  <2> DEFINE e == CursorAfter(buf, h0.cursor)
             Left(Q) == [ino |-> h0.ino, by |-> h0.by, cursor |-> e, pending |-> Q]
  <2>6. e \in Cursor
    BY <1>t, <1>s, CursorShape
  <2> HIDE DEF e
  <2>7. \A Q \in Seq(Row) : Left(Q) \in HistorianState
    BY <1>s, <2>6 DEF HistorianState
  <2>8. PICK R2 \in Seq(Row), P2 \in Seq(Row) :
          /\ R2 \o P2 = h0.pending \o F
          /\ fs' = Appended(fs, h0.ino, R2)
          /\ loop' = RunPcHist(l, "check", Left(P2))
    <3>1. CASE ~flush
      BY <2>1, <2>4, <2>5, <3>1 DEF e
    <3>2. CASE flush
      <4>1. tick.h = Left(P)
        BY <2>5 DEF e
      <4>2. Flushed(tick.h) = Left(<<>>)
        <5>1. Left(P) \in HistorianState /\ <<>> \in Seq(Row)
          BY <2>7
        <5>2. \A x \in HistorianState :
                [x EXCEPT !.pending = <<>>] =
                  [ino |-> x.ino, by |-> x.by, cursor |-> x.cursor, pending |-> <<>>]
          BY SMTT(30) DEF HistorianState
        <5>3. [Left(P) EXCEPT !.pending = <<>>] = Left(<<>>)
          BY <5>1, <5>2
        <5> QED BY <4>1, <5>3 DEF Flushed
      <4>3. FlushedFs(tick.h, tick.fs) = Appended(Appended(fs, h0.ino, R), h0.ino, P)
        BY <2>5, <4>1 DEF FlushedFs
      <4>4. Appended(Appended(fs, h0.ino, R), h0.ino, P) = Appended(fs, h0.ino, R \o P)
        BY <1>t, <2>2, AppendedTwice
      <4>5. R \o P \in Seq(Row) /\ <<>> \in Seq(Row) /\ (R \o P) \o <<>> = R \o P
        BY ConcatEmptySeq
      <4> QED BY <2>1, <2>4, <2>5, <3>2, <4>2, <4>3, <4>4, <4>5
    <3> QED BY <3>1, <3>2
  <2>9. "check" \in LoopPcs \ {"unborn", "exists"}
    BY <1>p
  <2>10. RunPcHist(l, "check", Left(P2)) = RunAll(l, "check", loop[l].next, loop[l].pre, Left(P2))
    BY <1>t, <1>l, <2>7, <2>9, <1>r
  <2>11. fs' \in FileSystem
    BY <1>t, <2>2, <2>8, AppendedShape
  <2>12. Writes(l, Left(P2))
    <3>1. <<>> \in Seq(Row) /\ Joined(R2, Joined(P2, <<>>)) = Joined(h0.pending, F)
      <4>1. Joined(R2, P2) = Joined(h0.pending, F)
        BY <2>8 DEF Joined
      <4> QED BY <4>1, JoinedAssociates
    <3>2. IsBatch(F, h0.by, buf, h0.cursor) /\ e = CursorAfter(buf, h0.cursor)
      BY <2>4 DEF e
    <3> QED BY <2>2, <2>6, <2>8, <3>1, <3>2 DEF Writes, Comes, Regroups, h0
  <2> DEFINE h2 == Left(P2)
  <2>13. h2 \in HistorianState /\ Writes(l, h2)
    BY <2>7, <2>12
  <2>14. loop' = RunAll(l, "check", loop[l].next, loop[l].pre, h2)
    BY <2>8, <2>10
  <2> HIDE DEF h2
  <2> QED BY <1>l, <2>2, <2>3, <2>9, <2>11, <2>13, <2>14 DEF Effect
<1>8. CASE WriteFails(l)
  <2> DEFINE rows == RowsAfter(h0, buf)
             e == CursorAfter(buf, h0.cursor)
  <2>1. PICK k \in 0 .. WriteOuts(h0, buf) - 1 :
          /\ loop' = RunPcHist(l, "check", TickFailed(h0, fs, buf, k).h)
          /\ fs' = TickFailed(h0, fs, buf, k).fs
          /\ unwritten' = [unwritten EXCEPT
               ![l] = @ \cup {rows[i].n : i \in ((k + 1) * WriteRows + 1) .. Len(rows)}]
    BY <1>8 DEF WriteFails, RunPcHist, h0
  <2> DEFINE held == (k + 1) * WriteRows
             lost == {rows[i].n : i \in (held + 1) .. Len(rows)}
  <2>2. loop[l].pc = "write" /\ h0.ino \in Loops
    BY <1>8, <1>h, <1>s DEF WriteFails
  <2>4. PICK F \in Seq(Row) : /\ rows = h0.pending \o F /\ rows \in Seq(Row)
                              /\ IsBatch(F, h0.by, buf, h0.cursor)
    BY <1>t, <1>l, RowsShape DEF IsBatch, h0
  <2>5. /\ \E R, P, Rest \in Seq(Row) :
             /\ R \o (P \o Rest) = rows /\ Rest # <<>>
             /\ TickFailed(h0, fs, buf, k).fs = Appended(fs, h0.ino, R)
             /\ TickFailed(h0, fs, buf, k).h =
                  [ino |-> h0.ino, by |-> h0.by, cursor |-> e, pending |-> P]
        /\ (held + 1) .. Len(rows) # {} /\ held \in Nat
    BY <1>t, <1>l, <2>2, TickFailedShape DEF h0
  <2>6. e \in Cursor
    BY <1>t, <1>s, CursorShape
  <2> HIDE DEF rows, e, held
  <2>7. lost \in SUBSET Nat /\ lost # {}
    <3>1. \A r \in Row : r.n \in Nat
      BY DEF Row
    <3>2. \A i \in (held + 1) .. Len(rows) : rows[i] \in Row
      <4>1. rows \in Seq(Row) /\ held \in Nat
        BY <2>4, <2>5
      <4> QED BY <4>1
    <3> QED BY <2>5, <3>1, <3>2
  <2>8. PICK R \in Seq(Row), P \in Seq(Row), Rest \in Seq(Row) :
          /\ R \o (P \o Rest) = rows /\ Rest # <<>>
          /\ fs' = Appended(fs, h0.ino, R)
          /\ loop' = RunPcHist(l, "check",
                 [ino |-> h0.ino, by |-> h0.by, cursor |-> e, pending |-> P])
    BY <2>1, <2>5
  <2>9. /\ unwritten' \in [Loops -> SUBSET Nat]
        /\ \A m \in Loops : unwritten[m] \subseteq unwritten'[m]
        /\ unwritten'[l] # {}
    <3>1. unwritten' = [unwritten EXCEPT ![l] = @ \cup lost]
      BY <2>1 DEF held, rows
    <3> HIDE DEF lost
    <3> QED BY <1>t, <2>7, <3>1, UnwrittenGrows
  <2> HIDE DEF lost
  <2> DEFINE h == [ino |-> h0.ino, by |-> h0.by, cursor |-> e, pending |-> P]
  <2>10. h \in HistorianState
    BY <1>s, <2>6 DEF HistorianState
  <2>11. Calm /\ UNCHANGED bufVars
    BY <1>t, <1>8, <2>2, <2>9 DEF WriteFails, muVars, otherVars
  <2>12. Writes(l, h)
    <3>1. Joined(R, Joined(P, Rest)) = Joined(h0.pending, F)
      BY <2>4, <2>8 DEF Joined
    <3>2. IsBatch(F, h0.by, buf, h0.cursor) /\ e = CursorAfter(buf, h0.cursor)
      BY <2>4 DEF e
    <3> QED BY <2>2, <2>6, <2>8, <2>9, <3>1, <3>2 DEF Writes, Comes, Regroups, h0
  <2>13. fs' \in FileSystem
    BY <1>t, <2>2, <2>8, AppendedShape
  <2>14. "check" \in LoopPcs \ {"unborn", "exists"}
    BY <1>p
  <2>15. loop' = RunAll(l, "check", loop[l].next, loop[l].pre, h)
    BY <1>t, <1>l, <2>8, <2>10, <2>14, <1>r
  <2> HIDE DEF h
  <2> QED BY <1>l, <2>2, <2>10, <2>11, <2>12, <2>13, <2>14, <2>15 DEF Effect
<1>9. CASE Exit(l)
  <2>1. loop[l].pc = "exit" /\ UNCHANGED bufVars
    BY <1>9 DEF Exit
  <2>2. "done" \in LoopPcs \ {"unborn", "exists"}
    BY <1>p
  <2>3. CASE /\ loop' = [loop EXCEPT ![l].pc = "done", ![l].h = Flushed(@)]
             /\ fs' = IF loop[l].h.ino # NoFile THEN FlushedFs(loop[l].h, fs) ELSE fs
             /\ UNCHANGED unwritten
    <3> DEFINE h == [ino |-> h0.ino, by |-> h0.by, cursor |-> h0.cursor, pending |-> <<>>]
    <3>1. Flushed(h0) = h /\ h \in HistorianState
      BY <1>l, <1>s DEF Flushed, HistorianState
    <3>2. loop' = RunPcHist(l, "done", Flushed(h0))
      BY <2>3 DEF RunPcHist, h0
    <3>3. loop' = RunAll(l, "done", loop[l].next, loop[l].pre, h)
      BY <1>t, <1>l, <2>2, <3>1, <3>2, <1>r
    <3>4. Calm
      BY <1>t, <1>9, <2>1, <2>3 DEF Exit, muVars, otherVars
    <3>5. h.pending = <<>>
      OBVIOUS
    <3>6. CASE h0.ino = NoFile
      <4>1. h = h0 /\ fs' = fs
        BY <1>h, <2>3, <3>6 DEF NoHistorian, h0
      <4>2. Keeps(l, h)
        BY <4>1 DEF Keeps, h0
      <4> HIDE DEF h
      <4> QED BY <1>t, <1>l, <2>1, <2>2, <3>1, <3>3, <3>4, <3>5, <4>1, <4>2 DEF Effect
    <3>7. CASE h0.ino # NoFile
      <4>1. fs' = Appended(fs, h0.ino, h0.pending) /\ h0.ino \in Loops
        BY <1>s, <2>3, <3>7 DEF FlushedFs, h0
      <4>2. fs' \in FileSystem
        BY <1>t, <1>s, <4>1, AppendedShape
      <4>3. Writes(l, h)
        <5>1. /\ <<>> \in Seq(Row)
              /\ Joined(h0.pending, Joined(<<>>, <<>>)) = Joined(h0.pending, <<>>)
          BY <1>s, JoinedAssociates
        <5> QED BY <1>s, <4>1, <5>1 DEF Writes, Comes, Regroups, h0
      <4> HIDE DEF h
      <4> QED BY <1>l, <2>1, <2>2, <3>1, <3>3, <3>4, <3>5, <4>2, <4>3 DEF Effect
    <3> QED BY <3>6, <3>7
  <2>4. CASE /\ loop[l].h.pending # <<>>
             /\ LoopGoto(l, "done")
             /\ unwritten' = [unwritten EXCEPT
                  ![l] = @ \cup {row.n : row \in Range(loop[l].h.pending)}]
             /\ UNCHANGED fs
    <3> DEFINE lost == {row.n : row \in Range(h0.pending)}
    <3>1. lost \in SUBSET Nat /\ lost # {}
      <4>1. \A r \in Row : r.n \in Nat
        BY DEF Row
      <4>2. 1 \in DOMAIN h0.pending /\ \A i \in DOMAIN h0.pending : h0.pending[i] \in Row
        BY <1>s, <2>4 DEF h0
      <4> QED BY <4>1, <4>2 DEF Range
    <3>2. unwritten' = [unwritten EXCEPT ![l] = @ \cup lost]
      BY <2>4 DEF h0
    <3> HIDE DEF lost
    <3>3. /\ unwritten' \in [Loops -> SUBSET Nat]
          /\ \A m \in Loops : unwritten[m] \subseteq unwritten'[m]
          /\ unwritten'[l] # {}
      BY <1>t, <3>1, <3>2, UnwrittenGrows
    <3>4. Calm
      BY <1>t, <1>9, <2>1, <3>3 DEF Exit, muVars, otherVars
    <3>5. loop' = RunPc(l, "done")
      BY <2>4 DEF LoopGoto, RunPc
    <3>6. loop' = RunAll(l, "done", loop[l].next, loop[l].pre, h0)
      BY <1>t, <1>l, <2>2, <3>5, <1>r
    <3>7. Keeps(l, h0)
      BY <2>4 DEF Keeps, h0
    <3> QED BY <1>t, <1>l, <2>1, <2>2, <2>4, <3>3, <3>4, <3>6, <3>7 DEF Effect
  <2> QED BY <1>9, <2>3, <2>4 DEF Exit
<1> QED BY <1>1, <1>2, <1>3, <1>4, <1>5, <1>6, <1>7, <1>8, <1>9 DEF LoopStep

-------------------------------------------------------------------------------
(* Where the elements of a concatenation come from.                        *)
\* v is the rows of a and then those of b.
IsJoin(v, a, b) ==
  /\ v \in Seq(Row) /\ Len(a) \in Nat /\ Len(b) \in Nat /\ Len(v) = Len(a) + Len(b)
  /\ DOMAIN a = 1 .. Len(a) /\ DOMAIN b = 1 .. Len(b) /\ DOMAIN v = 1 .. (Len(a) + Len(b))
  /\ \A i \in DOMAIN a : i \in DOMAIN v /\ v[i] = a[i]
  /\ \A i \in DOMAIN b : Len(a) + i \in DOMAIN v /\ v[Len(a) + i] = b[i]
  /\ \A i \in DOMAIN v :
       \/ i \in DOMAIN a /\ v[i] = a[i]
       \/ i > Len(a) /\ i - Len(a) \in DOMAIN b /\ v[i] = b[i - Len(a)]

\* A join has the rows of both parts at their places.
LEMMA JoinedShape ==
  ASSUME NEW a \in Seq(Row), NEW b \in Seq(Row)
  PROVE  IsJoin(Joined(a, b), a, b)
<1> DEFINE w == Joined(a, b)
<1>1. Len(a) \in Nat /\ Len(b) \in Nat /\ DOMAIN a = 1 .. Len(a) /\ DOMAIN b = 1 .. Len(b)
  OBVIOUS
<1>2. /\ w \in Seq(Row) /\ Len(w) = Len(a) + Len(b)
      /\ \A i \in 1 .. Len(a) + Len(b) : w[i] = IF i <= Len(a) THEN a[i] ELSE b[i - Len(a)]
  BY ConcatProperties DEF Joined
<1> HIDE DEF w
<1>3. DOMAIN w = 1 .. (Len(a) + Len(b))
  <2>1. DOMAIN w = 1 .. Len(w)
    BY <1>2, LenProperties
  <2> QED BY <1>2, <2>1
<1>4. ASSUME NEW i \in DOMAIN a PROVE i \in DOMAIN w /\ w[i] = a[i]
  <2>1. i \in 1 .. Len(a) + Len(b) /\ i <= Len(a)
    BY <1>1
  <2> QED BY <1>2, <1>3, <2>1
<1>5. ASSUME NEW i \in DOMAIN b PROVE Len(a) + i \in DOMAIN w /\ w[Len(a) + i] = b[i]
  <2>1. Len(a) + i \in 1 .. Len(a) + Len(b) /\ ~(Len(a) + i <= Len(a)) /\ (Len(a) + i) - Len(a) = i
    BY <1>1
  <2> QED BY <1>2, <1>3, <2>1
<1>6. ASSUME NEW i \in DOMAIN w
      PROVE  \/ i \in DOMAIN a /\ w[i] = a[i]
             \/ i > Len(a) /\ i - Len(a) \in DOMAIN b /\ w[i] = b[i - Len(a)]
  <2>1. CASE i <= Len(a)
    <3>1. i \in 1 .. Len(a)
      BY <1>1, <1>3, <2>1
    <3> QED BY <1>1, <1>4, <3>1
  <2>2. CASE ~(i <= Len(a))
    <3>1. i > Len(a) /\ i - Len(a) \in 1 .. Len(b)
      BY <1>1, <1>3, <2>2
    <3> QED BY <1>1, <1>2, <1>3, <2>2, <3>1
  <2> QED BY <2>1, <2>2
<1>7. IsJoin(w, a, b)
  BY <1>1, <1>2, <1>3, <1>4, <1>5, <1>6 DEF IsJoin
<1> QED BY <1>7 DEF w

OwnedBy(w, l) == \A i \in DOMAIN w : w[i].by = l

(* What is taken from a session's rows is the session's.                   *)
LEMMA PartsOf ==
  ASSUME NEW a \in Seq(Row), NEW F \in Seq(Row), NEW R \in Seq(Row), NEW P \in Seq(Row),
         NEW Rest \in Seq(Row), Regroups(R, P, Rest, a, F), NEW l,
         OwnedBy(a, l), OwnedBy(F, l)
  PROVE  OwnedBy(R, l) /\ OwnedBy(P, l)
<1> DEFINE w == Joined(a, F)
           q == Joined(P, Rest)
<1>1. IsJoin(w, a, F) /\ IsJoin(q, P, Rest) /\ q \in Seq(Row) /\ w = Joined(R, q)
  BY JoinedShape, JoinedAssociates DEF Regroups
<1> HIDE DEF w, q
<1>2. IsJoin(w, R, q)
  BY <1>1, JoinedShape
<1>3. \A i \in DOMAIN w : w[i].by = l
  BY <1>1 DEF IsJoin, OwnedBy
<1>4. \A i \in DOMAIN P : i \in DOMAIN q /\ q[i] = P[i]
  BY <1>1 DEF IsJoin
<1>5. /\ \A i \in DOMAIN R : i \in DOMAIN w /\ w[i] = R[i]
      /\ \A i \in DOMAIN q : Len(R) + i \in DOMAIN w /\ w[Len(R) + i] = q[i]
  BY <1>2 DEF IsJoin
<1> QED BY <1>3, <1>4, <1>5 DEF OwnedBy

(* The rows of a file and a BufWriter, after a step moved some of them on. *)
LEMMA Regrouped ==
  ASSUME NEW d \in Seq(Row), NEW a \in Seq(Row), NEW F \in Seq(Row), NEW R \in Seq(Row),
         NEW P \in Seq(Row), NEW Rest \in Seq(Row)
  PROVE  Regroups(R, P, Rest, a, F) =>
           Joined(Joined(Joined(d, R), P), Rest) = Joined(Joined(d, a), F)
<1>1. /\ Joined(Joined(Joined(d, R), P), Rest) = Joined(d, Joined(R, Joined(P, Rest)))
      /\ Joined(Joined(d, a), F) = Joined(d, Joined(a, F))
  BY JoinedAssociates
<1> QED BY <1>1 DEF Regroups

(* A batch goes after the rows of its session.                             *)
LEMMA BatchBehind ==
  ASSUME NEW w \in Seq(Row), NEW l, NEW b \in Seq(Rec), Numbered(b), NEW p \in Nat,
         \A k \in DOMAIN b : b[k].n <= p, NEW c \in Cursor, Behind(w, l, b, p, c),
         NEW F \in Seq(Row), IsBatch(F, l, b, c)
  PROVE  Behind(Joined(w, F), l, b, p, CursorAfter(b, c))
<1> DEFINE fresh == FreshRows(b, c)
           e == CursorAfter(b, c)
           v == Joined(w, F)
           Own(r) == r.by = l
<1>1. /\ fresh \in Seq(Rec)
      /\ \A i \in DOMAIN fresh : \E k \in DOMAIN b : fresh[i] = b[k] /\ b[k].id > c
      /\ \A i, j \in DOMAIN fresh : i < j => fresh[i].id <= fresh[j].id /\ fresh[i].n # fresh[j].n
  BY FreshShape
<1>2. e \in Cursor /\ c <= e /\ \A k \in DOMAIN b : b[k].id <= e
  BY CursorShape
<1>3. DOMAIN F = DOMAIN fresh
  BY <1>1, LenProperties DEF IsBatch
<1>4. \A i \in DOMAIN F : F[i].id = fresh[i].id /\ F[i].n = fresh[i].n
  BY DEF IsBatch
<1>5. /\ \A i \in DOMAIN w : w[i] \in Row
      /\ \A k \in DOMAIN b : b[k] \in Rec
      /\ \A r \in Rec : r.id \in Nat /\ r.n \in Nat
      /\ \A r \in Row : r.id \in Int /\ r.n \in Nat
      /\ c \in Int /\ e \in Int
  <2>1. \A r \in Rec : r.id \in Nat /\ r.n \in Nat
    BY DEF Rec
  <2>2. \A r \in Row : r.id \in Int /\ r.n \in Nat
    BY DEF Row
  <2>3. c \in Int /\ e \in Int
    BY <1>2 DEF Cursor, NoCursor
  <2>4. (\A i \in DOMAIN w : w[i] \in Row) /\ (\A k \in DOMAIN b : b[k] \in Rec)
    OBVIOUS
  <2> QED BY <2>1, <2>2, <2>3, <2>4
<1>6. /\ \A i, j \in DOMAIN w : i < j /\ Own(w[i]) /\ Own(w[j]) =>
           w[i].id <= w[j].id /\ w[i].n # w[j].n
      /\ \A i \in DOMAIN w : Own(w[i]) =>
           /\ w[i].id <= c /\ w[i].n <= p
           /\ \A k \in DOMAIN b : b[k].id > c => b[k].n # w[i].n
  BY DEF Behind
<1> HIDE DEF fresh, e
<1>7. ASSUME NEW j \in DOMAIN F
      PROVE  \E k \in DOMAIN b : F[j].id = b[k].id /\ F[j].n = b[k].n /\ b[k].id > c
  BY <1>1, <1>3, <1>4, SMTT(30)
<1>w. IsJoin(v, w, F)
  BY JoinedShape
<1> HIDE DEF v
<1>8. /\ Len(w) \in Nat /\ DOMAIN w = 1 .. Len(w)
      /\ \A i \in DOMAIN v : i \in Nat
      /\ \A i \in DOMAIN v :
           \/ i \in DOMAIN w /\ v[i] = w[i]
           \/ i > Len(w) /\ i - Len(w) \in DOMAIN F /\ v[i] = F[i - Len(w)]
  BY <1>w DEF IsJoin
<1>9. ASSUME NEW i \in DOMAIN v, NEW j \in DOMAIN v, i < j, Own(v[i]), Own(v[j])
      PROVE  v[i].id <= v[j].id /\ v[i].n # v[j].n
  <2>1. CASE j \in DOMAIN w /\ v[j] = w[j]
    <3>1. i \in DOMAIN w /\ v[i] = w[i]
      BY <1>8, <1>9, <2>1
    <3> QED BY <1>6, <1>9, <2>1, <3>1
  <2>2. CASE j > Len(w) /\ j - Len(w) \in DOMAIN F /\ v[j] = F[j - Len(w)]
    <3>1. CASE i \in DOMAIN w /\ v[i] = w[i]
      <4>1. PICK k \in DOMAIN b : v[j].id = b[k].id /\ v[j].n = b[k].n /\ b[k].id > c
        BY <1>7, <2>2
      <4>2. v[i].id <= c /\ v[i].n # b[k].n
        BY <1>6, <1>9, <3>1, <4>1
      <4>3. v[i].id \in Int /\ b[k].id \in Int
        BY <1>5, <3>1
      <4> QED BY <1>5, <4>1, <4>2, <4>3
    <3>2. CASE i > Len(w) /\ i - Len(w) \in DOMAIN F /\ v[i] = F[i - Len(w)]
      <4>1. i - Len(w) < j - Len(w)
        BY <1>8, <1>9
      <4> QED BY <1>1, <1>3, <1>4, <2>2, <3>2, <4>1
    <3> QED BY <1>8, <3>1, <3>2
  <2> QED BY <1>8, <2>1, <2>2
<1>10. ASSUME NEW i \in DOMAIN v, Own(v[i])
       PROVE  /\ v[i].id <= e /\ v[i].n <= p
              /\ \A k \in DOMAIN b : b[k].id > e => b[k].n # v[i].n
  <2>1. CASE i \in DOMAIN w /\ v[i] = w[i]
    <3>1. v[i].id <= c /\ v[i].n <= p /\ v[i].id \in Int
      BY <1>5, <1>6, <1>10, <2>1
    <3>2. \A k \in DOMAIN b : ~(b[k].id > e)
      BY <1>2, <1>5
    <3> QED BY <1>2, <1>5, <3>1, <3>2
  <2>2. CASE i > Len(w) /\ i - Len(w) \in DOMAIN F /\ v[i] = F[i - Len(w)]
    <3>1. PICK k \in DOMAIN b : v[i].id = b[k].id /\ v[i].n = b[k].n
      BY <1>7, <2>2
    <3>2. \A m \in DOMAIN b : ~(b[m].id > e)
      BY <1>2, <1>5
    <3> QED BY <1>2, <3>1, <3>2
  <2> QED BY <1>8, <2>1, <2>2
<1> QED BY <1>9, <1>10 DEF Behind, v, e

\* The rows of session l in v are rows of w, in the same order.
Embeds(v, w, l) ==
  /\ v \in Seq(Row) /\ w \in Seq(Row)
  /\ \E g :
       /\ \A i \in DOMAIN v : v[i].by = l => g[i] \in DOMAIN w /\ w[g[i]] = v[i]
       /\ \A i, j \in DOMAIN v : i < j /\ v[i].by = l /\ v[j].by = l => g[i] < g[j]

(* What survives of a session's rows in a sequence that keeps their order. *)
LEMMA EmbedsBehind ==
  ASSUME NEW v, NEW w, NEW l, NEW b, NEW p, NEW c, Behind(w, l, b, p, c), Embeds(v, w, l)
  PROVE  Behind(v, l, b, p, c)
<1>0. PICK g : /\ \A i \in DOMAIN v : v[i].by = l => g[i] \in DOMAIN w /\ w[g[i]] = v[i]
               /\ \A i, j \in DOMAIN v : i < j /\ v[i].by = l /\ v[j].by = l => g[i] < g[j]
  BY DEF Embeds
<1>1. /\ \A i, j \in DOMAIN w : i < j /\ w[i].by = l /\ w[j].by = l =>
           w[i].id <= w[j].id /\ w[i].n # w[j].n
      /\ \A i \in DOMAIN w : w[i].by = l =>
           /\ w[i].id <= c /\ w[i].n <= p
           /\ \A k \in DOMAIN b : b[k].id > c => b[k].n # w[i].n
  BY DEF Behind
<1>2. ASSUME NEW i \in DOMAIN v, NEW j \in DOMAIN v, i < j, v[i].by = l, v[j].by = l
      PROVE  v[i].id <= v[j].id /\ v[i].n # v[j].n
  <2>1. g[i] \in DOMAIN w /\ w[g[i]] = v[i] /\ g[j] \in DOMAIN w /\ w[g[j]] = v[j]
    BY <1>0, <1>2
  <2>2. g[i] < g[j]
    BY <1>0, <1>2
  <2> QED BY <1>1, <1>2, <2>1, <2>2
<1>3. ASSUME NEW i \in DOMAIN v, v[i].by = l
      PROVE  /\ v[i].id <= c /\ v[i].n <= p
             /\ \A k \in DOMAIN b : b[k].id > c => b[k].n # v[i].n
  <2>1. g[i] \in DOMAIN w /\ w[g[i]] = v[i]
    BY <1>0, <1>3
  <2> QED BY <1>1, <1>3, <2>1
<1> QED BY <1>2, <1>3 DEF Behind

\* What holds of the rows written and pending holds of those written.
LEMMA PrefixBehind ==
  ASSUME NEW w \in Seq(Row), NEW t \in Seq(Row), NEW l, NEW b, NEW p, NEW c,
         Behind(Joined(w, t), l, b, p, c)
  PROVE  Behind(w, l, b, p, c)
<1> DEFINE v == Joined(w, t)
           g == [i \in DOMAIN w |-> i]
<1>0. v \in Seq(Row) /\ IsJoin(v, w, t)
  BY JoinedShape, JoinedAssociates
<1>2. Behind(v, l, b, p, c)
  OBVIOUS
<1> HIDE DEF v
<1>1. /\ \A i \in DOMAIN w : i \in DOMAIN v /\ v[i] = w[i]
      /\ \A i \in DOMAIN w : i \in Nat
  BY <1>0 DEF IsJoin
<1>3. \A i \in DOMAIN w : g[i] = i
  OBVIOUS
<1> HIDE DEF g
<1>t. /\ \A i \in DOMAIN w : w[i].by = l => g[i] \in DOMAIN v /\ v[g[i]] = w[i]
      /\ \A i, j \in DOMAIN w : i < j /\ w[i].by = l /\ w[j].by = l => g[i] < g[j]
  BY <1>1, <1>3
<1>4. Embeds(w, v, l)
  BY <1>0, <1>t DEF Embeds
<1> QED BY <1>2, <1>4, EmbedsBehind

(* Where the rows of another session come between those of this one.       *)
LEMMA ForeignEmbeds ==
  ASSUME NEW d \in Seq(Row), NEW q \in Seq(Row), NEW R \in Seq(Row), NEW l,
         \A i \in DOMAIN R : R[i].by # l
  PROVE  Embeds(Joined(Joined(d, R), q), Joined(d, q), l)
<1> DEFINE u == Joined(d, R)
           v == Joined(u, q)
           w == Joined(d, q)
           g == [i \in DOMAIN v |-> IF i <= Len(d) THEN i ELSE i - Len(R)]
<1>1. u \in Seq(Row) /\ IsJoin(u, d, R) /\ IsJoin(w, d, q)
  BY JoinedShape, JoinedAssociates
<1> HIDE DEF u
<1>2. IsJoin(v, u, q)
  BY <1>1, JoinedShape
<1> HIDE DEF v, w
<1>3. /\ Len(u) = Len(d) + Len(R) /\ Len(d) \in Nat /\ Len(R) \in Nat
      /\ \A i \in DOMAIN v : i \in Nat
      /\ DOMAIN d = 1 .. Len(d) /\ DOMAIN u = 1 .. Len(u) /\ v \in Seq(Row) /\ w \in Seq(Row)
  BY <1>1, <1>2 DEF IsJoin
<1>j. /\ \A i \in DOMAIN u :
           \/ i \in DOMAIN d /\ u[i] = d[i]
           \/ i > Len(d) /\ i - Len(d) \in DOMAIN R /\ u[i] = R[i - Len(d)]
      /\ \A i \in DOMAIN d : i \in DOMAIN w /\ w[i] = d[i]
      /\ \A i \in DOMAIN q : Len(d) + i \in DOMAIN w /\ w[Len(d) + i] = q[i]
      /\ \A i \in DOMAIN v :
           \/ i \in DOMAIN u /\ v[i] = u[i]
           \/ i > Len(u) /\ i - Len(u) \in DOMAIN q /\ v[i] = q[i - Len(u)]
  BY <1>1, <1>2 DEF IsJoin
<1>4. \A i \in DOMAIN v : g[i] = IF i <= Len(d) THEN i ELSE i - Len(R)
  OBVIOUS
<1> HIDE DEF g
<1>5. ASSUME NEW i \in DOMAIN v, v[i].by = l
      PROVE  /\ g[i] \in DOMAIN w /\ w[g[i]] = v[i]
             /\ \/ i <= Len(d) /\ g[i] = i
                \/ i > Len(d) + Len(R) /\ g[i] = i - Len(R)
  <2>1. CASE i \in DOMAIN d /\ v[i] = d[i]
    <3>1. i <= Len(d)
      BY <1>3, <2>1
    <3> QED BY <1>4, <1>j, <2>1, <3>1
  <2>2. CASE i > Len(u) /\ i - Len(u) \in DOMAIN q /\ v[i] = q[i - Len(u)]
    <3>1. i > Len(d) + Len(R) /\ Len(d) + (i - Len(u)) = i - Len(R) /\ ~(i <= Len(d))
      <4>1. i \in Nat /\ i > Len(u) /\ Len(u) = Len(d) + Len(R) /\ Len(d) \in Nat /\ Len(R) \in Nat
        BY <1>3, <2>2
      <4> QED BY <4>1
    <3>2. g[i] = i - Len(R)
      BY <1>4, <3>1
    <3> QED BY <1>j, <2>2, <3>1, <3>2
  <2>3. CASE i > Len(d) /\ i - Len(d) \in DOMAIN R /\ v[i] = R[i - Len(d)]
    BY <1>5, <2>3
  <2> QED BY <1>j, <2>1, <2>2, <2>3
<1>6. ASSUME NEW i \in DOMAIN v, NEW j \in DOMAIN v, i < j, v[i].by = l, v[j].by = l
      PROVE  g[i] < g[j]
  <2>1. i \in Nat /\ j \in Nat
    BY <1>3
  <2>2. \/ i <= Len(d) /\ g[i] = i
        \/ i > Len(d) + Len(R) /\ g[i] = i - Len(R)
    BY <1>5, <1>6
  <2>3. \/ j <= Len(d) /\ g[j] = j
        \/ j > Len(d) + Len(R) /\ g[j] = j - Len(R)
    BY <1>5, <1>6
  <2> QED BY <1>3, <1>6, <2>1, <2>2, <2>3
<1>7. Embeds(v, w, l)
  BY <1>3, <1>5, <1>6 DEF Embeds
<1> QED BY <1>7 DEF v, w, u

\* Another session's rows between its own do not disturb a session.
LEMMA ForeignBehind ==
  ASSUME NEW d \in Seq(Row), NEW q \in Seq(Row), NEW R \in Seq(Row), NEW l,
         \A i \in DOMAIN R : R[i].by # l,
         NEW b, NEW p, NEW c, Behind(Joined(d, q), l, b, p, c)
  PROVE  Behind(Joined(Joined(d, R), q), l, b, p, c)
BY ForeignEmbeds, EmbedsBehind

\* Buffer b2 after p2 pushes holds only records of b, and later ones.
Later(b, p, b2, p2) ==
  /\ b2 \in Seq(Rec) /\ p \in Nat /\ p2 \in Nat /\ p <= p2
  /\ \A k \in DOMAIN b2 : b2[k].n > p \/ \E j \in DOMAIN b : b2[k] = b[j]

(* A buffer that only gained later records keeps what it was behind of.    *)
LEMMA BehindBuffer ==
  ASSUME NEW w \in Seq(Row), NEW l, NEW b, NEW p, NEW c, Behind(w, l, b, p, c),
         NEW b2, NEW p2, Later(b, p, b2, p2)
  PROVE  Behind(w, l, b2, p2, c)
<1>0. /\ p \in Nat /\ p2 \in Nat /\ p <= p2
      /\ \A k \in DOMAIN b2 : b2[k].n > p \/ \E j \in DOMAIN b : b2[k] = b[j]
  BY DEF Later
<1>1. \A i \in DOMAIN w : w[i].n \in Nat
  <2>1. \A r \in Row : r.n \in Nat
    BY DEF Row
  <2> QED BY <2>1
<1>2. ASSUME NEW i \in DOMAIN w, w[i].by = l
      PROVE  /\ w[i].id <= c /\ w[i].n <= p2
             /\ \A k \in DOMAIN b2 : b2[k].id > c => b2[k].n # w[i].n
  <2>1. /\ w[i].id <= c /\ w[i].n <= p
        /\ \A k \in DOMAIN b : b[k].id > c => b[k].n # w[i].n
    BY <1>2 DEF Behind
  <2>2. w[i].n <= p2
    BY <1>0, <1>1, <2>1
  <2>3. ASSUME NEW k \in DOMAIN b2, b2[k].id > c PROVE b2[k].n # w[i].n
    <3>1. CASE b2[k].n > p
      BY <1>0, <1>1, <2>1, <3>1
    <3>2. CASE \E j \in DOMAIN b : b2[k] = b[j]
      BY <2>1, <2>3, <3>2
    <3> QED BY <1>0, <3>1, <3>2
  <2> QED BY <2>1, <2>2, <2>3
<1> QED BY <1>2 DEF Behind

(* The rows of a session, after a step of its own moved some of them on.   *)
LEMMA MovedBehind ==
  ASSUME NEW d \in Seq(Row), NEW a \in Seq(Row), NEW F \in Seq(Row), NEW R \in Seq(Row),
         NEW P \in Seq(Row), NEW Rest \in Seq(Row), Regroups(R, P, Rest, a, F),
         NEW l, NEW b \in Seq(Rec), Numbered(b), NEW p \in Nat,
         \A k \in DOMAIN b : b[k].n <= p, NEW c \in Cursor, NEW e \in Cursor,
         Behind(Joined(d, a), l, b, p, c),
         Comes(F, l, b, c, e)
  PROVE  Behind(Joined(Joined(d, R), P), l, b, p, e)
<1> DEFINE w == Joined(d, a)
           v == Joined(Joined(d, R), P)
<1>1. Joined(v, Rest) = Joined(w, F)
  BY Regrouped
<1>2. w \in Seq(Row) /\ v \in Seq(Row)
  <2>1. Joined(d, R) \in Seq(Row)
    BY JoinedAssociates
  <2> QED BY <2>1, JoinedAssociates
<1>3. Behind(w, l, b, p, c)
  OBVIOUS
<1> HIDE DEF w, v
<1>4. Behind(Joined(w, F), l, b, p, e)
  <2>1. CASE F = <<>> /\ e = c
    BY <1>2, <1>3, <2>1, JoinedAssociates
  <2>2. CASE IsBatch(F, l, b, c) /\ e = CursorAfter(b, c)
    BY <1>2, <1>3, <2>2, BatchBehind
  <2> QED BY <2>1, <2>2 DEF Comes
<1>5. Behind(Joined(v, Rest), l, b, p, e)
  BY <1>1, <1>4
<1>6. Behind(v, l, b, p, e)
  BY <1>2, <1>5, PrefixBehind
<1> QED BY <1>6 DEF v

-------------------------------------------------------------------------------
(* What a step can do to a session: leave its rows and files alone, ...    *)
Files == [Loops -> Seq(Row)]

\* A session's rows, in its file and its BufWriter, are rows.
LEMMA RowsAreRows ==
  ASSUME NEW h \in HistorianState, NEW data \in Files
  PROVE  Rows(h, data) \in Seq(Row)
<1>1. CASE h.ino = NoFile
  BY <1>1 DEF Rows
<1>2. CASE h.ino # NoFile
  <2>1. data[h.ino] \in Seq(Row) /\ h.pending \in Seq(Row)
    BY <1>2 DEF HistorianState, File, Files
  <2>2. Joined(data[h.ino], h.pending) \in Seq(Row)
    BY <2>1, JoinedAssociates
  <2> QED BY <1>2, <2>2 DEF Rows
<1> QED BY <1>1, <1>2

\* A state st2 after st that leaves the historian as it was.
Rests(st, st2, lost, lost2) ==
  /\ st2.h = st.h /\ lost \subseteq lost2
  /\ st2.pc \in {"unborn", "exists", "open"} => st.pc \in {"unborn", "exists", "open"}
  /\ st2.pc = "write" => st.h.ino # NoFile
  /\ st2.pc = "done" => st.pc = "done" \/ st.h.pending = <<>> \/ lost2 # {}

\* A session that writes nothing stays in order while the buffer moves on.
LEMMA SessionRests ==
  ASSUME NEW l \in Loops, NEW st \in LoopState, NEW data \in Files, NEW lost, NEW b, NEW p,
         Session(l, st, data, lost, b, p), NEW st2, NEW lost2, Rests(st, st2, lost, lost2),
         NEW b2, NEW p2, Later(b, p, b2, p2)
  PROVE  Session(l, st2, data, lost2, b2, p2)
<1>0. st2.h = st.h
  BY DEF Rests
<1>1. HistorianOk(l, st2, data)
  BY DEF Session, HistorianOk, Rests
<1>2. Behind(Rows(st2.h, data), l, b2, p2, st2.h.cursor)
  <2>1. Rows(st.h, data) \in Seq(Row)
    BY RowsAreRows DEF LoopState
  <2>2. Behind(Rows(st.h, data), l, b, p, st.h.cursor)
    BY DEF Session
  <2> QED BY <1>0, <2>1, <2>2, BehindBuffer
<1>3. LastOk(l, st2, data, lost2)
  <2>1. LastOk(l, st, data, lost)
    BY DEF Session
  <2> QED BY <2>1 DEF LastOk, Rests
<1> QED BY <1>1, <1>2, <1>3 DEF Session

(* ... append the rows of another session to its file, ...                 *)
\* Rows of others than m added to file f.
Shares(data, data2, m, f, R) ==
  /\ f \in Loops /\ R \in Seq(Row) /\ \A i \in DOMAIN R : R[i].by # m
  /\ data2[f] = Joined(data[f], R)
  /\ \A j \in Loops \ {f} : data2[j] = data[j]

\* A session stays in order when another appends to the file they share.
LEMMA SessionShares ==
  ASSUME NEW m \in Loops, NEW st \in LoopState, NEW data \in Files, NEW data2 \in Files,
         NEW f, NEW R, Shares(data, data2, m, f, R),
         NEW lost, NEW b, NEW p, Session(m, st, data, lost, b, p)
  PROVE  Session(m, st, data2, lost, b, p)
<1>s. /\ f \in Loops /\ R \in Seq(Row) /\ \A i \in DOMAIN R : R[i].by # m
      /\ data2[f] = Joined(data[f], R)
      /\ \A j \in Loops \ {f} : data2[j] = data[j]
  BY DEF Shares
<1> DEFINE h == st.h
<1>h. h \in HistorianState /\ h.pending \in Seq(Row) /\ h.ino \in File
  BY DEF LoopState, HistorianState
<1>f. data[f] \in Seq(Row)
  BY <1>s DEF Files
<1>1. HistorianOk(m, st, data2)
  <2>1. ASSUME h.ino = NoFile, NEW g \in Loops, NEW i \in DOMAIN data2[g]
        PROVE  data2[g][i].by # m
    <3>1. \A j \in DOMAIN data[g] : data[g][j].by # m
      BY <2>1 DEF Session, HistorianOk
    <3>2. CASE g # f
      BY <1>s, <2>1, <3>1, <3>2
    <3>3. CASE g = f
      <4> DEFINE v == Joined(data[f], R)
      <4>1. IsJoin(v, data[f], R)
        BY <1>s, <1>f, JoinedShape
      <4> HIDE DEF v
      <4>2. i \in DOMAIN v /\ data2[g][i] = v[i]
        BY <1>s, <2>1, <3>3 DEF v
      <4> QED BY <1>s, <3>1, <3>3, <4>1, <4>2 DEF IsJoin
    <3> QED BY <3>2, <3>3
  <2> QED BY <2>1 DEF Session, HistorianOk
<1> HIDE DEF h
<1>2. CASE h.ino # f
  <2>1. Rows(h, data2) = Rows(h, data)
    BY <1>s, <1>h, <1>2 DEF Rows, File
  <2> QED BY <1>1, <2>1 DEF Session, LastOk, h
<1>3. CASE h.ino = f
  <2> DEFINE w == Rows(h, data)
             v == Rows(h, data2)
             d == data[f]
  <2>0. f # NoFile
    BY <1>s DEF Loops, NoFile
  <2>1. w = Joined(d, h.pending) /\ v = Joined(Joined(d, R), h.pending)
    BY <1>s, <1>3, <2>0 DEF Rows
  <2>2. d \in Seq(Row)
    BY <1>f
  <2> HIDE DEF w, v, d
  <2>3. Behind(v, m, b, p, h.cursor)
    <3>1. Behind(w, m, b, p, h.cursor)
      BY DEF Session, h, w
    <3>2. Behind(Joined(d, h.pending), m, b, p, h.cursor)
      BY <2>1, <3>1
    <3> QED BY <1>s, <1>h, <2>1, <2>2, <3>2, ForeignBehind
  <2>4. Reaches(w, m, h.cursor) => Reaches(v, m, h.cursor)
    <3> DEFINE u == Joined(d, R)
    <3>1. IsJoin(w, d, h.pending) /\ IsJoin(u, d, R) /\ u \in Seq(Row)
      BY <1>s, <1>h, <2>1, <2>2, JoinedShape, JoinedAssociates
    <3> HIDE DEF u
    <3>2. IsJoin(v, u, h.pending)
      BY <1>h, <2>1, <3>1, JoinedShape DEF u
    <3>3. \A i \in DOMAIN w : \E j \in DOMAIN v : v[j] = w[i]
      <4>1. \A i \in DOMAIN w : \/ i \in DOMAIN d /\ w[i] = d[i]
                                \/ i - Len(d) \in DOMAIN h.pending /\ w[i] = h.pending[i - Len(d)]
        BY <3>1 DEF IsJoin
      <4>2. \A i \in DOMAIN d : i \in DOMAIN u /\ u[i] = d[i]
        BY <3>1 DEF IsJoin
      <4>3. /\ \A i \in DOMAIN u : i \in DOMAIN v /\ v[i] = u[i]
            /\ \A i \in DOMAIN h.pending : Len(u) + i \in DOMAIN v /\ v[Len(u) + i] = h.pending[i]
        BY <3>2 DEF IsJoin
      <4> QED BY <4>1, <4>2, <4>3
    <3> QED BY <3>3 DEF Reaches
  <2>5. LastOk(m, st, data2, lost)
    BY <2>4 DEF Session, LastOk, h, w, v
  <2> QED BY <1>1, <2>3, <2>5 DEF Session, h, v
<1> QED BY <1>2, <1>3

(* ... open its historian, ...                                             *)
LEMMA SessionOpens ==
  ASSUME NEW l \in Loops, NEW st \in LoopState, NEW data \in Files, NEW lost, NEW b,
         NEW p, Session(l, st, data, lost, b, p), st.pc = "open",
         NEW st2 \in LoopState, st2.pc \notin {"unborn", "exists", "open"},
         st2.h.ino \in Loops, st2.h.by = l, st2.h.cursor = NoCursor, st2.h.pending = <<>>,
         NEW data2 \in Files,
         \/ data2 = data
         \/ /\ data2[st2.h.ino] = Joined(data[st2.h.ino], <<Header>>)
            /\ \A j \in Loops \ {st2.h.ino} : data2[j] = data[j],
         NEW lost2
  PROVE  Session(l, st2, data2, lost2, b, p)
<1> DEFINE f == st2.h.ino
<1>0. f # NoFile /\ l # 0
  BY DEF Loops, NoFile
<1>1. \A i \in DOMAIN data[f] : data[f][i].by # l
  BY DEF Session, HistorianOk
<1>f. data[f] \in Seq(Row) /\ data2[f] \in Seq(Row)
  BY DEF Files
<1>2. \A i \in DOMAIN data2[f] : data2[f][i].by # l
  <2>1. CASE data2 = data
    BY <1>1, <2>1
  <2>2. CASE data2[f] = Joined(data[f], <<Header>>)
    <3>1. <<Header>> \in Seq(Row) /\ \A i \in DOMAIN <<Header>> : <<Header>>[i].by # l
      BY <1>0 DEF Header, Row
    <3> DEFINE v == Joined(data[f], <<Header>>)
               hd == <<Header>>
    <3>2. hd \in Seq(Row) /\ \A i \in DOMAIN hd : hd[i].by # l
      BY <3>1
    <3> HIDE DEF hd
    <3>3. IsJoin(v, data[f], hd)
      BY <1>f, <3>2, JoinedShape DEF hd
    <3> HIDE DEF v
    <3>4. \A i \in DOMAIN v : v[i].by # l
      BY <1>1, <3>2, <3>3, SMTT(30) DEF IsJoin
    <3> QED BY <2>2, <3>4 DEF v
  <2> QED BY <2>1, <2>2
<1>3. Rows(st2.h, data2) = data2[f]
  BY <1>0, <1>f, JoinedAssociates DEF Rows
<1>4. HistorianOk(l, st2, data2)
  BY <1>0 DEF HistorianOk
<1>5. Behind(Rows(st2.h, data2), l, b, p, st2.h.cursor)
  BY <1>2, <1>3 DEF Behind
<1>6. LastOk(l, st2, data2, lost2)
  BY DEF LastOk
<1> QED BY <1>4, <1>5, <1>6 DEF Session

(* ... or move its rows on, with those of a batch behind them.             *)
LEMMA MovedReaches ==
  ASSUME NEW d \in Seq(Row), NEW a \in Seq(Row), NEW F \in Seq(Row), NEW R \in Seq(Row),
         NEW P \in Seq(Row), Regroups(R, P, <<>>, a, F),
         NEW l, NEW b \in Seq(Rec), Numbered(b), NEW c \in Cursor, NEW e \in Cursor,
         c # NoCursor => Reaches(Joined(d, a), l, c), Comes(F, l, b, c, e), e # NoCursor
  PROVE  Reaches(Joined(Joined(d, R), P), l, e)
<1> DEFINE w == Joined(d, a)
           v == Joined(w, F)
           fresh == FreshRows(b, c)
<1>1. Joined(Joined(d, R), P) = v
  BY JoinedAssociates DEF Regroups
<1>2. w \in Seq(Row)
  BY JoinedAssociates
<1>w. c # NoCursor => Reaches(w, l, c)
  OBVIOUS
<1> HIDE DEF w
<1>3. IsJoin(v, w, F)
  BY <1>2, JoinedShape
<1> HIDE DEF v
<1>4. /\ \A i \in DOMAIN w : i \in DOMAIN v /\ v[i] = w[i]
      /\ \A i \in DOMAIN F : Len(w) + i \in DOMAIN v /\ v[Len(w) + i] = F[i]
  BY <1>3 DEF IsJoin
<1>5. c # NoCursor => Reaches(v, l, c)
  BY <1>w, <1>4 DEF Reaches
<1>6. CASE e = c
  BY <1>1, <1>5, <1>6
<1>7. CASE IsBatch(F, l, b, c) /\ e = CursorAfter(b, c) /\ e # c
  <2>1. /\ fresh = <<>> => e = c
        /\ fresh # <<>> => fresh[Len(fresh)].id = e
    BY <1>7, CursorShape
  <2>2. fresh \in Seq(Rec)
    BY FreshShape
  <2>3. /\ Len(F) = Len(fresh)
        /\ \A i \in DOMAIN F : F[i].by = l /\ F[i].id = fresh[i].id
    BY <1>7 DEF IsBatch
  <2> HIDE DEF fresh
  <2>4. Len(F) \in DOMAIN F
    <3>1. Len(fresh) \in Nat /\ Len(fresh) # 0
      BY <1>7, <2>1, <2>2
    <3>2. DOMAIN F = 1 .. Len(F)
      BY LenProperties
    <3> QED BY <2>3, <3>1, <3>2
  <2>5. F[Len(F)].by = l /\ F[Len(F)].id = e
    BY <1>7, <2>1, <2>3, <2>4
  <2>6. Reaches(v, l, e)
    BY <1>4, <2>4, <2>5 DEF Reaches
  <2> QED BY <1>1, <2>6
<1> QED BY <1>6, <1>7 DEF Comes

\* A state st2 after st in which R went to the file.
MovesOn(st, st2, data, data2, lost, lost2, b, R) ==
  /\ st.h.ino \in Loops /\ lost \subseteq lost2 /\ R \in Seq(Row)
  /\ data2[st.h.ino] = Joined(data[st.h.ino], R)
  /\ st2.pc \notin {"unborn", "exists", "open"}
  /\ \E F, P, Rest \in Seq(Row), e \in Cursor :
       /\ Comes(F, st.h.by, b, st.h.cursor, e) /\ Regroups(R, P, Rest, st.h.pending, F)
       /\ Rest # <<>> => lost2 # {}
       /\ st2.h = [ino |-> st.h.ino, by |-> st.h.by, cursor |-> e, pending |-> P]
       /\ st2.pc = "done" => P = <<>> \/ lost2 # {}

\* A session that reads a batch, writes or flushes stays in order.
LEMMA SessionWrites ==
  ASSUME NEW l \in Loops, NEW st \in LoopState, NEW data \in Files, NEW lost,
         NEW b \in Seq(Rec), Numbered(b), NEW p \in Nat, \A k \in DOMAIN b : b[k].n <= p,
         Session(l, st, data, lost, b, p), NEW lost2, NEW data2 \in Files, NEW st2, NEW R,
         MovesOn(st, st2, data, data2, lost, lost2, b, R)
  PROVE  /\ Session(l, st2, data2, lost2, b, p)
         /\ OwnedBy(R, l)
<1>m. /\ st.h.ino \in Loops /\ lost \subseteq lost2 /\ R \in Seq(Row)
      /\ data2[st.h.ino] = Joined(data[st.h.ino], R)
      /\ st2.pc \notin {"unborn", "exists", "open"}
  BY DEF MovesOn
<1>p. PICK F \in Seq(Row), P \in Seq(Row), Rest \in Seq(Row), e \in Cursor :
       /\ Comes(F, st.h.by, b, st.h.cursor, e) /\ Regroups(R, P, Rest, st.h.pending, F)
       /\ Rest # <<>> => lost2 # {}
       /\ st2.h = [ino |-> st.h.ino, by |-> st.h.by, cursor |-> e, pending |-> P]
       /\ st2.pc = "done" => P = <<>> \/ lost2 # {}
  BY DEF MovesOn
<1> DEFINE f == st.h.ino
           a == st.h.pending
           d == data[f]
           c == st.h.cursor
<1>1. /\ f # NoFile /\ st.h.by = l /\ OwnedBy(a, l)
      /\ Behind(Rows(st.h, data), l, b, p, c) /\ LastOk(l, st, data, lost)
  BY <1>m DEF Session, HistorianOk, Loops, NoFile, OwnedBy
<1>2. a \in Seq(Row) /\ c \in Cursor /\ d \in Seq(Row)
  BY <1>m DEF LoopState, HistorianState, Files
<1>3. Rows(st.h, data) = Joined(d, a)
  BY <1>m, <1>p, <1>1 DEF Rows
<1>4. Rows(st2.h, data2) = Joined(Joined(d, R), P)
  BY <1>m, <1>p, <1>1 DEF Rows
<1>5. Comes(F, l, b, c, e)
  BY <1>p, <1>1
<1>6. Regroups(R, P, Rest, a, F)
  BY <1>p
<1>b. Behind(Joined(d, a), l, b, p, c)
  BY <1>1, <1>3
<1>r. lost = {} /\ c # NoCursor => Reaches(Joined(d, a), l, c)
  BY <1>1, <1>3 DEF LastOk
<1>s. st2.h.ino = f /\ st2.h.by = l /\ st2.h.cursor = e /\ st2.h.pending = P
  BY <1>p, <1>1
<1>a. OwnedBy(a, l)
  BY <1>1
<1> HIDE DEF f, a, d, c
<1>7. OwnedBy(F, l)
  <2>1. F = <<>> => DOMAIN F = {}
    OBVIOUS
  <2> QED BY <1>5, <2>1 DEF Comes, IsBatch, OwnedBy
<1>8. OwnedBy(R, l) /\ OwnedBy(P, l)
  BY <1>m, <1>2, <1>6, <1>7, <1>a, PartsOf
<1>9. Behind(Joined(Joined(d, R), P), l, b, p, e)
  BY <1>m, <1>2, <1>5, <1>6, <1>b, MovedBehind
<1>10. lost2 = {} /\ e # NoCursor => Reaches(Joined(Joined(d, R), P), l, e)
  <2> SUFFICES ASSUME lost2 = {}, e # NoCursor PROVE Reaches(Joined(Joined(d, R), P), l, e)
    OBVIOUS
  <2>1. lost = {} /\ Rest = <<>>
    BY <1>m, <1>p
  <2>3. Regroups(R, P, <<>>, a, F)
    BY <1>6, <2>1
  <2>4. c # NoCursor => Reaches(Joined(d, a), l, c)
    BY <1>r, <2>1
  <2> QED BY <1>m, <1>2, <1>5, <2>3, <2>4, MovedReaches
<1>11. HistorianOk(l, st2, data2)
  BY <1>m, <1>1, <1>8, <1>s DEF HistorianOk, OwnedBy
<1>12. LastOk(l, st2, data2, lost2)
  BY <1>p, <1>4, <1>10, <1>s DEF LastOk
<1>13. Behind(Rows(st2.h, data2), l, b, p, st2.h.cursor)
  BY <1>4, <1>9, <1>s
<1> QED BY <1>8, <1>11, <1>12, <1>13 DEF Session

-------------------------------------------------------------------------------
(* The types are kept, and a buffer only ever gains later records.         *)
NewRecordsOnly == Later(buf, pushes, buf', pushes')

\* A step that leaves the buffer alone adds no record.
LEMMA SameBuffer ==
  ASSUME CoreType, UNCHANGED bufVars
  PROVE  NewRecordsOnly
<1>1. buf \in Seq(Rec) /\ pushes \in Nat /\ buf' = buf /\ pushes' = pushes
  BY DEF CoreType, bufVars
<1> QED BY <1>1 DEF NewRecordsOnly, Later

\* A push adds one record, numbered after all others.
LEMMA PushedBuffer ==
  ASSUME CoreType, BufInv, NEW id \in Nat, NEW src \in Nat, PushRecord(id, src)
  PROVE  NewRecordsOnly
<1> DEFINE t == [id |-> id, n |-> pushes + 1, src |-> src]
<1>1. /\ buf' \in Seq(Rec) /\ pushes' = pushes + 1
      /\ \A k \in DOMAIN buf' : buf'[k] = t \/ \E j \in DOMAIN buf : buf'[k] = buf[j]
  BY PushKeepsBuffer
<1>2. t.n = pushes + 1 /\ pushes \in Nat
  BY DEF CoreType
<1> HIDE DEF t
<1>3. t.n > pushes /\ pushes' \in Nat /\ pushes <= pushes'
  BY <1>1, <1>2
<1> QED BY <1>1, <1>2, <1>3 DEF NewRecordsOnly, Later

\* A loop's step keeps the types, and adds new records only.
LEMMA LoopsKeepTypes ==
  ASSUME TypeInv, NEW l \in Loops, Effect(l)
  PROVE  TypeInv' /\ NewRecordsOnly
<1>1. PICK p \in LoopPcs, n \in Nat, b \in BOOLEAN, h \in HistorianState :
        loop' = RunAll(l, p, n, b, h)
  BY DEF Effect
<1>2. loop' \in [Loops -> LoopState]
  <2>1. RunAll(l, p, n, b, h) \in [Loops -> LoopState]
    BY LoopMoved DEF TypeInv, CoreType
  <2> QED BY <1>1, <2>1
<1>3. /\ fs' \in FileSystem /\ unwritten' \in [Loops -> SUBSET Nat]
      /\ ticksEmitted' \in Nat /\ seen' \in [Svids -> Nat]
      /\ UNCHANGED <<client, handle, running, vendor, env, l0, l0got, stopped>>
      /\ UNCHANGED bufVars \/ PushRecord(loop[l].next, l)
  BY DEF Effect
<1>4. /\ buf' \in Seq(Rec) /\ Len(buf') <= Capacity /\ pushes' \in Nat
      /\ BufInv' /\ NewRecordsOnly
  <2>1. CASE UNCHANGED bufVars
    <3>1. NewRecordsOnly
      BY <2>1, SameBuffer DEF TypeInv
    <3> QED BY <2>1, <3>1 DEF TypeInv, CoreType, BufInv, bufVars
  <2>2. CASE PushRecord(loop[l].next, l)
    <3>1. loop[l].next \in Nat /\ l \in Nat
      BY DEF TypeInv, CoreType, LoopState, Loops
    <3> QED BY <2>2, <3>1, PushKeepsBuffer, PushedBuffer DEF TypeInv
  <2> QED BY <1>3, <2>1, <2>2
<1>5. CoreType'
  BY <1>2, <1>3, <1>4 DEF TypeInv, CoreType, Carries, At
<1>6. DataType'
  BY <1>3 DEF TypeInv, DataType
<1> QED BY <1>4, <1>5, <1>6 DEF TypeInv

(* What the handlers leave alone, and how little they touch of the rest.   *)
LEMMA HandlersTouch ==
  ASSUME TypeInv, NEW c \in Clients, Request(c) \/ HandlerStep(c)
  PROVE  /\ UNCHANGED <<unwritten, seen, l0, l0got, env>>
         /\ fs'.data = fs.data
         /\ UNCHANGED loop \/ \E l \in Unborn : loop' = RunPc(l, "exists")
         /\ NewRecordsOnly
         /\ \/ UNCHANGED bufVars
            \/ \E id \in Nat : PushRecord(id, NoLoop)
            \/ buf # <<>> /\ buf' = Tail(buf) /\ UNCHANGED pushes
<1> DEFINE Quiet == UNCHANGED <<buf, pushes, loop, unwritten, seen, l0, l0got, env>>
<1>q. ASSUME Quiet, fs'.data = fs.data
      PROVE  /\ UNCHANGED <<unwritten, seen, l0, l0got, env>>
             /\ fs'.data = fs.data /\ UNCHANGED loop /\ UNCHANGED bufVars
             /\ NewRecordsOnly
  BY <1>q, SameBuffer DEF TypeInv, bufVars
<1>1. CASE Start(c) \/ StoreTrue(c) \/ KeepHandle(c) \/ Stop(c) \/ TakeHandle(c)
  <2>1. Quiet /\ fs' = fs
    BY <1>1 DEF Start, StoreTrue, KeepHandle, Stop, TakeHandle, bufVars, fileVars, muVars,
                otherVars
  <2> QED BY <1>q, <2>1
<1>2. CASE Join(c) \/ HangUp(c) \/ TamperCount(c) \/ TamperTally(c) \/ Reset(c)
  <2>1. Quiet /\ fs' = fs
    BY <1>2 DEF Join, HangUp, TamperCount, TamperTally, Reset, bufVars, fileVars, muVars,
                otherVars
  <2> QED BY <1>q, <2>1
<1>3. CASE ResetTicks(c) \/ ResetTampers(c) \/ SetVendor(c)
  <2>1. Quiet /\ fs' = fs
    BY <1>3 DEF ResetTicks, ResetTampers, SetVendor, bufVars, fileVars, muVars, otherVars
  <2> QED BY <1>q, <2>1
<1>4. CASE ResetFile(c)
  <2>1. Quiet /\ fs' = [fs EXCEPT !.named = NoFile]
    BY <1>4 DEF ResetFile, Unlinked, bufVars, muVars, otherVars
  <2>2. fs'.data = fs.data
    BY <2>1 DEF TypeInv, DataType, FileSystem
  <2> QED BY <1>q, <2>1, <2>2
<1>5. CASE Spawn(c)
  <2>1. /\ UNCHANGED <<unwritten, seen, l0, l0got, env, fs, buf, pushes>>
        /\ \E l \in Unborn : loop' = RunPc(l, "exists")
    BY <1>5 DEF Spawn, LoopGoto, RunPc, bufVars, fileVars, muVars, otherVars
  <2>2. UNCHANGED bufVars /\ NewRecordsOnly
    BY <2>1, SameBuffer DEF TypeInv, bufVars
  <2> QED BY <2>1, <2>2
<1>6. CASE TamperPush(c)
  <2>1. UNCHANGED <<unwritten, seen, l0, l0got, env, fs, loop>> /\ PushRecord(client[c].arg, NoLoop)
    BY <1>6 DEF TamperPush, fileVars, muVars, otherVars
  <2>2. client[c].arg \in Nat /\ NoLoop \in Nat
    BY DEF TypeInv, CoreType, HandlerState, NoLoop
  <2>3. NewRecordsOnly
    BY <2>1, <2>2, PushedBuffer DEF TypeInv
  <2> QED BY <2>1, <2>2, <2>3
<1>7. CASE ResetPop(c)
  <2>1. UNCHANGED <<unwritten, seen, l0, l0got, env, fs, loop, pushes>>
    BY <1>7 DEF ResetPop, fileVars, muVars, otherVars
  <2>2. CASE buf = <<>>
    <3>1. Quiet
      BY <1>7, <2>1, <2>2 DEF ResetPop
    <3> QED BY <1>q, <2>1, <3>1
  <2>3. CASE buf # <<>>
    <3>1. buf' = Tail(buf)
      BY <1>7, <2>3 DEF ResetPop
    <3>2. buf' \in Seq(Rec) /\ \A k \in DOMAIN buf' : \E j \in DOMAIN buf : buf'[k] = buf[j]
      BY <2>1, <2>3, <3>1, TailKeepsBuffer DEF TypeInv
    <3>3. pushes' = pushes /\ pushes \in Nat
      BY <2>1 DEF TypeInv, CoreType
    <3>4. NewRecordsOnly
      BY <3>2, <3>3 DEF NewRecordsOnly, Later
    <3> QED BY <2>1, <2>3, <3>1, <3>4
  <2> QED BY <2>2, <2>3
<1> QED BY <1>1, <1>2, <1>3, <1>4, <1>5, <1>6, <1>7 DEF Request, HandlerStep

-------------------------------------------------------------------------------
(* A step that touches no file and moves no historian keeps the sessions.  *)
LEMMA QuietKeepsSessions ==
  ASSUME TypeInv, TypeInv', Sessions, NewRecordsOnly, fs'.data = fs.data,
         UNCHANGED unwritten, UNCHANGED loop \/ \E l \in Unborn : loop' = RunPc(l, "exists")
  PROVE  Sessions'
<1> SUFFICES ASSUME NEW m \in Loops
             PROVE  Session(m, loop'[m], fs'.data, unwritten'[m], buf', pushes')
  BY DEF Sessions
<1>1. loop[m] \in LoopState /\ fs.data \in Files
  BY DEF TypeInv, CoreType, DataType, FileSystem, Files
<1>2. Later(buf, pushes, buf', pushes')
  BY DEF NewRecordsOnly
<1>3. Session(m, loop[m], fs.data, unwritten[m], buf, pushes)
  BY DEF Sessions
<1>4. /\ loop'[m].h = loop[m].h
      /\ \/ loop'[m].pc = loop[m].pc
         \/ loop[m].pc = "unborn" /\ loop'[m].pc = "exists"
  <2>1. CASE UNCHANGED loop
    BY <2>1
  <2>2. CASE \E l \in Unborn : loop' = RunPc(l, "exists")
    <3>1. PICK l \in Unborn : loop' = RunPc(l, "exists")
      BY <2>2
    <3>2. l \in Loops /\ loop[l].pc = "unborn"
      BY DEF Unborn
    <3>3. loop' = RunAll(l, "exists", loop[l].next, loop[l].pre, loop[l].h)
      BY <3>1, <3>2, LoopMoves DEF TypeInv, CoreType, LoopPcs
    <3>4. loop[l].next \in Nat /\ loop[l].pre \in BOOLEAN /\ loop[l].h \in HistorianState
      BY <3>2 DEF TypeInv, CoreType, LoopState
    <3>5. "exists" \in LoopPcs /\ loop \in [Loops -> LoopState]
      BY DEF LoopPcs, TypeInv, CoreType
    <3>6. \A k \in Loops \ {l} : loop'[k] = loop[k]
      <4>1. \A k \in Loops \ {l} :
              RunAll(l, "exists", loop[l].next, loop[l].pre, loop[l].h)[k] = loop[k]
        BY <3>5 DEF RunAll
      <4> QED BY <3>3, <4>1
    <3>7. loop'[l] = [pc |-> "exists", next |-> loop[l].next, pre |-> loop[l].pre,
                      h |-> loop[l].h]
      BY <3>2, <3>3, <3>4, <3>5, LoopMoved
    <3> QED BY <3>2, <3>6, <3>7
  <2> QED BY <2>1, <2>2
<1>5. loop[m].pc = "write" => loop[m].h.ino # NoFile
  BY <1>3 DEF Session, HistorianOk
<1>r. Rests(loop[m], loop'[m], unwritten[m], unwritten[m])
  BY <1>4, <1>5 DEF Rests
<1>6. Session(m, loop'[m], fs.data, unwritten[m], buf', pushes')
  BY <1>1, <1>2, <1>3, <1>r, SessionRests
<1> QED BY <1>6

(* The steps of a loop keep its own session and everybody else's.          *)
LEMMA LoopsKeepSessions ==
  ASSUME TypeInv, TypeInv', Sessions, NewRecordsOnly, NEW l \in Loops, Effect(l)
  PROVE  Sessions'
<1>0. /\ loop \in [Loops -> LoopState] /\ fs \in FileSystem /\ fs.data \in Files
      /\ fs' \in FileSystem /\ fs'.data \in Files
      /\ buf \in Seq(Rec) /\ Numbered(buf) /\ pushes \in Nat
      /\ \A k \in DOMAIN buf : buf[k].n <= pushes
  BY DEF TypeInv, CoreType, DataType, BufInv, FileSystem, Files
<1>1. PICK p \in LoopPcs \ {"unborn", "exists"}, n \in Nat, b \in BOOLEAN,
           h \in HistorianState :
    /\ loop' = RunAll(l, p, n, b, h)
    /\ p = "open" => loop[l].pc = "exists"
    /\ p = "write" => h.ino # NoFile
    /\ p = "done" => h.pending = <<>> \/ unwritten'[l] # {}
    /\ Keeps(l, h) \/ (UNCHANGED bufVars /\ (Opens(l, h) \/ Writes(l, h)))
    /\ \A m \in Loops : unwritten[m] \subseteq unwritten'[m]
  BY DEF Effect
<1>2. Later(buf, pushes, buf', pushes')
  BY DEF NewRecordsOnly
<1>3. /\ loop'[l] = [pc |-> p, next |-> n, pre |-> b, h |-> h]
      /\ \A m \in Loops \ {l} : loop'[m] = loop[m]
  BY <1>0, <1>1, LoopMoved
<1>4. \A m \in Loops : Session(m, loop[m], fs.data, unwritten[m], buf, pushes)
  BY DEF Sessions
<1>5. \A m \in Loops : loop[m] \in LoopState /\ loop'[m] \in LoopState
  BY DEF TypeInv, CoreType
<1>6. loop'[l].h = h /\ loop'[l].pc = p /\ p \notin {"unborn", "exists"}
  BY <1>1, <1>3
\* What the others' sessions are once the files are as the step leaves them.
<1>7. ASSUME NEW m \in Loops \ {l}, Session(m, loop[m], fs'.data, unwritten[m], buf, pushes)
      PROVE  Session(m, loop'[m], fs'.data, unwritten'[m], buf', pushes')
  <2>1. loop[m].pc = "write" => loop[m].h.ino # NoFile
    BY <1>7 DEF Session, HistorianOk
  <2>2. loop'[m] = loop[m] /\ unwritten[m] \subseteq unwritten'[m] /\ loop[m] \in LoopState
    BY <1>1, <1>3, <1>5
  <2>r. Rests(loop[m], loop[m], unwritten[m], unwritten'[m])
    BY <2>1, <2>2 DEF Rests
  <2>3. Session(m, loop[m], fs'.data, unwritten'[m], buf', pushes')
    BY <1>0, <1>2, <1>7, <2>r, <2>2, SessionRests
  <2> QED BY <2>2, <2>3
<1>8. CASE Keeps(l, h)
  <2>1. h = loop[l].h /\ fs'.data = fs.data
    BY <1>8 DEF Keeps
  <2>2. ASSUME NEW m \in Loops \ {l}
        PROVE  Session(m, loop'[m], fs'.data, unwritten'[m], buf', pushes')
    BY <1>4, <1>7, <2>1
  <2>3. Session(l, loop'[l], fs.data, unwritten'[l], buf', pushes')
    <3>1. loop'[l].pc \in {"unborn", "exists", "open"} => loop[l].pc \in {"unborn", "exists", "open"}
      BY <1>1, <1>6
    <3>2. loop'[l].h = loop[l].h
      BY <1>6, <2>1
    <3>3. /\ loop'[l].pc = "write" => loop[l].h.ino # NoFile
          /\ loop'[l].pc = "done" => loop[l].pc = "done" \/ loop[l].h.pending = <<>> \/ unwritten'[l] # {}
      BY <1>1, <1>6, <2>1
    <3>4. Session(l, loop[l], fs.data, unwritten[l], buf, pushes) /\ unwritten[l] \subseteq unwritten'[l]
          /\ loop[l] \in LoopState /\ loop'[l] \in LoopState
      BY <1>1, <1>4, <1>5
    <3>5. Rests(loop[l], loop'[l], unwritten[l], unwritten'[l])
      BY <3>1, <3>2, <3>3, <3>4 DEF Rests
    <3> QED BY <1>0, <1>2, <3>4, <3>5, SessionRests
  <2> QED BY <2>1, <2>2, <2>3 DEF Sessions
<1>b. ASSUME UNCHANGED bufVars
      PROVE  buf' = buf /\ pushes' = pushes
  BY <1>b DEF bufVars
<1>9. CASE UNCHANGED bufVars /\ Opens(l, h)
  <2>1. /\ loop[l].pc = "open"
        /\ h.ino \in Loops /\ h.by = l /\ h.cursor = NoCursor /\ h.pending = <<>>
        /\ \/ fs'.data = fs.data
           \/ /\ fs'.data[h.ino] = Joined(fs.data[h.ino], <<Header>>)
              /\ \A j \in Loops \ {h.ino} : fs'.data[j] = fs.data[j]
    BY <1>9, Zenon DEF Opens, Joined
  <2>2. Session(l, loop'[l], fs'.data, unwritten'[l], buf', pushes')
    <3>1. p \notin {"unborn", "exists", "open"}
      BY <1>1, <1>6, <2>1
    <3>2. Session(l, loop'[l], fs'.data, unwritten'[l], buf, pushes)
      BY <1>0, <1>4, <1>5, <1>6, <2>1, <3>1, SessionOpens
    <3> QED BY <1>9, <1>b, <3>2
  <2>3. ASSUME NEW m \in Loops \ {l}
        PROVE  Session(m, loop'[m], fs'.data, unwritten'[m], buf', pushes')
    <3>1. CASE fs'.data = fs.data
      BY <1>4, <1>7, <3>1
    <3>2. CASE /\ fs'.data[h.ino] = Joined(fs.data[h.ino], <<Header>>)
               /\ \A j \in Loops \ {h.ino} : fs'.data[j] = fs.data[j]
      <4> DEFINE R == <<Header>>
      <4>1. R \in Seq(Row) /\ \A i \in DOMAIN R : R[i].by # m
        BY DEF Header, Row, Loops
      <4>2. fs'.data[h.ino] = Joined(fs.data[h.ino], R)
        BY <3>2
      <4> HIDE DEF R
      <4>s. Shares(fs.data, fs'.data, m, h.ino, R)
        BY <2>1, <3>2, <4>1, <4>2 DEF Shares
      <4>3. Session(m, loop[m], fs'.data, unwritten[m], buf, pushes)
        BY <1>0, <1>4, <1>5, <4>s, SessionShares
      <4> QED BY <1>7, <4>3
    <3> QED BY <2>1, <3>1, <3>2
  <2> QED BY <2>2, <2>3, Zenon DEF Sessions
<1>10. CASE UNCHANGED bufVars /\ Writes(l, h)
  <2> DEFINE f == loop[l].h.ino
  <2>1. f \in Loops
    BY <1>10 DEF Writes
  <2>2. PICK F \in Seq(Row), R \in Seq(Row), P \in Seq(Row), Rest \in Seq(Row), e \in Cursor :
          /\ Comes(F, loop[l].h.by, buf, loop[l].h.cursor, e)
          /\ Regroups(R, P, Rest, loop[l].h.pending, F)
          /\ Rest # <<>> => unwritten'[l] # {}
          /\ fs' = Appended(fs, loop[l].h.ino, R)
          /\ h = [ino |-> loop[l].h.ino, by |-> loop[l].h.by, cursor |-> e, pending |-> P]
    BY <1>10, ZenonT(40) DEF Writes
  <2>3. /\ fs'.data[f] = Joined(fs.data[f], R)
        /\ \A j \in Loops \ {f} : fs'.data[j] = fs.data[j]
    <3>1. /\ Appended(fs, f, R).data[f] = fs.data[f] \o R
          /\ \A j \in Loops \ {f} : Appended(fs, f, R).data[j] = fs.data[j]
      <4>1. fs \in FileSystem
        BY <1>0
      <4> HIDE DEF f
      <4> QED BY <2>1, <4>1, AppendedShape
    <3> QED BY <2>2, <3>1, ZenonT(40) DEF Joined
  <2>4. /\ Session(l, loop'[l], fs'.data, unwritten'[l], buf, pushes)
        /\ OwnedBy(R, l)
    <3>1. h.pending = P
      BY <2>2
    <3>2. p \notin {"unborn", "exists", "open"}
      <4>1. loop[l].pc = "exists" => loop[l].h.ino = NoFile
        BY <1>4 DEF Session, HistorianOk
      <4> QED BY <1>1, <1>6, <2>1, <4>1 DEF Loops, NoFile
    <3>3. p = "done" => P = <<>> \/ unwritten'[l] # {}
      BY <1>1, <3>1
    <3>4. Session(l, loop[l], fs.data, unwritten[l], buf, pushes) /\ unwritten[l] \subseteq unwritten'[l]
          /\ loop[l] \in LoopState /\ loop'[l] \in LoopState
      BY <1>1, <1>4, <1>5
    <3>5. loop'[l].h = [ino |-> loop[l].h.ino, by |-> loop[l].h.by, cursor |-> e, pending |-> P]
      BY <1>6, <2>2
    <3>6. MovesOn(loop[l], loop'[l], fs.data, fs'.data, unwritten[l], unwritten'[l], buf, R)
      BY <1>6, <2>1, <2>2, <2>3, <3>2, <3>3, <3>4, <3>5 DEF MovesOn
    <3> QED BY <1>0, <3>4, <3>6, SessionWrites
  <2>5. ASSUME NEW m \in Loops \ {l}
        PROVE  Session(m, loop'[m], fs'.data, unwritten'[m], buf', pushes')
    <3>1. \A i \in DOMAIN R : R[i].by # m
      BY <2>4 DEF OwnedBy
    <3>s. Shares(fs.data, fs'.data, m, f, R)
      BY <2>1, <2>3, <3>1 DEF Shares
    <3>2. Session(m, loop[m], fs'.data, unwritten[m], buf, pushes)
      BY <1>0, <1>4, <1>5, <3>s, SessionShares
    <3> QED BY <1>7, <3>2
  <2> QED BY <1>10, <1>b, <2>4, <2>5 DEF Sessions
<1> QED BY <1>1, <1>8, <1>9, <1>10

-------------------------------------------------------------------------------
(* The L0 demo: a batch is of as many records as it has numbers, and none  *)
(* of them was given before.                                               *)
BatchNumbers(b, c) == {FreshRows(b, c)[i].n : i \in DOMAIN FreshRows(b, c)}

\* A batch has as many numbers as rows, all ahead of its cursor.
LEMMA BatchCounts ==
  ASSUME NEW b \in Seq(Rec), Numbered(b), NEW c \in Cursor
  PROVE  /\ BatchNumbers(b, c) \in SUBSET Nat /\ IsFiniteSet(BatchNumbers(b, c))
         /\ Cardinality(BatchNumbers(b, c)) = Len(FreshRows(b, c))
         /\ \A n \in BatchNumbers(b, c) : \E k \in DOMAIN b : n = b[k].n /\ b[k].id > c
<1> DEFINE q == FreshRows(b, c)
           N == BatchNumbers(b, c)
           f == [i \in 1 .. Len(q) |-> q[i].n]
<1>1. /\ q \in Seq(Rec)
      /\ \A i \in DOMAIN q : \E k \in DOMAIN b : q[i] = b[k] /\ b[k].id > c
      /\ \A i, j \in DOMAIN q : i < j => q[i].id <= q[j].id /\ q[i].n # q[j].n
  BY FreshShape
<1>2. N = {q[i].n : i \in DOMAIN q}
  BY DEF BatchNumbers
<1> HIDE DEF q, N
<1>3. DOMAIN q = 1 .. Len(q) /\ Len(q) \in Nat /\ \A i \in DOMAIN q : q[i].n \in Nat
  <2>1. DOMAIN q = 1 .. Len(q) /\ Len(q) \in Nat /\ \A i \in DOMAIN q : q[i] \in Rec
    BY <1>1
  <2>2. \A t \in Rec : t.n \in Nat
    BY DEF Rec
  <2> QED BY <2>1, <2>2
<1>4. f \in Injection(1 .. Len(q), N)
  <2>1. f \in [1 .. Len(q) -> N]
    BY <1>2, <1>3
  <2>2. ASSUME NEW i \in 1 .. Len(q), NEW j \in 1 .. Len(q), f[i] = f[j]
        PROVE  i = j
    <3>1. q[i].n = q[j].n
      BY <2>2
    <3>2. ~(i < j) /\ ~(j < i)
      BY <1>1, <1>3, <3>1
    <3> QED BY <1>3, <3>2
  <2> QED BY <2>1, <2>2 DEF Injection, IsInjective
<1>5. f \in Surjection(1 .. Len(q), N)
  BY <1>2, <1>3 DEF Surjection
<1>6. f \in Bijection(1 .. Len(q), N)
  BY <1>4, <1>5 DEF Bijection
<1>7. IsFiniteSet(1 .. Len(q)) /\ Cardinality(1 .. Len(q)) = Len(q)
  <2>1. \A k \in Nat : IsFiniteSet(1 .. k) /\ Cardinality(1 .. k) = k
    BY FS_Interval
  <2> QED BY <1>3, <2>1
<1> HIDE DEF f
<1>8. IsFiniteSet(N) /\ Cardinality(N) = Len(q)
  BY <1>6, <1>7, FS_Bijection DEF ExistsBijection
<1>9. N \in SUBSET Nat
  BY <1>2, <1>3
<1>10. \A n \in N : \E k \in DOMAIN b : n = b[k].n /\ b[k].id > c
  BY <1>1, <1>2
<1> QED BY <1>8, <1>9, <1>10 DEF q, N

\* The L0 demo's read keeps the types and counts no record again.
LEMMA ReadL0Keeps ==
  ASSUME TypeInv, ReadL0
  PROVE  /\ TypeInv' /\ NewRecordsOnly
         /\ UNCHANGED <<fs, unwritten, loop, seen, client, stopped, env, running, handle>>
         /\ L0Inv => L0Inv'
<1> DEFINE q == FreshRows(buf, l0.cursor)
           e == CursorAfter(buf, l0.cursor)
           N == BatchNumbers(buf, l0.cursor)
<1>1. /\ buf \in Seq(Rec) /\ Numbered(buf) /\ pushes \in Nat
      /\ l0.cursor \in Cursor /\ l0.total \in Nat
      /\ l0got \in SUBSET Nat
      /\ \A k \in DOMAIN buf : buf[k].n <= pushes
  BY DEF TypeInv, CoreType, DataType, BufInv
<1>2. /\ q # <<>>
      /\ l0' = [cursor |-> e, last |-> q[Len(q)].id, total |-> l0.total + Len(q)]
      /\ l0got' = l0got \cup N
  BY DEF ReadL0, L0Total, BatchNumbers
<1>3. UNCHANGED <<buf, pushes, running, handle, ticksEmitted, tamperCount, loop, client, fs,
                  unwritten, vendor, seen, stopped, env>>
  BY DEF ReadL0, bufVars, fileVars, muVars
<1>4. e \in Cursor /\ \A k \in DOMAIN buf : buf[k].id <= e
  BY <1>1, CursorShape
<1>5. /\ N \in SUBSET Nat /\ IsFiniteSet(N) /\ Cardinality(N) = Len(q)
      /\ \A n \in N : \E k \in DOMAIN buf : n = buf[k].n /\ buf[k].id > l0.cursor
  BY <1>1, BatchCounts
<1>6. q \in Seq(Rec)
  BY <1>1, FreshShape
<1> HIDE DEF q, e, N
<1>7. Len(q) \in Nat /\ q[Len(q)] \in Rec
  <2>1. Len(q) \in Nat /\ DOMAIN q = 1 .. Len(q) /\ Len(q) # 0
    BY <1>2, <1>6
  <2>2. Len(q) \in DOMAIN q
    BY <2>1
  <2> QED BY <1>6, <2>1, <2>2
<1>8. l0' \in [cursor : Cursor, last : Nat, total : Nat]
  <2>1. \A t \in Rec : t.id \in Nat
    BY DEF Rec
  <2>2. q[Len(q)].id \in Nat /\ l0.total + Len(q) \in Nat
    BY <1>1, <1>7, <2>1
  <2> QED BY <1>2, <1>4, <2>2
<1>9. l0got' \in SUBSET Nat
  BY <1>1, <1>2, <1>5
<1>10. TypeInv'
  BY <1>3, <1>8, <1>9 DEF TypeInv, CoreType, DataType, BufInv, Carries, At
<1>11. NewRecordsOnly
  BY <1>3, SameBuffer DEF TypeInv, bufVars
<1>12. ASSUME L0Inv PROVE L0Inv'
  <2>1. /\ \A m \in l0got : m <= pushes
        /\ \A k \in DOMAIN buf : buf[k].id > l0.cursor => buf[k].n \notin l0got
        /\ l0.total = Cardinality(l0got)
    BY <1>12 DEF L0Inv
  <2>2. \A m \in N : m <= pushes
    BY <1>1, <1>5
  <2>3. IsFiniteSet(l0got)
    <3>1. l0got \in SUBSET (0 .. pushes)
      BY <1>1, <2>1
    <3>2. IsFiniteSet(0 .. pushes)
      BY <1>1, FS_Interval
    <3> QED BY <3>1, <3>2, FS_Subset
  <2>4. l0got \cap N = {}
    BY <1>5, <2>1
  <2>5. Cardinality(l0got \cup N) = Cardinality(l0got) + Cardinality(N)
    <3>1. Cardinality(l0got \cup N) =
            Cardinality(l0got) + Cardinality(N) - Cardinality(l0got \cap N)
      BY <1>5, <2>3, FS_Union
    <3>2. Cardinality(l0got \cap N) = 0
      BY <2>4, FS_EmptySet
    <3>3. Cardinality(l0got) \in Nat /\ Cardinality(N) \in Nat
      BY <1>5, <2>3, FS_CardinalityType
    <3> QED BY <3>1, <3>2, <3>3
  <2>6. l0'.total = Cardinality(l0got')
    BY <1>2, <1>5, <2>1, <2>5
  <2>7. \A m \in l0got' : m <= pushes'
    BY <1>2, <1>3, <2>1, <2>2
  <2>8. \A k \in DOMAIN buf' : ~(buf'[k].id > l0'.cursor)
    <3>1. l0'.cursor = e /\ buf' = buf
      BY <1>2, <1>3
    <3>2. \A k \in DOMAIN buf : buf[k].id \in Int
      <4>1. \A t \in Rec : t.id \in Nat
        BY DEF Rec
      <4> QED BY <1>1, <4>1
    <3>3. e \in Int
      BY <1>4 DEF Cursor, NoCursor
    <3> QED BY <1>4, <3>1, <3>2, <3>3
  <2> QED BY <2>6, <2>7, <2>8 DEF L0Inv
<1> QED BY <1>3, <1>10, <1>11, <1>12

\* What nobody else does to it.
LEMMA L0Rests ==
  ASSUME TypeInv, L0Inv, NewRecordsOnly, UNCHANGED <<l0, l0got>>
  PROVE  L0Inv'
<1>1. l0got \in SUBSET Nat /\ pushes \in Nat
  BY DEF TypeInv, CoreType, DataType
<1>2. /\ buf' \in Seq(Rec) /\ pushes' \in Nat /\ pushes <= pushes'
      /\ \A k \in DOMAIN buf' : buf'[k].n > pushes \/ \E j \in DOMAIN buf : buf'[k] = buf[j]
  BY DEF NewRecordsOnly, Later
<1>3. /\ \A m \in l0got : m <= pushes
      /\ \A k \in DOMAIN buf : buf[k].id > l0.cursor => buf[k].n \notin l0got
      /\ l0.total = Cardinality(l0got)
  BY DEF L0Inv
<1>4. \A m \in l0got : m <= pushes'
  BY <1>1, <1>2, <1>3
<1>5. ASSUME NEW k \in DOMAIN buf', buf'[k].id > l0.cursor PROVE buf'[k].n \notin l0got
  <2>1. CASE buf'[k].n > pushes
    BY <1>1, <1>3, <2>1
  <2>2. CASE \E j \in DOMAIN buf : buf'[k] = buf[j]
    BY <1>3, <1>5, <2>2
  <2> QED BY <1>2, <2>1, <2>2
<1> QED BY <1>3, <1>4, <1>5 DEF L0Inv

-------------------------------------------------------------------------------
\* Nothing has run at the start.
LEMMA TypeInit == Init => TypeInv /\ Sessions /\ L0Inv
<1> SUFFICES ASSUME Init PROVE TypeInv /\ Sessions /\ L0Inv
  OBVIOUS
<1>1. NoHistorian \in HistorianState
  BY DEF NoHistorian, HistorianState, NoLoop, NoFile, File, Cursor
<1>2. loop \in [Loops -> LoopState]
  <2>1. [pc |-> "unborn", next |-> 0, pre |-> FALSE, h |-> NoHistorian] \in LoopState
    BY <1>1 DEF LoopState, LoopPcs
  <2> QED BY <2>1 DEF Init
<1>3. client \in [Clients -> HandlerState] /\ \A c \in Clients : Carries(c)
  <2>1. client = [c \in Clients |-> [pc |-> "idle", arg |-> 0, alive |-> {}]]
    BY DEF Init
  <2>2. [pc |-> "idle", arg |-> 0, alive |-> {}] \in HandlerState
    BY DEF HandlerState, HandlerPcs
  <2> QED BY <2>1, <2>2 DEF Carries, At
<1>4. fs \in FileSystem /\ \A l \in Loops : fs.data[l] = <<>>
  <2>1. fs = [named |-> NoFile, data |-> [i \in Loops |-> <<>>]]
    BY DEF Init, EmptyDisk
  <2>2. [i \in Loops |-> <<>>] \in [Loops -> Seq(Row)]
    OBVIOUS
  <2> QED BY <2>1, <2>2 DEF FileSystem, File
<1>5. CoreType
  <2>1. buf \in Seq(Rec) /\ Len(buf) <= Capacity
    <3>1. <<>> \in Seq(Rec) /\ Len(<<>>) <= Capacity
      BY CapacityAssumption
    <3> QED BY <3>1 DEF Init
  <2>2. handle \in File
    BY DEF Init, File, NoLoop, NoFile
  <2>3. running \in BOOLEAN /\ ticksEmitted \in Nat /\ pushes \in Nat /\ env \in Environments
    BY DEF Init
  <2> QED BY <1>2, <1>3, <2>1, <2>2, <2>3 DEF CoreType
<1>6. DataType
  BY <1>4 DEF Init, DataType, Svids, Cursor
<1>7. BufInv
  BY DEF Init, BufInv, Numbered
<1>8. Sessions
  <2> SUFFICES ASSUME NEW l \in Loops
               PROVE  Session(l, loop[l], fs.data, unwritten[l], buf, pushes)
    BY DEF Sessions
  <2>1. loop[l].pc = "unborn" /\ loop[l].h = NoHistorian
    BY DEF Init
  <2>2. /\ NoHistorian.ino = NoFile /\ NoHistorian.cursor = NoCursor
        /\ NoHistorian.pending = <<>>
    BY DEF NoHistorian
  <2>3. Rows(loop[l].h, fs.data) = <<>>
    BY <2>1, <2>2 DEF Rows
  <2>4. HistorianOk(l, loop[l], fs.data)
    BY <1>4, <2>1, <2>2 DEF HistorianOk
  <2>5. Behind(<<>>, l, buf, pushes, loop[l].h.cursor)
    BY DEF Behind
  <2>6. LastOk(l, loop[l], fs.data, unwritten[l])
    BY <2>1, <2>2 DEF LastOk
  <2> QED BY <2>3, <2>4, <2>5, <2>6 DEF Session
<1>9. L0Inv
  BY FS_EmptySet DEF Init, L0Inv
<1> QED BY <1>5, <1>6, <1>7, <1>8, <1>9 DEF TypeInv

(* One step of anyone.                                                     *)
LEMMA TypeStep ==
  ASSUME TypeInv, Sessions, [Next]_vars
  PROVE  TypeInv' /\ Sessions' /\ (L0Inv => L0Inv')
<1>1. ASSUME NEW c \in Clients, Request(c) \/ HandlerStep(c)
      PROVE  TypeInv' /\ Sessions' /\ (L0Inv => L0Inv')
  <2>1. TypeInv'
    BY <1>1, HandlersKeepTypes
  <2>2. /\ UNCHANGED <<unwritten, l0, l0got>> /\ fs'.data = fs.data
        /\ UNCHANGED loop \/ \E l \in Unborn : loop' = RunPc(l, "exists")
        /\ NewRecordsOnly
    BY <1>1, HandlersTouch
  <2>3. Sessions'
    BY <2>1, <2>2, QuietKeepsSessions
  <2>4. L0Inv => L0Inv'
    BY <2>2, L0Rests
  <2> QED BY <2>1, <2>3, <2>4
<1>2. ASSUME NEW l \in Loops, LoopStep(l)
      PROVE  TypeInv' /\ Sessions' /\ (L0Inv => L0Inv')
  <2>1. Effect(l)
    BY <1>2, LoopEffects
  <2>2. TypeInv' /\ NewRecordsOnly
    BY <2>1, LoopsKeepTypes
  <2>3. Sessions'
    BY <2>1, <2>2, LoopsKeepSessions
  <2>4. UNCHANGED <<l0, l0got>>
    BY <2>1 DEF Effect
  <2>5. L0Inv => L0Inv'
    BY <2>2, <2>4, L0Rests
  <2> QED BY <2>2, <2>3, <2>5
<1>3. CASE ReadL0
  <2>1. /\ TypeInv' /\ NewRecordsOnly /\ UNCHANGED <<fs, unwritten, loop>>
        /\ L0Inv => L0Inv'
    BY <1>3, ReadL0Keeps
  <2>2. Sessions'
    BY <2>1, QuietKeepsSessions
  <2> QED BY <2>1, <2>2
<1>4. CASE UNCHANGED vars
  <2>1. UNCHANGED <<buf, pushes, fs, unwritten, loop, l0, l0got>>
    BY <1>4 DEF vars
  <2>2. TypeInv'
    BY <1>4 DEF TypeInv, CoreType, DataType, BufInv, Carries, At, vars
  <2>3. NewRecordsOnly
    BY <2>1, SameBuffer DEF TypeInv, bufVars
  <2>4. Sessions'
    BY <2>1, <2>2, <2>3, QuietKeepsSessions
  <2>5. L0Inv => L0Inv'
    BY <2>1, <2>3, L0Rests
  <2> QED BY <2>2, <2>4, <2>5
<1> QED BY <1>1, <1>2, <1>3, <1>4 DEF Next

(* The types and the sessions, in every behaviour.                         *)
LEMMA AlwaysTyped == Spec => [](TypeInv /\ Sessions)
<1>1. Init => TypeInv /\ Sessions
  BY TypeInit
<1>2. TypeInv /\ Sessions /\ [Next]_vars => (TypeInv /\ Sessions)'
  BY TypeStep
<1> QED BY <1>1, <1>2, PTL DEF Spec

(* RowsInOrder: whatever the disk refuses, whoever shares the file and     *)
(* however often it is removed under its writers, the rows of one session  *)
(* never go back in id and no record is there twice (svdc-historian:       *)
(* lib.rs tick writes the batch of read_since after moving its cursor).    *)
(* The cursor is at or past every row of the session, and no record still  *)
(* ahead of it in the buffer is a row: the batch goes after them all.      *)
THEOREM RowsStayInOrder == Spec => []RowsInOrder
<1>1. TypeInv /\ Sessions => RowsInOrder
  <2> SUFFICES ASSUME TypeInv, Sessions, NEW l \in Loops,
                      NEW i \in DOMAIN Written(l), NEW j \in DOMAIN Written(l),
                      i < j, Written(l)[i].by = l, Written(l)[j].by = l
               PROVE  /\ Written(l)[i].id <= Written(l)[j].id
                      /\ Written(l)[i].n # Written(l)[j].n
    BY ZenonT(40) DEF RowsInOrder
  <2>1. Written(l) = Rows(loop[l].h, fs.data)
    BY DEF Written, Rows, Joined
  <2>2. Behind(Rows(loop[l].h, fs.data), l, buf, pushes, loop[l].h.cursor)
    BY DEF Sessions, Session
  <2>3. Behind(Written(l), l, buf, pushes, loop[l].h.cursor)
    BY <2>1, <2>2
  <2> QED BY <2>3 DEF Behind
<1> QED BY <1>1, AlwaysTyped, PTL

(* NothingLeftBehind: when a loop's task is over and no write of its       *)
(* session failed, every row up to the last tick its cursor passed is in   *)
(* the file: the flush after the loop (dataplane/mod.rs) empties the       *)
(* BufWriter, and the cursor only moves to the id of a batch's last row.   *)
THEOREM NothingStaysBehind == Spec => []NothingLeftBehind
<1>1. TypeInv /\ Sessions => NothingLeftBehind
  <2> SUFFICES ASSUME TypeInv, Sessions, NEW l \in Loops, loop[l].pc = "done",
                      loop[l].h.cursor # NoCursor, unwritten[l] = {}
               PROVE  /\ loop[l].h.pending = <<>>
                      /\ \E row \in Range(fs.data[loop[l].h.ino]) :
                           row.by = l /\ row.id = loop[l].h.cursor
    BY DEF NothingLeftBehind
  <2> DEFINE h == loop[l].h
             d == fs.data[h.ino]
  <2>1. h.pending = <<>> /\ Reaches(Rows(h, fs.data), l, h.cursor)
    BY DEF Sessions, Session, LastOk
  <2>2. h.ino # NoFile
    <3>1. h.ino = NoFile => h.cursor = NoCursor
      BY DEF Sessions, Session, HistorianOk, NoHistorian
    <3> QED BY <3>1
  <2>3. d \in Seq(Row)
    BY <2>2 DEF TypeInv, CoreType, DataType, LoopState, HistorianState, File, FileSystem
  <2>4. Rows(h, fs.data) = d
    <3>1. Joined(d, <<>>) = d
      BY <2>3, JoinedAssociates
    <3> QED BY <2>1, <2>2, <3>1 DEF Rows
  <2> HIDE DEF d, h
  <2>5. \E i \in DOMAIN d : d[i].by = l /\ d[i].id = h.cursor
    BY <2>1, <2>4 DEF Reaches
  <2>6. \E row \in Range(d) : row.by = l /\ row.id = h.cursor
    BY <2>5 DEF Range
  <2> QED BY <2>1, <2>6 DEF d, h
<1> QED BY <1>1, AlwaysTyped, PTL

(* L0CountsOnce: no record is counted twice by the L0 demo.  What is still *)
(* ahead of its cursor in the buffer it was not given yet, and a record    *)
(* pushed later carries a number it cannot have seen.                      *)
THEOREM L0NeverCountsTwice == Spec => []L0CountsOnce
<1>1. Init => TypeInv /\ Sessions /\ L0Inv
  BY TypeInit
<1>2. TypeInv /\ Sessions /\ L0Inv /\ [Next]_vars => (TypeInv /\ Sessions /\ L0Inv)'
  BY TypeStep
<1>3. L0Inv => L0CountsOnce
  BY DEF L0Inv, L0CountsOnce
<1> QED BY <1>1, <1>2, <1>3, PTL DEF Spec

-------------------------------------------------------------------------------
(* A loop's step starts no loop, and a handler's leaves them alone.        *)
LEMMA LoopStepsAlive ==
  ASSUME TypeInv, NEW l \in Loops, Effect(l)
  PROVE  Alive' \subseteq Alive /\ Unborn' = Unborn
<1>1. PICK p \in LoopPcs \ {"unborn", "exists"}, n \in Nat, b \in BOOLEAN,
           h \in HistorianState :
        loop' = RunAll(l, p, n, b, h) /\ loop[l].pc \notin {"unborn", "done"}
  BY DEF Effect
<1>2. loop \in [Loops -> LoopState]
  BY DEF TypeInv, CoreType
<1>3. loop'[l].pc = p /\ \A m \in Loops \ {l} : loop'[m] = loop[m]
  BY <1>1, <1>2 DEF RunAll
<1> QED BY <1>1, <1>3 DEF Alive, Unborn

\* A step of the lone operator, put together from what it does to his locals.
LEMMA OperatorMoves ==
  ASSUME TypeInv, StopInv, NEW o \in Clients, env.clients = {o}, env.impatient = {},
         UNCHANGED env, NEW p \in HandlerPcs, NEW a \in Nat, NEW v \in SUBSET Loops,
         client' = GoAll(o, p, a, v), v \cap Unborn' = {},
         stopped' \cap (Alive' \cup Unborn') = {},
         Within(p, a, running', handle', Alive')
  PROVE  StopInv'
<1>1. client \in [Clients -> HandlerState]
  BY DEF TypeInv, CoreType
<1>2. /\ client'[o] = [pc |-> p, arg |-> a, alive |-> v]
      /\ \A d \in Clients \ {o} : client'[d] = client[d]
  BY <1>1 DEF GoAll
<1>3. \A c \in Clients \ {o} : At(c, "idle")
  BY DEF StopInv
<1>4. \A c \in Clients \ {o} : At(c, "idle")'
  BY <1>2, <1>3 DEF At
<1>5. client'[o].pc = p /\ client'[o].arg = a /\ client'[o].alive = v
  BY <1>2
<1> QED BY <1>4, <1>5 DEF StopInv

\* The one patient operator's handler knows where the loops are at each step.
LEMMA HandlersStop ==
  ASSUME TypeInv, StopInv, NEW c \in Clients, Request(c) \/ HandlerStep(c)
  PROVE  StopInv'
<1> SUFFICES ASSUME NEW o \in Clients, env.clients = {o}, env.impatient = {}
             PROVE  StopInv'
  <2>1. UNCHANGED env
    BY HandlersTouch
  <2> QED BY <2>1 DEF StopInv
<1>e. UNCHANGED env
  BY HandlersTouch
<1>t. /\ client \in [Clients -> HandlerState] /\ handle \in File /\ stopped \in SUBSET Loops
      /\ running \in BOOLEAN /\ ticksEmitted \in Nat /\ loop \in [Loops -> LoopState]
      /\ client[c].arg \in Nat /\ client[c].alive \in SUBSET Loops
  BY DEF TypeInv, CoreType, DataType, HandlerState
<1>h. handle \in Nat /\ NoLoop \in Nat /\ NoLoop \notin Loops /\ TamperBase \in Nat
  BY <1>t, PipelineAssumption DEF File, Loops, NoFile, NoLoop
<1>p. {"idle", "restore", "spawn", "keep", "take", "join", "tamper", "tampered", "reset",
       "zero", "zerotampers", "remove"} \subseteq HandlerPcs
  BY DEF HandlerPcs
<1>i. /\ \A d \in Clients \ {o} : At(d, "idle")
      /\ stopped \cap (Alive \cup Unborn) = {}
      /\ client[o].alive \cap Unborn = {}
      /\ Within(client[o].pc, client[o].arg, running, handle, Alive)
  BY DEF StopInv
<1>l. UNCHANGED loop => Alive' = Alive /\ Unborn' = Unborn
  BY DEF Alive, Unborn
<1>d. Alive \in SUBSET Loops /\ Unborn \in SUBSET Loops /\ Alive \cap Unborn = {}
  BY DEF Alive, Unborn
<1>o. c = o
  <2>1. Request(c) => c = o
    BY DEF Request
  <2>2. HandlerStep(c) => ~At(c, "idle")
    BY DEF HandlerStep, StoreTrue, Spawn, KeepHandle, TakeHandle, Join, TamperPush, TamperTally,
           ResetPop, ResetTicks, ResetTampers, ResetFile, At
  <2> QED BY <1>i, <2>1, <2>2
<1>m. /\ \A p \in HandlerPcs : GoPc(c, p) = GoAll(c, p, client[c].arg, client[c].alive)
      /\ \A p \in HandlerPcs, a \in Nat : GoPcArg(c, p, a) = GoAll(c, p, a, client[c].alive)
  <2>1. \A p \in HandlerPcs : GoPc(c, p) = GoAll(c, p, client[c].arg, client[c].alive)
    BY <1>t, HandlerMoves
  <2>2. \A p \in HandlerPcs, a \in Nat : GoPcArg(c, p, a) = GoAll(c, p, a, client[c].alive)
    BY <1>t, HandlerMoves, ZenonT(40)
  <2> QED BY <2>1, <2>2
\* The steps outside of start and stop.
<1>w. ASSUME NEW p \in HandlerPcs \ {"spawn", "keep", "take", "join"}, NEW a \in Nat,
             client[c].pc \notin {"spawn", "keep", "take", "join"},
             client' = GoAll(c, p, a, client[c].alive),
             UNCHANGED <<running, handle, loop, stopped>>
      PROVE  StopInv'
  <2>1. Within(p, a, running, handle, Alive)
    BY <1>i, <1>o, <1>w DEF Within
  <2>2. Within(p, a, running', handle', Alive')
    BY <1>l, <1>w, <2>1
  <2> QED BY <1>e, <1>i, <1>l, <1>o, <1>t, <1>w, <2>2, OperatorMoves
<1>1. CASE Start(c)
  <2> DEFINE p == IF running THEN "restore" ELSE "spawn"
  <2>1. At(c, "idle") /\ client' = GoPc(c, p) /\ running' = TRUE /\ UNCHANGED <<handle, loop, stopped>>
    BY <1>1 DEF Start, Goto, GoPc
  <2>2. p \in HandlerPcs
    BY <1>p
  <2>3. Within(p, client[c].arg, TRUE, handle, Alive)
    BY <1>t, <1>i, <1>o, <2>1 DEF Within, At
  <2> HIDE DEF p
  <2>4. client' = GoAll(c, p, client[c].arg, client[c].alive)
    BY <1>m, <2>1, <2>2
  <2>5. Within(p, client[c].arg, running', handle', Alive')
    BY <1>l, <2>1, <2>3
  <2> QED BY <1>e, <1>i, <1>l, <1>o, <1>t, <2>1, <2>2, <2>4, <2>5, OperatorMoves
<1>2. CASE StoreTrue(c)
  <2>1. At(c, "restore") /\ client' = GoPc(c, "idle") /\ running' = TRUE /\ UNCHANGED <<handle, loop, stopped>>
    BY <1>2 DEF StoreTrue, Goto, GoPc
  <2>3. Within("idle", client[c].arg, TRUE, handle, Alive)
    BY <1>t, <1>i, <1>o, <2>1 DEF Within, At
  <2>4. client' = GoAll(c, "idle", client[c].arg, client[c].alive)
    BY <1>m, <1>p, <2>1
  <2>5. Within("idle", client[c].arg, running', handle', Alive')
    BY <1>l, <2>1, <2>3
  <2> QED BY <1>e, <1>i, <1>l, <1>o, <1>p, <1>t, <2>1, <2>4, <2>5, OperatorMoves
<1>3. CASE Spawn(c)
  <2>1. PICK l \in Loops :
          /\ At(c, "spawn") /\ l \in Unborn /\ loop' = [loop EXCEPT ![l].pc = "exists"]
          /\ client' = GoPcArg(c, "keep", l) /\ UNCHANGED <<running, handle, stopped>>
    BY <1>3 DEF Spawn, LoopGoto, GoPcArg
  <2>2. l \in Nat
    BY DEF Loops
  <2>3. Alive' = Alive \cup {l} /\ Unborn' = Unborn \ {l}
    <3>1. \A m \in Loops : loop'[m].pc = IF m = l THEN "exists" ELSE loop[m].pc
      BY <1>t, <2>1 DEF LoopState
    <3> QED BY <2>1, <3>1 DEF Alive, Unborn
  <2>4. running /\ Alive = {}
    BY <1>i, <1>o, <2>1 DEF Within, At
  <2>5. Within("keep", l, running', handle', Alive')
    BY <2>1, <2>3, <2>4 DEF Within
  <2>6. client' = GoAll(c, "keep", l, client[c].alive)
    BY <1>m, <1>p, <2>1, <2>2
  <2>7. client[c].alive \cap Unborn' = {} /\ stopped' \cap (Alive' \cup Unborn') = {}
    BY <1>i, <1>o, <2>1, <2>3, <2>4
  <2> QED BY <1>e, <1>o, <1>p, <1>t, <2>2, <2>5, <2>6, <2>7, OperatorMoves
<1>4. CASE KeepHandle(c)
  <2>1. /\ At(c, "keep") /\ client' = GoPcArg(c, "idle", 0) /\ handle' = client[c].arg
        /\ UNCHANGED <<running, loop, stopped>>
    BY <1>4 DEF KeepHandle, GoPcArg
  <2>3. Within("idle", 0, running, client[c].arg, Alive)
    BY <1>t, <1>i, <1>o, <2>1 DEF Within, At
  <2>4. client' = GoAll(c, "idle", 0, client[c].alive)
    BY <1>m, <1>p, <2>1
  <2>5. Within("idle", 0, running', handle', Alive')
    BY <1>l, <2>1, <2>3
  <2> QED BY <1>e, <1>i, <1>l, <1>o, <1>p, <1>t, <2>1, <2>4, <2>5, OperatorMoves
<1>5. CASE Stop(c)
  <2>1. /\ At(c, "idle") /\ running /\ running' = FALSE /\ client' = GoAll(c, "take", NoLoop, Alive)
        /\ UNCHANGED <<handle, loop, stopped>>
    BY <1>5 DEF Stop, GoAll
  <2>3. Within("take", NoLoop, FALSE, handle, Alive)
    BY <1>t, <1>i, <1>o, <2>1 DEF Within, At
  <2>5. Within("take", NoLoop, running', handle', Alive')
    BY <1>l, <2>1, <2>3
  <2> QED BY <1>d, <1>e, <1>h, <1>i, <1>l, <1>o, <1>p, <1>t, <2>1, <2>5, OperatorMoves
<1>6. CASE TakeHandle(c)
  <2>1. /\ At(c, "take") /\ handle' = NoLoop /\ client' = GoPcArg(c, "join", handle)
        /\ UNCHANGED <<running, loop, stopped>>
    BY <1>6 DEF TakeHandle, GoPcArg
  <2>3. Within("join", handle, running, NoLoop, Alive)
    BY <1>t, <1>i, <1>o, <2>1 DEF Within, At
  <2>4. client' = GoAll(c, "join", handle, client[c].alive)
    BY <1>m, <1>p, <1>h, <2>1
  <2>5. Within("join", handle, running', handle', Alive')
    BY <1>l, <2>1, <2>3
  <2> QED BY <1>e, <1>h, <1>i, <1>l, <1>o, <1>p, <1>t, <2>1, <2>4, <2>5, OperatorMoves
<1>7. CASE Join(c)
  <2>1. /\ At(c, "join") /\ Joinable(client[c].arg) /\ stopped' = stopped \cup client[c].alive
        /\ client' = GoAll(c, "idle", 0, {}) /\ UNCHANGED <<running, handle, loop>>
    BY <1>7 DEF Join, GoAll
  <2>2. Alive = {}
    <3>1. Alive \subseteq {client[c].arg}
      BY <1>i, <1>o, <2>1 DEF Within, At
    <3>2. client[c].arg \notin Alive
      BY <1>h, <2>1 DEF Joinable, Alive
    <3> QED BY <3>1, <3>2
  <2>3. stopped' \cap (Alive' \cup Unborn') = {}
    BY <1>i, <1>l, <1>o, <2>1, <2>2
  <2>4. Within("idle", 0, running', handle', Alive')
    BY <1>l, <2>1, <2>2 DEF Within
  <2>5. {} \cap Unborn' = {} /\ {} \in SUBSET Loops /\ 0 \in Nat
    OBVIOUS
  <2> QED BY <1>e, <1>o, <1>p, <2>1, <2>3, <2>4, <2>5, OperatorMoves
<1>8. CASE HangUp(c)
  BY <1>8 DEF HangUp
<1>9. CASE TamperCount(c)
  <2>1. /\ At(c, "idle") /\ client' = GoPcArg(c, "tamper", ticksEmitted + TamperBase)
        /\ UNCHANGED <<running, handle, loop, stopped>>
    BY <1>9 DEF TamperCount, GoPcArg
  <2>2. ticksEmitted + TamperBase \in Nat
    BY <1>t, <1>h
  <2>3. client' = GoAll(c, "tamper", ticksEmitted + TamperBase, client[c].alive)
    BY <1>m, <1>p, <2>1, <2>2
  <2> QED BY <1>p, <1>w, <2>1, <2>2, <2>3 DEF At
<1>10. CASE TamperPush(c)
  <2>1. /\ At(c, "tamper") /\ client' = GoPcArg(c, "tampered", 0)
        /\ UNCHANGED <<running, handle, loop, stopped>>
    BY <1>10 DEF TamperPush, GoPcArg
  <2>2. client' = GoAll(c, "tampered", 0, client[c].alive)
    BY <1>m, <1>p, <2>1
  <2> QED BY <1>p, <1>w, <2>1, <2>2 DEF At
<1>11. CASE TamperTally(c) \/ Reset(c) \/ ResetTicks(c) \/ ResetTampers(c) \/ ResetFile(c)
  <2>1. PICK p \in {"idle", "reset", "zerotampers", "remove"} :
          /\ client[c].pc \in {"tampered", "idle", "zero", "zerotampers", "remove"}
          /\ client' = GoPc(c, p) /\ UNCHANGED <<running, handle, loop, stopped>>
    BY <1>11 DEF TamperTally, Reset, ResetTicks, ResetTampers, ResetFile, Goto, GoPc, At
  <2>2. p \in HandlerPcs \ {"spawn", "keep", "take", "join"}
    BY <1>p, <2>1
  <2>3. client' = GoAll(c, p, client[c].arg, client[c].alive)
    BY <1>m, <2>1, <2>2
  <2> QED BY <1>t, <1>w, <2>1, <2>2, <2>3
<1>12. CASE ResetPop(c)
  <2>1. At(c, "reset") /\ UNCHANGED <<running, handle, loop, stopped>>
    BY <1>12 DEF ResetPop
  <2>2. CASE buf = <<>>
    <3>1. client' = GoPc(c, "zero")
      BY <1>12, <2>2 DEF ResetPop, Goto, GoPc
    <3>2. client' = GoAll(c, "zero", client[c].arg, client[c].alive)
      BY <1>m, <1>p, <3>1
    <3> QED BY <1>p, <1>t, <1>w, <2>1, <3>2 DEF At
  <2>3. CASE buf # <<>>
    <3>1. UNCHANGED client
      BY <1>12, <2>3 DEF ResetPop
    <3> QED BY <1>e, <1>l, <2>1, <3>1 DEF StopInv, At
  <2> QED BY <2>2, <2>3
<1>13. CASE SetVendor(c)
  <2>1. UNCHANGED <<client, running, handle, loop, stopped>>
    BY <1>13 DEF SetVendor
  <2> QED BY <1>e, <1>l, <2>1 DEF StopInv, At
<1> QED BY <1>1, <1>2, <1>3, <1>4, <1>5, <1>6, <1>7, <1>8, <1>9, <1>10, <1>11, <1>12, <1>13
        DEF Request, HandlerStep

\* At the start there is no loop to know of.
LEMMA StopInit == Init => StopInv
<1> SUFFICES ASSUME Init, NEW o \in Clients
             PROVE  /\ \A c \in Clients \ {o} : At(c, "idle")
                    /\ stopped \cap (Alive \cup Unborn) = {}
                    /\ client[o].alive \cap Unborn = {}
                    /\ Within(client[o].pc, client[o].arg, running, handle, Alive)
  BY DEF StopInv
<1>1. \A c \in Clients : client[c] = [pc |-> "idle", arg |-> 0, alive |-> {}]
  BY DEF Init
<1>2. Alive = {}
  BY DEF Init, Alive
<1>3. stopped = {} /\ running = FALSE
  BY DEF Init
<1>4. client[o].pc = "idle" /\ client[o].arg = 0 /\ client[o].alive = {}
  BY <1>1
<1>5. Within("idle", 0, running, handle, Alive)
  BY <1>2, <1>3 DEF Within
<1> QED BY <1>1, <1>2, <1>3, <1>4, <1>5 DEF At

\* No step of the loops or the environment brings a joined loop back.
LEMMA StopStep ==
  ASSUME TypeInv, Sessions, StopInv, [Next]_vars
  PROVE  StopInv'
\* A step that starts no loop and no handler.
<1>1. ASSUME UNCHANGED <<client, stopped, env, running, handle>>,
             Alive' \subseteq Alive, Unborn' = Unborn
      PROVE  StopInv'
  <2>1. ASSUME NEW p, NEW a, Within(p, a, running, handle, Alive)
        PROVE  Within(p, a, running, handle, Alive')
    BY <1>1, <2>1 DEF Within
  <2>2. ASSUME NEW o \in Clients, env.clients = {o}, env.impatient = {}
        PROVE  /\ \A c \in Clients \ {o} : At(c, "idle")
               /\ stopped \cap (Alive' \cup Unborn) = {}
               /\ client[o].alive \cap Unborn = {}
               /\ Within(client[o].pc, client[o].arg, running, handle, Alive')
    <3>1. /\ \A c \in Clients \ {o} : At(c, "idle")
          /\ stopped \cap (Alive \cup Unborn) = {}
          /\ client[o].alive \cap Unborn = {}
          /\ Within(client[o].pc, client[o].arg, running, handle, Alive)
      BY <2>2 DEF StopInv
    <3>2. Within(client[o].pc, client[o].arg, running, handle, Alive')
      BY <2>1, <3>1
    <3> QED BY <1>1, <3>1, <3>2
  <2> QED BY <1>1, <2>2 DEF StopInv, At
<1>2. ASSUME NEW c \in Clients, Request(c) \/ HandlerStep(c)
      PROVE  StopInv'
  BY <1>2, HandlersStop
<1>3. ASSUME NEW l \in Loops, LoopStep(l)
      PROVE  StopInv'
  <2>1. Effect(l)
    BY <1>3, LoopEffects
  <2>2. UNCHANGED <<client, stopped, env, running, handle>>
    BY <2>1 DEF Effect
  <2> QED BY <1>1, <2>1, <2>2, LoopStepsAlive
<1>4. ASSUME UNCHANGED <<loop, client, stopped, env, running, handle>>
      PROVE  StopInv'
  BY <1>1, <1>4 DEF Alive, Unborn
<1>5. CASE ReadL0
  BY <1>4, <1>5, ReadL0Keeps
<1>6. CASE UNCHANGED vars
  BY <1>4, <1>6 DEF vars
<1> QED BY <1>2, <1>3, <1>5, <1>6 DEF Next

(* StopJoins: after a stop that answered Ok no loop alive when it was      *)
(* called still runs, of an operator who makes one request at a time and   *)
(* waits for its answer.  His handler always knows where a loop can be:    *)
(* nowhere before he starts one, in his local until he keeps it, under the *)
(* handle until he takes it, and in his local again until it is joined.    *)
THEOREM StopJoinsTheLoop == Spec => []StopJoins
<1>1. Init => TypeInv /\ Sessions /\ StopInv
  BY TypeInit, StopInit
<1>2. TypeInv /\ Sessions /\ StopInv /\ [Next]_vars => (TypeInv /\ Sessions /\ StopInv)'
  BY TypeStep, StopStep
<1>3. TypeInv /\ StopInv => StopJoins
  <2> SUFFICES ASSUME TypeInv, StopInv, Cardinality(env.clients) = 1, env.impatient = {}
               PROVE  stopped \cap Alive = {}
    BY DEF StopJoins
  <2>1. env.clients \subseteq Clients
    BY PipelineAssumption DEF TypeInv, CoreType
  <2>2. IsFiniteSet(env.clients)
    BY <2>1, PipelineAssumption, FS_Subset
  <2>3. PICK o : env.clients = {o}
    BY <2>2, FS_Singleton
  <2>4. o \in Clients
    BY <2>1, <2>3
  <2> QED BY <2>3, <2>4 DEF StopInv
<1> QED BY <1>1, <1>2, <1>3, PTL DEF Spec

-------------------------------------------------------------------------------
(* The frame counts.                                                       *)

Total(f) == FoldFunction(+, 0, f)
Nexts == [l \in Loops |-> loop[l].next]
Pushing == {l \in Loops : loop[l].pc = "push"}

FramesInv == Total(seen) = Total(Nexts) + Cardinality(Pushing)

\* What a step of a loop that moves it to p, whatever it does to its historian,
\* does to what the frame counts are compared with.
MovesTo(l, p) ==
  /\ loop'[l].pc = p /\ loop'[l].next = loop[l].next
  /\ \A m \in Loops \ {l} : loop'[m] = loop[m]

\* However a loop moves, only its own place counts.
LEMMA MovesCount ==
  ASSUME loop \in [Loops -> LoopState], NEW l \in Loops, NEW p
  PROVE  /\ loop' = RunPc(l, p) => MovesTo(l, p)
         /\ \A b : loop' = RunPcPre(l, p, b) => MovesTo(l, p)
         /\ \A h : loop' = RunPcHist(l, p, h) => MovesTo(l, p)
<1>1. loop[l] \in LoopState
  OBVIOUS
<1>2. \A s \in LoopState : \A b, h :
        /\ [s EXCEPT !.pc = p].pc = p /\ [s EXCEPT !.pc = p].next = s.next
        /\ [s EXCEPT !.pc = p, !.pre = b].pc = p /\ [s EXCEPT !.pc = p, !.pre = b].next = s.next
        /\ [s EXCEPT !.pc = p, !.h = h].pc = p /\ [s EXCEPT !.pc = p, !.h = h].next = s.next
  BY DEF LoopState
<1>3. ASSUME loop' = RunPc(l, p)
      PROVE  MovesTo(l, p)
  <2>1. loop' = [loop EXCEPT ![l] = [loop[l] EXCEPT !.pc = p]]
    BY <1>3 DEF RunPc
  <2> QED BY <1>1, <1>2, <2>1 DEF MovesTo
<1>4. ASSUME NEW b, loop' = RunPcPre(l, p, b)
      PROVE  MovesTo(l, p)
  <2>1. loop' = [loop EXCEPT ![l] = [loop[l] EXCEPT !.pc = p, !.pre = b]]
    BY <1>4 DEF RunPcPre
  <2> QED BY <1>1, <1>2, <2>1 DEF MovesTo
<1>5. ASSUME NEW h, loop' = RunPcHist(l, p, h)
      PROVE  MovesTo(l, p)
  <2>1. loop' = [loop EXCEPT ![l] = [loop[l] EXCEPT !.pc = p, !.h = h]]
    BY <1>5 DEF RunPcHist
  <2> QED BY <1>1, <1>2, <2>1 DEF MovesTo
<1> QED BY <1>3, <1>4, <1>5

\* A step that counts no frame and pushes no tick of a loop.
LEMMA FramesRest ==
  ASSUME FramesInv, UNCHANGED seen, Nexts' = Nexts, Pushing' = Pushing
  PROVE  FramesInv'
BY DEF FramesInv

\* A loop notes a frame, then pushes its tick: the sums stay equal.
LEMMA LoopsNote ==
  ASSUME TypeInv, FramesInv, NEW l \in Loops, LoopStep(l)
  PROVE  FramesInv'
<1>t. loop \in [Loops -> LoopState] /\ seen \in [Svids -> Nat] /\ vendor \in Svids
  BY DEF TypeInv, CoreType, DataType
<1>f. IsFiniteSet(Svids) /\ IsFiniteSet(Loops)
  <2>1. IsFiniteSet(Vendors \cup {Generic})
    BY PipelineAssumption, FS_AddElement
  <2>2. IsFiniteSet(1 .. MaxLoops)
    BY PipelineAssumption, FS_Interval
  <2> QED BY <2>1, <2>2 DEF Svids, Loops
<1>p. IsFiniteSet(Pushing) /\ Cardinality(Pushing) \in Nat
  BY <1>f, FS_Subset, FS_CardinalityType DEF Pushing
<1>n. Nexts \in [Loops -> Nat]
  BY <1>t DEF Nexts, LoopState
<1>s. /\ Total(seen) \in Nat /\ Total(Nexts) \in Nat
      /\ Total(seen) = Total(Nexts) + Cardinality(Pushing)
  <2>1. Total(seen) \in Nat /\ Total(Nexts) \in Nat
    BY <1>t, <1>f, <1>n, SumIsNatural DEF Total
  <2>2. Total(seen) = Total(Nexts) + Cardinality(Pushing)
    BY DEF FramesInv
  <2> QED BY <2>1, <2>2
<1>r. ASSUME NEW p, p # "push", MovesTo(l, p), loop[l].pc # "push", UNCHANGED seen
      PROVE  FramesInv'
  <2>1. Nexts' = Nexts /\ Pushing' = Pushing
    BY <1>r DEF MovesTo, Nexts, Pushing
  <2> QED BY <1>r, <2>1, FramesRest
<1>1. CASE NoteFrame(l)
  <2>1. MovesTo(l, "push")
    BY <1>t, <1>1, MovesCount DEF NoteFrame, LoopGoto, RunPc
  <2>2. loop[l].pc = "tick" /\ seen' = [seen EXCEPT ![vendor] = seen[vendor] + 1]
    BY <1>1 DEF NoteFrame, Noted
  <2>3. Nexts' = Nexts
    BY <2>1 DEF MovesTo, Nexts
  <2>4. Pushing' = Pushing \cup {l} /\ l \notin Pushing
    BY <2>1, <2>2 DEF MovesTo, Pushing
  <2>5. Cardinality(Pushing') = Cardinality(Pushing) + 1
    BY <1>p, <2>4, FS_AddElement
  <2>6. Total(seen') = Total(seen) + 1
    <3>1. seen' \in [Svids -> Nat]
      BY <1>t, <2>2
    <3> QED BY <1>t, <1>f, <2>2, <3>1, SumOfOneMore, ZenonT(40) DEF Total
  <2>7. Total(seen') = Total(Nexts') + Cardinality(Pushing')
    BY <1>s, <1>p, <2>3, <2>5, <2>6
  <2> QED BY <2>7 DEF FramesInv
<1>2. CASE PushTick(l)
  <2>1. loop' = RunPcNext(l, "count", loop[l].next + 1) /\ loop[l].pc = "push" /\ UNCHANGED seen
    BY <1>2 DEF PushTick, RunPcNext, muVars
  <2>2. /\ loop'[l].pc = "count" /\ loop'[l].next = loop[l].next + 1
        /\ \A m \in Loops \ {l} : loop'[m] = loop[m]
    <3>1. loop' = [loop EXCEPT ![l] = [loop[l] EXCEPT !.pc = "count", !.next = loop[l].next + 1]]
      BY <2>1 DEF RunPcNext
    <3>2. \A s \in LoopState : \A n : /\ [s EXCEPT !.pc = "count", !.next = n].pc = "count"
                                            /\ [s EXCEPT !.pc = "count", !.next = n].next = n
      BY DEF LoopState
    <3> QED BY <1>t, <3>1, <3>2
  <2>3. Nexts' = [Nexts EXCEPT ![l] = Nexts[l] + 1]
    BY <2>2 DEF Nexts
  <2>4. Pushing' = Pushing \ {l} /\ l \in Pushing
    BY <2>1, <2>2 DEF Pushing
  <2>5. Cardinality(Pushing') = Cardinality(Pushing) - 1
    BY <1>p, <2>4, FS_RemoveElement
  <2>6. Total(Nexts') = Total(Nexts) + 1
    <3>1. Nexts' \in [Loops -> Nat]
      BY <1>n, <2>3
    <3> QED BY <1>n, <1>f, <2>3, <3>1, SumOfOneMore, ZenonT(40) DEF Total
  <2>7. Total(seen') = Total(Nexts') + Cardinality(Pushing')
    BY <1>s, <1>p, <2>1, <2>5, <2>6
  <2> QED BY <2>7 DEF FramesInv
<1>3. CASE CsvExists(l)
  BY <1>t, <1>r, <1>3, MovesCount DEF CsvExists, RunPcPre, muVars
<1>4. CASE CsvOpen(l)
  <2>1. loop[l].pc = "open" /\ UNCHANGED seen /\ \E h : loop' = RunPcHist(l, "check", h)
    BY <1>4 DEF CsvOpen, RunPcHist, muVars
  <2> QED BY <1>t, <1>r, <2>1, MovesCount
<1>5. CASE Check(l)
  <2>1. loop[l].pc = "check" /\ UNCHANGED seen /\ \E p \in {"tick", "exit"} : loop' = RunPc(l, p)
    BY <1>5 DEF Check, LoopGoto, RunPc, muVars
  <2> QED BY <1>t, <1>r, <2>1, MovesCount
<1>6. CASE CountTick(l)
  <2>1. loop[l].pc = "count" /\ UNCHANGED seen /\ \E p \in {"check", "write"} : loop' = RunPc(l, p)
    BY <1>6 DEF CountTick, LoopGoto, RunPc, muVars
  <2> QED BY <1>t, <1>r, <2>1, MovesCount
<1>7. CASE WriteTick(l) \/ WriteFails(l)
  <2>1. loop[l].pc = "write" /\ UNCHANGED seen /\ \E h : loop' = RunPcHist(l, "check", h)
    BY <1>7 DEF WriteTick, WriteFails, RunPcHist, muVars
  <2> QED BY <1>t, <1>r, <2>1, MovesCount
<1>8. CASE Exit(l)
  <2>1. loop[l].pc = "exit" /\ UNCHANGED seen
    BY <1>8 DEF Exit, muVars
  <2>2. (\E h : loop' = RunPcHist(l, "done", h)) \/ loop' = RunPc(l, "done")
    BY <1>8 DEF Exit, LoopGoto, RunPc, RunPcHist
  <2> QED BY <1>t, <1>r, <2>1, <2>2, MovesCount
<1> QED BY <1>1, <1>2, <1>3, <1>4, <1>5, <1>6, <1>7, <1>8 DEF LoopStep

\* Every other step leaves the frame counts and the ticks alone.
LEMMA FramesStep ==
  ASSUME TypeInv, FramesInv, [Next]_vars
  PROVE  FramesInv'
<1>t. loop \in [Loops -> LoopState]
  BY DEF TypeInv, CoreType
<1>1. ASSUME UNCHANGED <<loop, seen>>
      PROVE  FramesInv'
  BY <1>1, FramesRest DEF Nexts, Pushing
<1>2. ASSUME NEW c \in Clients, Request(c) \/ HandlerStep(c)
      PROVE  FramesInv'
  <2>1. UNCHANGED seen /\ (UNCHANGED loop \/ \E l \in Unborn : loop' = RunPc(l, "exists"))
    BY <1>2, HandlersTouch
  <2>2. ASSUME NEW l \in Unborn, loop' = RunPc(l, "exists")
        PROVE  FramesInv'
    <3>1. l \in Loops /\ loop[l].pc = "unborn"
      BY DEF Unborn
    <3>2. MovesTo(l, "exists")
      BY <1>t, <2>2, <3>1, MovesCount
    <3>3. Nexts' = Nexts /\ Pushing' = Pushing
      BY <3>1, <3>2 DEF MovesTo, Nexts, Pushing
    <3> QED BY <2>1, <3>3, FramesRest
  <2> QED BY <1>1, <2>1, <2>2
<1>3. ASSUME NEW l \in Loops, LoopStep(l)
      PROVE  FramesInv'
  BY <1>3, LoopsNote
<1>4. CASE ReadL0
  BY <1>1, <1>4, ReadL0Keeps
<1>5. CASE UNCHANGED vars
  BY <1>1, <1>5 DEF vars
<1> QED BY <1>2, <1>3, <1>4, <1>5 DEF Next

\* At the start both sums are zero.
LEMMA FramesInit == Init => FramesInv
<1> SUFFICES ASSUME Init
             PROVE  FramesInv
  OBVIOUS
<1>1. IsFiniteSet(Svids) /\ IsFiniteSet(Loops)
  <2>1. IsFiniteSet(Vendors \cup {Generic})
    BY PipelineAssumption, FS_AddElement
  <2>2. IsFiniteSet(1 .. MaxLoops)
    BY PipelineAssumption, FS_Interval
  <2> QED BY <2>1, <2>2 DEF Svids, Loops
<1>2. seen \in [Svids -> Nat] /\ \A mu \in Svids : seen[mu] = 0
  BY DEF Init, Svids
<1>3. Nexts \in [Loops -> Nat] /\ \A l \in Loops : Nexts[l] = 0
  BY DEF Init, Nexts
<1>4. Pushing = {}
  BY DEF Init, Pushing
<1>5. Total(seen) = 0
  BY <1>1, <1>2, SumOfNone DEF Total
<1>6. Total(Nexts) = 0
  BY <1>1, <1>3, SumOfNone DEF Total
<1>7. Cardinality(Pushing) = 0
  BY <1>4, FS_EmptySet
<1>8. Total(seen) = Total(Nexts) + Cardinality(Pushing)
  BY <1>5, <1>6, <1>7
<1> QED BY <1>8 DEF FramesInv

(* FramesNoted: the frame counts the console shows for the merging units   *)
(* add up to the ticks the loops have pushed, and one more for each loop   *)
(* between noting a frame and pushing its tick, whoever picks another      *)
(* preset in between (dataplane/mod.rs note_frame, before aligner.push).   *)
THEOREM FramesAddUp == Spec => []FramesNoted
<1>1. Init => TypeInv /\ Sessions /\ FramesInv
  BY TypeInit, FramesInit
<1>2. TypeInv /\ Sessions /\ FramesInv /\ [Next]_vars => (TypeInv /\ Sessions /\ FramesInv)'
  BY TypeStep, FramesStep
<1>3. FramesInv => FramesNoted
  BY DEF FramesInv, FramesNoted, Total, Nexts, Pushing
<1> QED BY <1>1, <1>2, <1>3, PTL DEF Spec
===============================================================================
