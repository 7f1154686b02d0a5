------------------------------ MODULE SvWireProofs ------------------------------
(***************************************************************************)
(* Machine-checked facts about SvWire: the publisher's frames and its      *)
(* exits, what an OPC UA client reads of the samples, and the CRC of a     *)
(* stored record, for every invocation, vendor file, wave and counter      *)
(* width the assumptions of SvPublisher admit, every clock, every burst    *)
(* within a field and every datagram of other units.                       *)
(*                                                                         *)
(* The lemmas follow a frame from the octets of a number up: a number, a   *)
(* field, the ASDU, the payload and the frame are each read as they were   *)
(* written; a reader of a cut follows the reader of the whole until it     *)
(* runs out of octets; and what the command line and a vendor file give    *)
(* are values that frames can be made of.  Then a sample is followed on:   *)
(* the record, the snapshot, the updates and the nodes' values.  The last  *)
(* part takes the CRC apart: a bit, an octet, four octets, a record.       *)
(***************************************************************************)
EXTENDS SvWire, SequenceTheorems, WellFoundedInduction, TLAPS

-------------------------------------------------------------------------------
(* Reading what is there (Reader of ssiec-sv-publisher). *)

\* A set of naturals that is not empty has a least member.
LEMMA LeastExists ==
  ASSUME NEW S \in SUBSET Nat, S # {}
  PROVE  \E m \in S : \A n \in S : m <= n
<1>1. PICK m \in S : \A n \in S : ~ (<<n, m>> \in OpToRel(<, Nat))
  BY WFMin, NatLessThanWellFounded
<1>2. \A n \in S : ~ (n < m)
  BY <1>1 DEF OpToRel
<1>3. m \in Nat /\ \A n \in S : n \in Nat
  OBVIOUS
<1> QED BY <1>2, <1>3

\* What of a buffer is still to be read.
Suffix(b, p) == SubSeq(b, p + 1, Len(b))

\* s is what is left of b from position p on.
At(b, p, s) == b \in Seq(Byte) /\ p \in Nat /\ p <= Len(b) /\ s \in Seq(Byte) /\ Suffix(b, p) = s

\* A reader, by its fields (Reader of the code, and what was noted on the way).
Mk(b, p, g, e, f) == [buf |-> b, pos |-> p, got |-> g, err |-> e, fields |-> f]

\* The reader after it read g and came to p.
Moved(r, g, p) == [r EXCEPT !.got = g, !.pos = p]

\* Moving a reader changes what was read last and the position, and nothing else.
LEMMA MovedOf ==
  ASSUME NEW b, NEW p, NEW g, NEW e, NEW f, NEW x, NEW q
  PROVE  Moved(Mk(b, p, g, e, f), x, q) = Mk(b, q, x, e, f)
<1> DEFINE r == Mk(b, p, g, e, f)
           h(n) == IF n = "pos" THEN q ELSE IF n = "got" THEN x ELSE r[n]
           D == {"buf", "pos", "got", "err", "fields"}
<1>0. DOMAIN r = D
  BY DEF Mk
<1>1. Mk(b, q, x, e, f) = [n \in D |-> h(n)]
  BY DEF Mk
<1>2. Moved(r, x, q) = [n \in DOMAIN r |-> h(n)]
  <2> HIDE DEF r
  <2> QED BY <1>0 DEF Moved
<1> HIDE DEF r, h, D
<1> QED BY <1>0, <1>1, <1>2 DEF r

\* What SubSeq cuts out of a buffer: its length and its elements.
LEMMA Slice ==
  ASSUME NEW T, NEW b \in Seq(T), NEW p \in Nat, NEW q \in Nat, p <= q, q <= Len(b)
  PROVE  /\ SubSeq(b, p + 1, q) \in Seq(T)
         /\ Len(SubSeq(b, p + 1, q)) = q - p
         /\ \A i \in 1 .. (q - p) : SubSeq(b, p + 1, q)[i] = b[p + i]
<1> DEFINE m == p + 1
<1>1. m \in Int /\ q \in Int /\ \A i \in m .. q : b[i] \in T
  BY ElementOfSeq
<1>2. /\ SubSeq(b, m, q) \in Seq(T)
      /\ Len(SubSeq(b, m, q)) = IF m <= q THEN q - m + 1 ELSE 0
      /\ \A i \in 1 .. q - m + 1 : SubSeq(b, m, q)[i] = b[m + i - 1]
  <2> HIDE DEF m
  <2> QED BY <1>1, SubSeqProperties
<1>3. q - m + 1 = q - p /\ (IF m <= q THEN q - m + 1 ELSE 0) = q - p
  OBVIOUS
<1>4. \A i \in 1 .. (q - p) : m + i - 1 = p + i
  OBVIOUS
<1> HIDE DEF m
<1>5. /\ SubSeq(b, m, q) \in Seq(T)
      /\ Len(SubSeq(b, m, q)) = q - p
      /\ \A i \in 1 .. (q - p) : SubSeq(b, m, q)[i] = b[p + i]
  BY <1>2, <1>3, <1>4
<1> QED BY <1>5 DEF m

\* If x and then y are still to be read, the next Len(x) octets are x, and y follows.
LEMMA SuffixSplit ==
  ASSUME NEW b, NEW p, NEW x \in Seq(Byte), NEW y \in Seq(Byte), At(b, p, x \o y)
  PROVE  /\ SubSeq(b, p + 1, p + Len(x)) = x
         /\ At(b, p + Len(x), y)
<1>0. b \in Seq(Byte) /\ p \in Nat /\ p <= Len(b) /\ Suffix(b, p) = x \o y
  BY DEF At
<1> DEFINE n == Len(b)
           k == Len(x)
           l == Len(y)
<1>1. n \in Nat /\ k \in Nat /\ l \in Nat
  BY <1>0
<1>2. /\ Len(x \o y) = k + l
      /\ \A i \in 1 .. k : (x \o y)[i] = x[i]
      /\ \A i \in 1 .. l : (x \o y)[k + i] = y[i]
  OBVIOUS
<1>3. /\ Len(Suffix(b, p)) = n - p
      /\ \A i \in 1 .. (n - p) : Suffix(b, p)[i] = b[p + i]
  BY <1>0, Slice DEF Suffix
<1>4. n - p = k + l
  BY <1>0, <1>2, <1>3
<1>5. \A i \in 1 .. (n - p) : b[p + i] = (x \o y)[i]
  BY <1>0, <1>3
<1> HIDE DEF n, k, l
<1>q. p + k \in Nat /\ p <= p + k /\ p + k <= n
  BY <1>0, <1>1, <1>4
<1>6. SubSeq(b, p + 1, p + k) = x
  <2>1. /\ SubSeq(b, p + 1, p + k) \in Seq(Byte)
        /\ Len(SubSeq(b, p + 1, p + k)) = (p + k) - p
        /\ \A i \in 1 .. ((p + k) - p) : SubSeq(b, p + 1, p + k)[i] = b[p + i]
    BY <1>0, <1>q, Slice DEF n
  <2>2. (p + k) - p = k
    BY <1>0, <1>1
  <2>3. \A i \in 1 .. k : SubSeq(b, p + 1, p + k)[i] = x[i]
    <3> TAKE i \in 1 .. k
    <3>1. i \in 1 .. (n - p)
      BY <1>0, <1>1, <1>4
    <3> QED BY <1>2, <1>5, <2>1, <2>2, <3>1
  <2> QED BY <2>1, <2>2, <2>3, SeqEqual DEF k
<1>7. Suffix(b, p + k) = y
  <2>1. /\ Suffix(b, p + k) \in Seq(Byte)
        /\ Len(Suffix(b, p + k)) = n - (p + k)
        /\ \A i \in 1 .. (n - (p + k)) : Suffix(b, p + k)[i] = b[(p + k) + i]
    BY <1>0, <1>q, <1>1, Slice DEF Suffix, n
  <2>2. n - (p + k) = l
    BY <1>0, <1>1, <1>4
  <2>3. \A i \in 1 .. l : Suffix(b, p + k)[i] = y[i]
    <3> TAKE i \in 1 .. l
    <3>1. k + i \in 1 .. (n - p) /\ (p + k) + i = p + (k + i)
      BY <1>0, <1>1, <1>4
    <3> QED BY <1>2, <1>5, <2>1, <2>2, <3>1
  <2> QED BY <2>1, <2>2, <2>3, SeqEqual DEF l
<1> QED BY <1>0, <1>q, <1>6, <1>7 DEF n, k, At

\* Advance, in terms of Moved.
LEMMA AdvanceIs ==
  ASSUME NEW r, NEW n
  PROVE  Advance(r, n) = Moved(r, SubSeq(r.buf, r.pos + 1, r.pos + n), r.pos + n)
BY DEF Advance, Moved

\* Reader::read_bytes of a piece that is there returns the piece and leaves the reader
\* after it.
LEMMA TakeOf ==
  ASSUME NEW b, NEW p, NEW x \in Seq(Byte), NEW y \in Seq(Byte), At(b, p, x \o y),
         NEW g, NEW f
  PROVE  /\ Take(Mk(b, p, g, "none", f), Len(x)) = Mk(b, p + Len(x), x, "none", f)
         /\ At(b, p + Len(x), y)
<1> DEFINE n == Len(x)
           r == Mk(b, p, g, "none", f)
<1>1. At(b, p + n, y) /\ SubSeq(b, p + 1, p + n) = x
  BY SuffixSplit
<1>2. r.err = "none" /\ r.pos = p /\ r.buf = b
  BY DEF Mk
<1>3. ~(p + n > Len(b))
  <2>1. p + n \in Nat /\ Len(b) \in Nat /\ p + n <= Len(b)
    BY <1>1 DEF At
  <2> HIDE DEF n
  <2> QED BY <2>1
<1> HIDE DEF n, r
<1>4. Take(r, n) = Moved(r, SubSeq(r.buf, r.pos + 1, r.pos + n), r.pos + n)
  BY <1>2, <1>3, AdvanceIs DEF Take
<1>5. Take(r, n) = Moved(r, x, p + n)
  BY <1>1, <1>2, <1>4
<1>6. Moved(r, x, p + n) = Mk(b, p + n, x, "none", f)
  BY MovedOf DEF r
<1> QED BY <1>1, <1>5, <1>6 DEF n, r

\* Reading a tag, a length and a field of the encoder's.
LEMMA BytePieces ==
  /\ \A a \in Byte : <<a>> \in Seq(Byte) /\ Len(<<a>>) = 1
  /\ \A x, y \in Seq(Byte) : x \o y \in Seq(Byte) /\ Len(x \o y) = Len(x) + Len(y)
  /\ \A x, y, z \in Seq(Byte) : (x \o y) \o z = x \o (y \o z)
<1>1. \A a \in Byte : <<a>> \in Seq(Byte) /\ Len(<<a>>) = 1
  OBVIOUS
<1>2. \A x, y \in Seq(Byte) : x \o y \in Seq(Byte) /\ Len(x \o y) = Len(x) + Len(y)
  OBVIOUS
<1>3. \A x, y, z \in Seq(Byte) : (x \o y) \o z = x \o (y \o z)
  BY ConcatAssociative
<1> QED BY <1>1, <1>2, <1>3

-------------------------------------------------------------------------------
(* Numbers as octets, most significant first. *)

\* An integer's last octet, and what is left of it.
Lo(v) == v % 256
Hi(v) == v \div 256

\* Byte, without its interval.
LEMMA ByteFacts ==
  /\ \A b \in Byte : b \in Int /\ 0 <= b /\ b <= 255
  /\ \A b \in Int : 0 <= b /\ b <= 255 => b \in Byte
BY DEF Byte

\* A number is 256 times what is left of it, and its last octet.
LEMMA HiLo ==
  ASSUME NEW v \in Int
  PROVE  v = Hi(v) * 256 + Lo(v) /\ Hi(v) \in Int /\ Lo(v) \in Byte
<1>1. v = (v \div 256) * 256 + (v % 256)
  BY SMT
<1>2. v \div 256 \in Int /\ v % 256 \in Int /\ 0 <= v % 256 /\ v % 256 <= 255
  BY SMT
<1>3. v = Hi(v) * 256 + Lo(v)
  BY <1>1 DEF Hi, Lo
<1>4. Hi(v) \in Int /\ Lo(v) \in Int /\ 0 <= Lo(v) /\ Lo(v) <= 255
  BY <1>2 DEF Hi, Lo
<1> QED BY <1>3, <1>4, ByteFacts

\* The last octet of an octet is itself.
LEMMA LoOfByte == \A b \in Byte : Lo(b) = b
<1> SUFFICES ASSUME NEW b \in Byte
             PROVE  b % 256 = b
  BY DEF Lo
<1> QED BY ByteFacts

\* u16::to_be_bytes: two octets, the high one first.
LEMMA BigEndian2 ==
  ASSUME NEW v \in Int
  PROVE  /\ BigEndian(v, 2) = <<Lo(Hi(v)), Lo(v)>>
         /\ BigEndian(v, 2) \in Seq(Byte) /\ Len(BigEndian(v, 2)) = 2
<1> DEFINE a == Lo(Hi(v))
           b == Lo(v)
           e == BigEndian(v, 2)
<1>1. e[1] = a /\ e[2] = b /\ e = [i \in 1 .. 2 |-> e[i]]
  <2>1. 256 ^ (2 - 1) = 256 /\ 256 ^ (2 - 2) = 1 /\ v \div 1 = v
    OBVIOUS
  <2>2. 1 \in 1 .. 2 /\ 2 \in 1 .. 2
    OBVIOUS
  <2> QED BY <2>1, <2>2 DEF BigEndian, Hi, Lo
<1>2. a \in Byte /\ b \in Byte
  BY HiLo
<1> HIDE DEF a, b, e
<1>3. e = <<a, b>>
  BY <1>1
<1>4. <<a, b>> \in Seq(Byte) /\ Len(<<a, b>>) = 2
  BY <1>2
<1>5. e = <<a, b>> /\ e \in Seq(Byte) /\ Len(e) = 2
  BY <1>3, <1>4
<1> QED BY <1>5 DEF a, b, e

\* u32::to_be_bytes and i32::to_be_bytes: four octets, the highest first.
LEMMA BigEndian4 ==
  ASSUME NEW v \in Int
  PROVE  /\ BigEndian(v, 4) = <<Lo(Hi(Hi(Hi(v)))), Lo(Hi(Hi(v))), Lo(Hi(v)), Lo(v)>>
         /\ BigEndian(v, 4) \in Seq(Byte) /\ Len(BigEndian(v, 4)) = 4
<1> DEFINE a == Lo(Hi(Hi(Hi(v))))
           b == Lo(Hi(Hi(v)))
           c == Lo(Hi(v))
           d == Lo(v)
           e == BigEndian(v, 4)
<1>1. e[1] = a /\ e[2] = b /\ e[3] = c /\ e[4] = d /\ e = [i \in 1 .. 4 |-> e[i]]
  <2>1. /\ 256 ^ (4 - 1) = 16777216 /\ 256 ^ (4 - 2) = 65536
        /\ 256 ^ (4 - 3) = 256 /\ 256 ^ (4 - 4) = 1 /\ v \div 1 = v
    OBVIOUS
  <2>2. 1 \in 1 .. 4 /\ 2 \in 1 .. 4 /\ 3 \in 1 .. 4 /\ 4 \in 1 .. 4
    OBVIOUS
  <2>3. v \div 65536 = (v \div 256) \div 256
    BY SMT
  <2>4. v \div 16777216 = ((v \div 256) \div 256) \div 256
    BY SMT
  <2>5. e[1] = a /\ e[2] = b /\ e[3] = c /\ e[4] = d
    BY <2>1, <2>2, <2>3, <2>4 DEF BigEndian, Hi, Lo
  <2> QED BY <2>5 DEF BigEndian
<1>2. a \in Byte /\ b \in Byte /\ c \in Byte /\ d \in Byte
  BY HiLo
<1> HIDE DEF a, b, c, d, e
<1>3. e = <<a, b, c, d>>
  BY <1>1
<1>4. <<a, b, c, d>> \in Seq(Byte) /\ Len(<<a, b, c, d>>) = 4
  BY <1>2
<1>5. e = <<a, b, c, d>> /\ e \in Seq(Byte) /\ Len(e) = 4
  BY <1>3, <1>4
<1> QED BY <1>5 DEF a, b, c, d, e

\* A bounded set that is not empty has a maximum.
LEMMA MaxOfBounded ==
  ASSUME NEW n \in Nat, NEW S \in SUBSET (1 .. n), S # {}
  PROVE  Max(S) \in S /\ \A m \in S : m <= Max(S)
<1> DEFINE Above == {u \in Nat : \A m \in S : m <= u}
<1>1. n \in Above
  OBVIOUS
<1>2. PICK u \in Above : \A v \in Above : u <= v
  BY <1>1, LeastExists
<1>3. u \in S
  <2> SUFFICES ASSUME u \notin S
               PROVE  FALSE
    OBVIOUS
  <2>1. \A m \in S : m <= u - 1 /\ m >= 1
    <3> TAKE m \in S
    <3>1. m \in 1 .. n /\ m <= u /\ m # u /\ u \in Nat
      OBVIOUS
    <3> QED BY <3>1
  <2>2. u - 1 \in Nat
    <3>1. PICK m \in S : TRUE
      OBVIOUS
    <3>2. m <= u - 1 /\ m >= 1 /\ m \in Nat /\ u \in Nat
      BY <2>1, <3>1
    <3> QED BY <3>2
  <2>3. u - 1 \in Above
    BY <2>1, <2>2
  <2> QED BY <1>2, <2>2, <2>3
<1>4. u \in S /\ \A m \in S : u >= m
  BY <1>2, <1>3
<1> HIDE DEF Above
<1>5. Max(S) \in S /\ \A m \in S : Max(S) >= m
  BY <1>4 DEF Max
<1>6. \A m \in S : m \in Nat
  OBVIOUS
<1> QED BY <1>5, <1>6

\* The maximum of 1 .. i is i, and 1 .. i - 1 is left without it.
LEMMA MaxOfUpTo ==
  ASSUME NEW n \in Nat, NEW i \in 1 .. n
  PROVE  /\ 1 .. i \in SUBSET (1 .. n) /\ 1 .. i # {}
         /\ Max(1 .. i) = i /\ (1 .. i) \ {i} = 1 .. (i - 1)
<1>1. i \in Nat /\ 1 <= i /\ i <= n
  OBVIOUS
<1>2. i \in 1 .. i /\ \A k \in 1 .. i : k \in 1 .. n /\ k <= i
  BY <1>1
<1>3. Max(1 .. i) \in 1 .. i /\ \A m \in 1 .. i : m <= Max(1 .. i)
  BY <1>2, MaxOfBounded
<1>4. Max(1 .. i) = i
  BY <1>1, <1>2, <1>3
<1>5. (1 .. i) \ {i} = 1 .. (i - 1)
  BY <1>1
<1> QED BY <1>2, <1>4, <1>5

-------------------------------------------------------------------------------
(* Folds: a fold whose operator stays within a set is a function h on it. *)

\* g[t] is what the fold of s over the positions t makes, starting from base.
Folds(g, h, base, s, n) ==
  \A t \in SUBSET (1 .. n) :
    g[t] = IF t = {} THEN base ELSE h[<<g[t \ {Max(t)}], s[Max(t)]>>]

\* There is a function that folds over every prefix of s (FoldLeft is defined by CHOOSE:
\* a fold is only what its equations say once such a function is known to exist).
LEMMA FoldExists ==
  ASSUME NEW D, NEW R, NEW base \in D, NEW h \in [D \X R -> D], NEW n \in Nat,
         NEW s \in [1 .. n -> R]
  PROVE  \E g \in [SUBSET (1 .. n) -> D] : Folds(g, h, base, s, n)
<1> DEFINE Holds(k) == \E g \in [SUBSET (1 .. k) -> D] : Folds(g, h, base, s, k)
           Bad == {k \in 0 .. n : ~Holds(k)}
<1> SUFFICES ASSUME Bad # {}
             PROVE  FALSE
  <2>1. n \in 0 .. n
    OBVIOUS
  <2> HIDE DEF Holds
  <2>2. Bad = {} => Holds(n)
    BY <2>1
  <2> QED BY <2>2 DEF Holds
<1>1. PICK m \in Bad : \A k \in Bad : m <= k
  <2>1. Bad \in SUBSET Nat
    OBVIOUS
  <2> HIDE DEF Bad
  <2> QED BY <2>1, LeastExists
<1>2. m \in 0 .. n /\ ~Holds(m)
  OBVIOUS
<1>3. CASE m = 0
  <2> DEFINE g == [t \in {{}} |-> base]
  <2>1. SUBSET (1 .. 0) = {{}}
    OBVIOUS
  <2>2. g \in [SUBSET (1 .. 0) -> D]
    BY <2>1
  <2>3. Folds(g, h, base, s, 0)
    BY <2>1 DEF Folds
  <2>4. Holds(0)
    BY <2>2, <2>3
  <2> HIDE DEF Holds
  <2> QED BY <1>2, <1>3, <2>4
<1>4. CASE m # 0
  <2>m. m \in Nat /\ m >= 1 /\ m <= n
    BY <1>2, <1>4
  <2>1. m - 1 \in 0 .. n /\ Holds(m - 1)
    <3>1. m - 1 \in 0 .. n /\ ~(m <= m - 1)
      BY <2>m
    <3> HIDE DEF Holds
    <3> QED BY <1>1, <3>1
  <2>2. PICK g \in [SUBSET (1 .. (m - 1)) -> D] : Folds(g, h, base, s, m - 1)
    BY <2>1
  <2> DEFINE f == [t \in SUBSET (1 .. m) |->
                     IF m \in t THEN h[<<g[t \ {m}], s[m]>>] ELSE g[t]]
  <2>s. \A t \in SUBSET (1 .. m) : t \ {m} \in SUBSET (1 .. (m - 1))
    <3>1. \A k \in 1 .. m : k # m => k \in 1 .. (m - 1)
      BY <2>m
    <3> QED BY <3>1
  <2>3. f \in [SUBSET (1 .. m) -> D]
    <3> SUFFICES ASSUME NEW t \in SUBSET (1 .. m)
                 PROVE  f[t] \in D
      OBVIOUS
    <3>1. g[t \ {m}] \in D
      BY <2>s
    <3>2. s[m] \in R
      BY <2>m
    <3>3. h[<<g[t \ {m}], s[m]>>] \in D
      BY <3>1, <3>2
    <3>4. m \notin t => t \ {m} = t
      OBVIOUS
    <3>5. f[t] = IF m \in t THEN h[<<g[t \ {m}], s[m]>>] ELSE g[t]
      OBVIOUS
    <3> HIDE DEF f
    <3> QED BY <3>1, <3>3, <3>4, <3>5
  <2>4. ASSUME NEW t \in SUBSET (1 .. m), t # {}
        PROVE  f[t] = h[<<f[t \ {Max(t)}], s[Max(t)]>>]
    <3>1. Max(t) \in t /\ \A k \in t : k <= Max(t)
      BY <2>m, <2>4, MaxOfBounded
    <3>2. CASE m \in t
      <4>1. Max(t) = m
        <5>1. Max(t) \in 1 .. m /\ m <= Max(t)
          BY <3>1, <3>2
        <5> QED BY <2>m, <5>1
      <4>2. t \ {m} \in SUBSET (1 .. m) /\ m \notin t \ {m}
        OBVIOUS
      <4>3. f[t \ {m}] = g[t \ {m}]
        BY <4>2
      <4>4. f[t] = h[<<g[t \ {m}], s[m]>>]
        BY <3>2
      <4> HIDE DEF f
      <4> QED BY <4>1, <4>3, <4>4
    <3>3. CASE m \notin t
      <4>1. t \in SUBSET (1 .. (m - 1)) /\ t \ {Max(t)} \in SUBSET (1 .. m)
        <5>1. t \ {m} = t
          BY <3>3
        <5> QED BY <2>s, <5>1
      <4>2. g[t] = h[<<g[t \ {Max(t)}], s[Max(t)]>>]
        BY <2>2, <2>4, <4>1 DEF Folds
      <4>3. f[t] = g[t] /\ f[t \ {Max(t)}] = g[t \ {Max(t)}]
        BY <3>3, <4>1
      <4> HIDE DEF f
      <4> QED BY <4>2, <4>3
    <3> QED BY <3>2, <3>3
  <2>5. f[{}] = base
    <3>1. {} \in SUBSET (1 .. (m - 1)) /\ {} \in SUBSET (1 .. m)
      OBVIOUS
    <3>2. g[{}] = base
      BY <2>2, <3>1 DEF Folds
    <3> QED BY <3>1, <3>2
  <2> HIDE DEF f
  <2>6. Folds(f, h, base, s, m)
    BY <2>4, <2>5 DEF Folds
  <2>7. Holds(m)
    BY <2>3, <2>6
  <2> HIDE DEF Holds
  <2> QED BY <1>2, <2>7
<1> QED BY <1>3, <1>4

-------------------------------------------------------------------------------
(* Numbers read from octets. *)

\* The value after each octet of a big-endian number.
Turns(C, s) == C[0] = 0 /\ \A i \in 1 .. Len(s) : C[i] = C[i - 1] * 256 + s[i]

\* The octets of a number are read one at a time, 256 times what there is plus the next.
LEMMA UnsignedTurns ==
  ASSUME NEW bytes \in Seq(Byte)
  PROVE  \E C : Turns(C, bytes) /\ Unsigned(bytes) = C[Len(bytes)]
<1> DEFINE n == Len(bytes)
           Sum(g) == g = [t \in SUBSET (1 .. n) |->
                            IF t = {} THEN 0 ELSE g[t \ {Max(t)}] * 256 + bytes[Max(t)]]
           it == CHOOSE g : Sum(g)
<1>n. n \in Nat /\ bytes \in [1 .. n -> Byte]
  OBVIOUS
<1>1. Unsigned(bytes) = it[1 .. n]
  <2>1. DOMAIN bytes = 1 .. n
    OBVIOUS
  <2> QED BY <2>1 DEF Unsigned, FoldLeft, MapThenFoldSet
<1> HIDE DEF n
<1>2. \E g : Sum(g)
  <2> DEFINE h == [z \in Nat \X Byte |-> z[1] * 256 + z[2]]
  <2>1. h \in [Nat \X Byte -> Nat]
    <3>1. \A z \in Nat \X Byte : z[1] \in Nat /\ z[2] \in Nat
      BY DEF Byte
    <3>2. \A z \in Nat \X Byte : z[1] * 256 + z[2] \in Nat
      BY <3>1
    <3> QED BY <3>2
  <2>2. PICK g \in [SUBSET (1 .. n) -> Nat] : Folds(g, h, 0, bytes, n)
    <3> HIDE DEF h
    <3> QED BY <1>n, <2>1, FoldExists
  <2>3. ASSUME NEW t \in SUBSET (1 .. n)
        PROVE  g[t] = IF t = {} THEN 0 ELSE g[t \ {Max(t)}] * 256 + bytes[Max(t)]
    <3>1. CASE t = {}
      BY <2>2, <3>1 DEF Folds
    <3>2. CASE t # {}
      <4>1. Max(t) \in 1 .. n /\ t \ {Max(t)} \in SUBSET (1 .. n)
        BY <1>n, <3>2, MaxOfBounded
      <4>2. <<g[t \ {Max(t)}], bytes[Max(t)]>> \in Nat \X Byte
        BY <1>n, <4>1
      <4>3. g[t] = h[<<g[t \ {Max(t)}], bytes[Max(t)]>>]
        <5> HIDE DEF h
        <5> QED BY <2>2, <3>2 DEF Folds
      <4>4. \A z \in Nat \X Byte : h[z] = z[1] * 256 + z[2]
        OBVIOUS
      <4> HIDE DEF h
      <4>5. g[t] = g[t \ {Max(t)}] * 256 + bytes[Max(t)]
        BY <4>2, <4>3, <4>4
      <4> QED BY <3>2, <4>5
    <3> QED BY <3>1, <3>2
  <2>4. Sum(g)
    BY <2>3
  <2> QED BY <2>4
<1>3. Sum(it)
  BY <1>2
<1>4. \A t \in SUBSET (1 .. n) :
        it[t] = IF t = {} THEN 0 ELSE it[t \ {Max(t)}] * 256 + bytes[Max(t)]
  BY <1>3
<1> HIDE DEF it
<1> DEFINE C == [i \in 0 .. n |-> it[1 .. i]]
<1>5. C[0] = 0
  <2>1. 1 .. 0 = {} /\ {} \in SUBSET (1 .. n) /\ 0 \in 0 .. n
    BY <1>n
  <2> QED BY <1>4, <2>1
<1>6. \A i \in 1 .. n : C[i] = C[i - 1] * 256 + bytes[i]
  <2> TAKE i \in 1 .. n
  <2>1. i \in 0 .. n /\ i - 1 \in 0 .. n
    BY <1>n
  <2>2. it[1 .. i] = it[1 .. (i - 1)] * 256 + bytes[i]
    <3>1. /\ 1 .. i \in SUBSET (1 .. n) /\ 1 .. i # {}
          /\ Max(1 .. i) = i /\ (1 .. i) \ {i} = 1 .. (i - 1)
      BY <1>n, MaxOfUpTo
    <3>2. it[1 .. i] = it[(1 .. i) \ {Max(1 .. i)}] * 256 + bytes[Max(1 .. i)]
      BY <1>4, <3>1
    <3> QED BY <3>1, <3>2
  <2> QED BY <2>1, <2>2
<1>7. C[n] = it[1 .. n]
  BY <1>n
<1> HIDE DEF C
<1>8. Turns(C, bytes)
  BY <1>5, <1>6 DEF Turns, n
<1> QED BY <1>1, <1>7, <1>8 DEF n

\* A number of one octet.
LEMMA UnsignedOf1 ==
  ASSUME NEW a \in Byte
  PROVE  Unsigned(<<a>>) = a
<1> DEFINE s == <<a>>
<1>1. s \in Seq(Byte) /\ Len(s) = 1 /\ s[1] = a
  OBVIOUS
<1> HIDE DEF s
<1>2. PICK C : Turns(C, s) /\ Unsigned(s) = C[Len(s)]
  BY <1>1, UnsignedTurns
<1>3. C[0] = 0 /\ \A i \in 1 .. 1 : C[i] = C[i - 1] * 256 + s[i]
  BY <1>1, <1>2 DEF Turns
<1>4. C[1] = a
  <2>1. C[1] = C[0] * 256 + s[1]
    <3>1. 1 \in 1 .. 1 /\ 1 - 1 = 0
      OBVIOUS
    <3> QED BY <1>3, <3>1
  <2> QED BY <1>1, <1>3, <2>1, ByteFacts
<1> QED BY <1>1, <1>2, <1>4 DEF s

\* A number of two octets, as read_be_u16 makes it.
LEMMA UnsignedOf2 ==
  ASSUME NEW a \in Byte, NEW b \in Byte
  PROVE  Unsigned(<<a, b>>) = a * 256 + b
<1> DEFINE s == <<a, b>>
<1>1. s \in Seq(Byte) /\ Len(s) = 2 /\ s[1] = a /\ s[2] = b
  OBVIOUS
<1> HIDE DEF s
<1>2. PICK C : Turns(C, s) /\ Unsigned(s) = C[Len(s)]
  BY <1>1, UnsignedTurns
<1>3. C[0] = 0 /\ \A i \in 1 .. 2 : C[i] = C[i - 1] * 256 + s[i]
  BY <1>1, <1>2 DEF Turns
<1>4. C[1] = a
  <2>1. C[1] = C[0] * 256 + s[1]
    <3>1. 1 \in 1 .. 2 /\ 1 - 1 = 0
      OBVIOUS
    <3> QED BY <1>3, <3>1
  <2> QED BY <1>1, <1>3, <2>1, ByteFacts
<1>5. C[2] = a * 256 + b
  <2>1. C[2] = C[1] * 256 + s[2]
    <3>1. 2 \in 1 .. 2 /\ 2 - 1 = 1
      OBVIOUS
    <3> QED BY <1>3, <3>1
  <2> QED BY <1>1, <1>4, <2>1, ByteFacts
<1> QED BY <1>1, <1>2, <1>5 DEF s

\* A number of three octets.
LEMMA UnsignedOf3 ==
  ASSUME NEW a \in Byte, NEW b \in Byte, NEW c \in Byte
  PROVE  Unsigned(<<a, b, c>>) = (a * 256 + b) * 256 + c
<1> DEFINE s == <<a, b, c>>
<1>1. s \in Seq(Byte) /\ Len(s) = 3 /\ s[1] = a /\ s[2] = b /\ s[3] = c
  OBVIOUS
<1> HIDE DEF s
<1>2. PICK C : Turns(C, s) /\ Unsigned(s) = C[Len(s)]
  BY <1>1, UnsignedTurns
<1>3. C[0] = 0 /\ \A i \in 1 .. 3 : C[i] = C[i - 1] * 256 + s[i]
  BY <1>1, <1>2 DEF Turns
<1>4. C[1] = a
  <2>1. C[1] = C[0] * 256 + s[1]
    <3>1. 1 \in 1 .. 3 /\ 1 - 1 = 0
      OBVIOUS
    <3> QED BY <1>3, <3>1
  <2> QED BY <1>1, <1>3, <2>1, ByteFacts
<1>5. C[2] = a * 256 + b
  <2>1. C[2] = C[1] * 256 + s[2]
    <3>1. 2 \in 1 .. 3 /\ 2 - 1 = 1
      OBVIOUS
    <3> QED BY <1>3, <3>1
  <2> QED BY <1>1, <1>4, <2>1, ByteFacts
<1>6. C[3] = (a * 256 + b) * 256 + c
  <2>1. C[3] = C[2] * 256 + s[3]
    <3>1. 3 \in 1 .. 3 /\ 3 - 1 = 2
      OBVIOUS
    <3> QED BY <1>3, <3>1
  <2> QED BY <1>1, <1>5, <2>1, ByteFacts
<1> QED BY <1>1, <1>2, <1>6 DEF s

\* A number of four octets.
LEMMA UnsignedOf4 ==
  ASSUME NEW a \in Byte, NEW b \in Byte, NEW c \in Byte, NEW d \in Byte
  PROVE  Unsigned(<<a, b, c, d>>) = ((a * 256 + b) * 256 + c) * 256 + d
<1> DEFINE s == <<a, b, c, d>>
<1>1. s \in Seq(Byte) /\ Len(s) = 4 /\ s[1] = a /\ s[2] = b /\ s[3] = c /\ s[4] = d
  OBVIOUS
<1> HIDE DEF s
<1>2. PICK C : Turns(C, s) /\ Unsigned(s) = C[Len(s)]
  BY <1>1, UnsignedTurns
<1>3. C[0] = 0 /\ \A i \in 1 .. 4 : C[i] = C[i - 1] * 256 + s[i]
  BY <1>1, <1>2 DEF Turns
<1>4. C[1] = a
  <2>1. C[1] = C[0] * 256 + s[1]
    <3>1. 1 \in 1 .. 4 /\ 1 - 1 = 0
      OBVIOUS
    <3> QED BY <1>3, <3>1
  <2> QED BY <1>1, <1>3, <2>1, ByteFacts
<1>5. C[2] = a * 256 + b
  <2>1. C[2] = C[1] * 256 + s[2]
    <3>1. 2 \in 1 .. 4 /\ 2 - 1 = 1
      OBVIOUS
    <3> QED BY <1>3, <3>1
  <2> QED BY <1>1, <1>4, <2>1, ByteFacts
<1>6. C[3] = (a * 256 + b) * 256 + c
  <2>1. C[3] = C[2] * 256 + s[3]
    <3>1. 3 \in 1 .. 4 /\ 3 - 1 = 2
      OBVIOUS
    <3> QED BY <1>3, <3>1
  <2> QED BY <1>1, <1>5, <2>1, ByteFacts
<1>7. C[4] = ((a * 256 + b) * 256 + c) * 256 + d
  <2>1. C[4] = C[3] * 256 + s[4]
    <3>1. 4 \in 1 .. 4 /\ 4 - 1 = 3
      OBVIOUS
    <3> QED BY <1>3, <3>1
  <2> QED BY <1>1, <1>6, <2>1, ByteFacts
<1> QED BY <1>1, <1>2, <1>7 DEF s

\* Half a word is two octets.
LEMMA HalfWord ==
  ASSUME NEW v \in Int
  PROVE  v \div 65536 = Hi(Hi(v))
BY SMT DEF Hi

\* What to_be_bytes writes of a u16, from_be_bytes reads.
LEMMA U16Read ==
  ASSUME NEW v \in U16
  PROVE  /\ v \in Int /\ Hi(v) \in Byte /\ Lo(v) \in Byte /\ v = Hi(v) * 256 + Lo(v)
         /\ BigEndian(v, 2) = <<Hi(v), Lo(v)>>
         /\ Unsigned(BigEndian(v, 2)) = v
<1>1. v \in Int /\ 0 <= v /\ v <= 65535
  BY DEF U16, MaxU16
<1>2. v \div 256 \in Int /\ 0 <= v \div 256 /\ v \div 256 <= 255
  BY <1>1, SMT
<1>3. Hi(v) \in Byte
  BY <1>2, ByteFacts DEF Hi
<1>4. Lo(v) \in Byte /\ v = Hi(v) * 256 + Lo(v)
  BY <1>1, HiLo
<1>5. BigEndian(v, 2) = <<Hi(v), Lo(v)>>
  BY <1>1, <1>3, BigEndian2, LoOfByte
<1>6. Unsigned(<<Hi(v), Lo(v)>>) = Hi(v) * 256 + Lo(v)
  BY <1>3, <1>4, UnsignedOf2
<1> QED BY <1>1, <1>3, <1>4, <1>5, <1>6

\* What to_be_bytes writes of a u32, from_be_bytes reads.
LEMMA U32Read ==
  ASSUME NEW v, IsU32(v)
  PROVE  Unsigned(BigEndian(v, 4)) = v
<1>0. v \in Int /\ 0 <= v /\ v \div 65536 <= 65535
  BY DEF IsU32, MaxU16
<1> DEFINE p == Hi(v)
           q == Hi(p)
           h == Hi(q)
           b == Lo(q)
           c == Lo(p)
           d == Lo(v)
<1>1. /\ v = p * 256 + d /\ p \in Int /\ d \in Byte
      /\ p = q * 256 + c /\ q \in Int /\ c \in Byte
      /\ q = h * 256 + b /\ h \in Int /\ b \in Byte
  BY <1>0, HiLo
<1>2. q <= 65535
  BY <1>0, HalfWord
<1>3. BigEndian(v, 4) = <<Lo(h), b, c, d>>
  BY <1>0, BigEndian4
<1> HIDE DEF p, q, h, b, c, d
<1>i. b \in Int /\ 0 <= b /\ b <= 255 /\ c \in Int /\ 0 <= c /\ c <= 255
      /\ d \in Int /\ 0 <= d /\ d <= 255
  BY <1>1, ByteFacts
<1>4. h >= 0
  <2>1. p >= 0
    BY <1>0, <1>1, <1>i
  <2>2. q >= 0
    BY <2>1, <1>1, <1>i
  <2> QED BY <2>2, <1>1, <1>i
<1>5. h <= 255
  BY <1>1, <1>2, <1>i
<1>6. h \in Byte
  BY <1>1, <1>4, <1>5, ByteFacts
<1>7. BigEndian(v, 4) = <<h, b, c, d>>
  BY <1>3, <1>6, LoOfByte
<1>8. Unsigned(<<h, b, c, d>>) = ((h * 256 + b) * 256 + c) * 256 + d
  BY <1>1, <1>6, UnsignedOf4
<1> QED BY <1>1, <1>7, <1>8

\* What to_be_bytes writes of an i32, from_be_bytes reads, negative numbers too.
LEMMA I32Read ==
  ASSUME NEW v, IsI32(v)
  PROVE  Signed32(BigEndian(v, 4)) = v
<1>0. v \in Int /\ v \div 65536 <= 32767 /\ v \div 65536 >= -32768
  BY DEF IsI32
<1> DEFINE p == Hi(v)
           q == Hi(p)
           h == Hi(q)
           b == Lo(q)
           c == Lo(p)
           d == Lo(v)
           e == Lo(h)
           w == <<e, b, c, d>>
<1>1. /\ v = p * 256 + d /\ p \in Int /\ d \in Byte
      /\ p = q * 256 + c /\ q \in Int /\ c \in Byte
      /\ q = h * 256 + b /\ h \in Int /\ b \in Byte
      /\ e \in Byte
  BY <1>0, HiLo
<1>2. q <= 32767 /\ q >= -32768
  BY <1>0, HalfWord
<1>3. BigEndian(v, 4) = w
  BY <1>0, BigEndian4
<1>4. h <= 127 /\ h >= -128
  <2>1. b \in Int /\ 0 <= b /\ b <= 255
    BY <1>1, ByteFacts
  <2> HIDE DEF p, q, h, b, c, d, e, w
  <2> QED BY <1>1, <1>2, <2>1
<1>5. h = IF e >= 128 THEN e - 256 ELSE e
  <2> HIDE DEF p, q, h
  <2>1. h % 256 = IF h < 0 THEN h + 256 ELSE h
    BY <1>1, <1>4
  <2> QED BY <1>1, <1>4, <2>1 DEF Lo
<1> HIDE DEF p, q, h, b, c, d, e
<1>6. w[1] = e /\ Tail(w) = <<b, c, d>>
  OBVIOUS
<1>7. Unsigned(Tail(w)) = (b * 256 + c) * 256 + d
  BY <1>1, <1>6, UnsignedOf3
<1>8. 256 ^ 3 = 16777216
  OBVIOUS
<1> HIDE DEF w
<1>9. Signed32(w) = h * 16777216 + ((b * 256 + c) * 256 + d)
  BY <1>5, <1>6, <1>7, <1>8 DEF Signed32
<1>10. h * 16777216 + ((b * 256 + c) * 256 + d) = v
  BY <1>1, ByteFacts
<1> QED BY <1>3, <1>9, <1>10

\* `as u16` of a number.
Cut(v) == v % (MaxU16 + 1)

\* A number cut to 16 bits, and one that had no more.
LEMMA CutOf ==
  /\ \A v \in Nat : Cut(v) \in Nat
  /\ \A v \in Int : 0 <= v /\ v <= 65535 => Cut(v) = v
<1>1. \A v \in Nat : v % 65536 \in Nat
  BY SMT
<1>2. \A v \in Int : 0 <= v /\ v <= 65535 => v % 65536 = v
  BY SMT
<1>3. MaxU16 + 1 = 65536
  BY DEF MaxU16
<1> QED BY <1>1, <1>2, <1>3 DEF Cut

\* The value after each octet of a number that is cut to 16 bits.
CutTurns(C, s) == C[0] = 0 /\ \A i \in 1 .. Len(s) : C[i] = Cut(C[i - 1] * 256 + s[i])

\* decode_int: the octets one at a time, each shift cut to 16 bits.
LEMMA AsU16Turns ==
  ASSUME NEW bytes \in Seq(Byte)
  PROVE  \E C : CutTurns(C, bytes) /\ AsU16(bytes) = C[Len(bytes)]
<1> DEFINE n == Len(bytes)
           Sum(g) == g = [t \in SUBSET (1 .. n) |->
                            IF t = {} THEN 0 ELSE Cut(g[t \ {Max(t)}] * 256 + bytes[Max(t)])]
           it == CHOOSE g : Sum(g)
<1>n. n \in Nat /\ bytes \in [1 .. n -> Byte]
  OBVIOUS
<1>1. AsU16(bytes) = it[1 .. n]
  <2>1. DOMAIN bytes = 1 .. n
    OBVIOUS
  <2> QED BY <2>1 DEF AsU16, Cut, FoldLeft, MapThenFoldSet
<1> HIDE DEF n
<1>2. \E g : Sum(g)
  <2> DEFINE h == [z \in Nat \X Byte |-> Cut(z[1] * 256 + z[2])]
  <2>1. h \in [Nat \X Byte -> Nat]
    <3>1. \A z \in Nat \X Byte : z[1] \in Nat /\ z[2] \in Nat
      BY DEF Byte
    <3>2. \A z \in Nat \X Byte : Cut(z[1] * 256 + z[2]) \in Nat
      BY <3>1, CutOf, SMTT(30)
    <3> QED BY <3>2
  <2>2. PICK g \in [SUBSET (1 .. n) -> Nat] : Folds(g, h, 0, bytes, n)
    <3> HIDE DEF h
    <3> QED BY <1>n, <2>1, FoldExists
  <2>3. ASSUME NEW t \in SUBSET (1 .. n)
        PROVE  g[t] = IF t = {} THEN 0 ELSE Cut(g[t \ {Max(t)}] * 256 + bytes[Max(t)])
    <3>1. CASE t = {}
      BY <2>2, <3>1 DEF Folds
    <3>2. CASE t # {}
      <4>1. Max(t) \in 1 .. n /\ t \ {Max(t)} \in SUBSET (1 .. n)
        BY <1>n, <3>2, MaxOfBounded
      <4>2. <<g[t \ {Max(t)}], bytes[Max(t)]>> \in Nat \X Byte
        BY <1>n, <4>1
      <4>3. g[t] = h[<<g[t \ {Max(t)}], bytes[Max(t)]>>]
        <5> HIDE DEF h
        <5> QED BY <2>2, <3>2 DEF Folds
      <4>4. \A z \in Nat \X Byte : h[z] = Cut(z[1] * 256 + z[2])
        OBVIOUS
      <4> HIDE DEF h
      <4>5. g[t] = Cut(g[t \ {Max(t)}] * 256 + bytes[Max(t)])
        BY <4>2, <4>3, <4>4
      <4> QED BY <3>2, <4>5
    <3> QED BY <3>1, <3>2
  <2>4. Sum(g)
    BY <2>3
  <2> QED BY <2>4
<1>3. Sum(it)
  BY <1>2
<1>4. \A t \in SUBSET (1 .. n) :
        it[t] = IF t = {} THEN 0 ELSE Cut(it[t \ {Max(t)}] * 256 + bytes[Max(t)])
  BY <1>3
<1> HIDE DEF it
<1> DEFINE C == [i \in 0 .. n |-> it[1 .. i]]
<1>5. C[0] = 0
  <2>1. 1 .. 0 = {} /\ {} \in SUBSET (1 .. n) /\ 0 \in 0 .. n
    BY <1>n
  <2> QED BY <1>4, <2>1
<1>6. \A i \in 1 .. n : C[i] = Cut(C[i - 1] * 256 + bytes[i])
  <2> TAKE i \in 1 .. n
  <2>1. i \in 0 .. n /\ i - 1 \in 0 .. n
    BY <1>n
  <2>2. it[1 .. i] = Cut(it[1 .. (i - 1)] * 256 + bytes[i])
    <3>1. /\ 1 .. i \in SUBSET (1 .. n) /\ 1 .. i # {}
          /\ Max(1 .. i) = i /\ (1 .. i) \ {i} = 1 .. (i - 1)
      BY <1>n, MaxOfUpTo
    <3>2. it[1 .. i] = Cut(it[(1 .. i) \ {Max(1 .. i)}] * 256 + bytes[Max(1 .. i)])
      BY <1>4, <3>1
    <3> QED BY <3>1, <3>2
  <2> QED BY <2>1, <2>2
<1>7. C[n] = it[1 .. n]
  BY <1>n
<1> HIDE DEF C
<1>8. CutTurns(C, bytes)
  BY <1>5, <1>6 DEF CutTurns, n
<1> QED BY <1>1, <1>7, <1>8 DEF n

\* decode_int of one octet.
LEMMA AsU16Of1 ==
  ASSUME NEW a \in Byte
  PROVE  AsU16(<<a>>) = a
<1> DEFINE s == <<a>>
<1>0. 0 \in Byte
  BY ByteFacts
<1>1. s \in Seq(Byte) /\ Len(s) = 1 /\ s[1] = a
  BY <1>0
<1> HIDE DEF s
<1>2. PICK C : CutTurns(C, s) /\ AsU16(s) = C[Len(s)]
  BY <1>1, AsU16Turns
<1>3. C[0] = 0 /\ \A i \in 1 .. 1 : C[i] = Cut(C[i - 1] * 256 + s[i])
  BY <1>1, <1>2 DEF CutTurns
<1>4. C[1] = a
  <2>1. C[1] = Cut(C[0] * 256 + s[1])
    <3>1. 1 \in 1 .. 1 /\ 1 - 1 = 0
      OBVIOUS
    <3> QED BY <1>3, <3>1
  <2> QED BY <1>1, <1>3, <2>1, ByteFacts, CutOf
<1> QED BY <1>1, <1>2, <1>4 DEF s

\* decode_int of two octets.
LEMMA AsU16Of2 ==
  ASSUME NEW a \in Byte, NEW b \in Byte
  PROVE  AsU16(<<a, b>>) = a * 256 + b
<1> DEFINE s == <<a, b>>
<1>0. 0 \in Byte
  BY ByteFacts
<1>1. s \in Seq(Byte) /\ Len(s) = 2 /\ s[1] = a /\ s[2] = b
  BY <1>0
<1> HIDE DEF s
<1>2. PICK C : CutTurns(C, s) /\ AsU16(s) = C[Len(s)]
  BY <1>1, AsU16Turns
<1>3. C[0] = 0 /\ \A i \in 1 .. 2 : C[i] = Cut(C[i - 1] * 256 + s[i])
  BY <1>1, <1>2 DEF CutTurns
<1>4. C[1] = a
  <2>1. C[1] = Cut(C[0] * 256 + s[1])
    <3>1. 1 \in 1 .. 2 /\ 1 - 1 = 0
      OBVIOUS
    <3> QED BY <1>3, <3>1
  <2> QED BY <1>1, <1>3, <2>1, ByteFacts, CutOf
<1>5. C[2] = a * 256 + b
  <2>1. C[2] = Cut(C[1] * 256 + s[2])
    <3>1. 2 \in 1 .. 2 /\ 2 - 1 = 1
      OBVIOUS
    <3> QED BY <1>3, <3>1
  <2>2. Cut(a * 256 + b) = a * 256 + b
    <3>1. a * 256 + b \in Int /\ 0 <= a * 256 + b /\ a * 256 + b <= 65535
      BY ByteFacts
    <3> QED BY <3>1, CutOf
  <2> QED BY <1>1, <1>4, <2>1, <2>2
<1> QED BY <1>1, <1>2, <1>5 DEF s

\* decode_int of three octets whose first is the 0 that encode_int_u16 puts before a
\* high bit.
LEMMA AsU16Of3 ==
  ASSUME NEW a \in Byte, NEW b \in Byte
  PROVE  AsU16(<<0, a, b>>) = a * 256 + b
<1> DEFINE s == <<0, a, b>>
<1>0. 0 \in Byte
  BY ByteFacts
<1>1. s \in Seq(Byte) /\ Len(s) = 3 /\ s[1] = 0 /\ s[2] = a /\ s[3] = b
  BY <1>0
<1> HIDE DEF s
<1>2. PICK C : CutTurns(C, s) /\ AsU16(s) = C[Len(s)]
  BY <1>1, AsU16Turns
<1>3. C[0] = 0 /\ \A i \in 1 .. 3 : C[i] = Cut(C[i - 1] * 256 + s[i])
  BY <1>1, <1>2 DEF CutTurns
<1>4. C[1] = 0
  <2>1. C[1] = Cut(C[0] * 256 + s[1])
    <3>1. 1 \in 1 .. 3 /\ 1 - 1 = 0
      OBVIOUS
    <3> QED BY <1>3, <3>1
  <2> QED BY <1>1, <1>3, <2>1, ByteFacts, CutOf
<1>5. C[2] = a
  <2>1. C[2] = Cut(C[1] * 256 + s[2])
    <3>1. 2 \in 1 .. 3 /\ 2 - 1 = 1
      OBVIOUS
    <3> QED BY <1>3, <3>1
  <2> QED BY <1>1, <1>4, <2>1, ByteFacts, CutOf
<1>6. C[3] = a * 256 + b
  <2>1. C[3] = Cut(C[2] * 256 + s[3])
    <3>1. 3 \in 1 .. 3 /\ 3 - 1 = 2
      OBVIOUS
    <3> QED BY <1>3, <3>1
  <2>2. Cut(a * 256 + b) = a * 256 + b
    <3>1. a * 256 + b \in Int /\ 0 <= a * 256 + b /\ a * 256 + b <= 65535
      BY ByteFacts
    <3> QED BY <3>1, CutOf
  <2> QED BY <1>1, <1>5, <2>1, <2>2
<1> QED BY <1>1, <1>2, <1>6 DEF s

\* One, two and three octets are sequences of octets.
LEMMA BytePairs ==
  ASSUME NEW a \in Byte, NEW b \in Byte
  PROVE  /\ <<a>> \in Seq(Byte) /\ Len(<<a>>) = 1
         /\ <<a, b>> \in Seq(Byte) /\ Len(<<a, b>>) = 2
         /\ <<0>> \o <<a, b>> = <<0, a, b>>
         /\ <<0, a, b>> \in Seq(Byte) /\ Len(<<0, a, b>>) = 3
<1>1. 0 \in Byte
  BY ByteFacts
<1>2. <<a>> \in Seq(Byte) /\ Len(<<a>>) = 1
  OBVIOUS
<1>3. <<a, b>> \in Seq(Byte) /\ Len(<<a, b>>) = 2
  OBVIOUS
<1>5. <<0, a, b>> \in Seq(Byte) /\ Len(<<0, a, b>>) = 3
  BY <1>1
<1>4. <<0>> \o <<a, b>> = <<0, a, b>>
  <2> DEFINE x == <<0>>
             y == <<a, b>>
             z == <<0, a, b>>
  <2>1. /\ x \in Seq(Byte) /\ Len(x) = 1 /\ x[1] = 0
        /\ y \in Seq(Byte) /\ Len(y) = 2 /\ y[1] = a /\ y[2] = b
        /\ z \in Seq(Byte) /\ Len(z) = 3 /\ z[1] = 0 /\ z[2] = a /\ z[3] = b
    BY <1>1, <1>5
  <2> HIDE DEF x, y, z
  <2>2. /\ x \o y \in Seq(Byte) /\ Len(x \o y) = 3
        /\ (x \o y)[1] = x[1] /\ (x \o y)[2] = y[1] /\ (x \o y)[3] = y[2]
    <3>1. /\ x \o y \in Seq(Byte) /\ Len(x \o y) = 1 + 2
          /\ \A i \in 1 .. 3 : (x \o y)[i] = IF i <= 1 THEN x[i] ELSE y[i - 1]
      <4>1. /\ x \o y \in Seq(Byte) /\ Len(x \o y) = Len(x) + Len(y)
            /\ \A i \in 1 .. Len(x) + Len(y) :
                 (x \o y)[i] = IF i <= Len(x) THEN x[i] ELSE y[i - Len(x)]
        BY <2>1, ConcatProperties
      <4>2. Len(x) = 1 /\ Len(y) = 2 /\ Len(x) + Len(y) = 3
        BY <2>1
      <4> QED BY <4>1, <4>2
    <3>2. 1 \in 1 .. 3 /\ 2 \in 1 .. 3 /\ 3 \in 1 .. 3
      OBVIOUS
    <3>3. /\ (x \o y)[1] = IF 1 <= 1 THEN x[1] ELSE y[1 - 1]
          /\ (x \o y)[2] = IF 2 <= 1 THEN x[2] ELSE y[2 - 1]
          /\ (x \o y)[3] = IF 3 <= 1 THEN x[3] ELSE y[3 - 1]
      BY <3>1, <3>2
    <3> QED BY <3>1, <3>3
  <2>3. \A i \in 1 .. 3 : (x \o y)[i] = z[i]
    BY <2>1, <2>2
  <2>4. x \o y = z
    BY <2>1, <2>2, <2>3, SeqEqual
  <2> QED BY <2>4 DEF x, y, z
<1> QED BY <1>2, <1>3, <1>4, <1>5

\* What encode_int_u16 writes in one to three octets, decode_int reads.
LEMMA IntU16Read ==
  ASSUME NEW v \in U16
  PROVE  /\ IntU16(v) \in Seq(Byte) /\ Len(IntU16(v)) \in Nat
         /\ 1 <= Len(IntU16(v)) /\ Len(IntU16(v)) <= 3
         /\ AsU16(IntU16(v)) = v
<1>1. v \in Int /\ 0 <= v
  BY DEF U16
<1> DEFINE a == Hi(v)
           b == Lo(v)
           w == IntU16(v)
           is(n) == w \in Seq(Byte) /\ Len(w) = n /\ AsU16(w) = v
<1>2. a \in Byte /\ b \in Byte /\ v = a * 256 + b
  BY U16Read
<1>3. BigEndian(v, 2) = <<a, b>>
  BY U16Read
<1> HIDE DEF a, b
<1>4. CASE v < \h80
  <2>1. v \in Byte
    BY <1>1, <1>4, ByteFacts
  <2>2. w = <<v>>
    BY <1>1, <1>4 DEF IntU16
  <2>3. is(1)
    BY <2>1, <2>2, AsU16Of1, BytePairs
  <2> QED BY <2>3
<1>5. CASE \h80 <= v /\ v <= \h7FFF
  <2>1. w = <<a, b>>
    BY <1>1, <1>3, <1>5 DEF IntU16
  <2>2. is(2)
    BY <1>2, <2>1, AsU16Of2, BytePairs, ZenonT(60)
  <2> QED BY <2>2
<1>6. CASE ~(v < \h80) /\ ~(\h80 <= v /\ v <= \h7FFF)
  <2>1. w = <<0>> \o BigEndian(v, 2)
    BY <1>6 DEF IntU16
  <2>2. w = <<0, a, b>>
    BY <1>2, <1>3, <2>1, BytePairs
  <2>3. is(3)
    BY <1>2, <2>2, AsU16Of3, BytePairs, ZenonT(60)
  <2> QED BY <2>3
<1> QED BY <1>4, <1>5, <1>6

-------------------------------------------------------------------------------
(* Fields: a tag, a length of one or three octets, a value. *)

\* A reader of b that met no error: g was read last, y is still to be read.
Reads(r, b, y, g, f) == \E p : r = Mk(b, p, g, "none", f) /\ At(b, p, y)

\* A piece that is to be read is taken whole, and what follows is to be read.
LEMMA ReadsTake ==
  ASSUME NEW r, NEW b, NEW x \in Seq(Byte), NEW y \in Seq(Byte), NEW g, NEW f,
         Reads(r, b, x \o y, g, f)
  PROVE  Reads(Take(r, Len(x)), b, y, x, f)
<1>1. PICK p : r = Mk(b, p, g, "none", f) /\ At(b, p, x \o y)
  BY DEF Reads
<1>2. /\ Take(Mk(b, p, g, "none", f), Len(x)) = Mk(b, p + Len(x), x, "none", f)
      /\ At(b, p + Len(x), y)
  BY <1>1, TakeOf
<1> QED BY <1>1, <1>2 DEF Reads

\* The fields of a reader.
LEMMA MkFields ==
  ASSUME NEW b, NEW p, NEW g, NEW e, NEW f
  PROVE  /\ Mk(b, p, g, e, f).buf = b /\ Mk(b, p, g, e, f).pos = p
         /\ Mk(b, p, g, e, f).got = g /\ Mk(b, p, g, e, f).err = e
         /\ Mk(b, p, g, e, f).fields = f
BY DEF Mk

\* What is known of the fields of a reader without an error.
LEMMA ReadsFields ==
  ASSUME NEW r, NEW b, NEW y, NEW g, NEW f, Reads(r, b, y, g, f)
  PROVE  /\ r.buf = b /\ r.got = g /\ r.err = "none" /\ r.fields = f
         /\ At(b, r.pos, y)
<1>1. PICK p : r = Mk(b, p, g, "none", f) /\ At(b, p, y)
  BY DEF Reads
<1> QED BY <1>1, MkFields

\* Another value for what was read last, and a name for it.
WithGot(r, g) == [r EXCEPT !.got = g]
Noted(r, name) == [r EXCEPT !.fields[name] = r.got]

\* A reader does not move when what it read last is put in other words.
LEMMA ReadsWithGot ==
  ASSUME NEW r, NEW b, NEW y, NEW g, NEW f, NEW h, Reads(r, b, y, g, f)
  PROVE  Reads(WithGot(r, h), b, y, h, f)
<1>1. PICK p : r = Mk(b, p, g, "none", f) /\ At(b, p, y)
  BY DEF Reads
<1>2. WithGot(r, h) = Mk(b, p, h, "none", f)
  BY <1>1 DEF WithGot, Mk
<1> QED BY <1>1, <1>2 DEF Reads

\* A reader does not move when what it read last is noted under a name.
LEMMA ReadsNoted ==
  ASSUME NEW r, NEW b, NEW y, NEW g, NEW f, NEW name, Reads(r, b, y, g, f)
  PROVE  Reads(Noted(r, name), b, y, g, [f EXCEPT ![name] = g])
<1>1. PICK p : r = Mk(b, p, g, "none", f) /\ At(b, p, y)
  BY DEF Reads
<1>2. Noted(r, name) = Mk(b, p, g, "none", [f EXCEPT ![name] = g])
  BY <1>1 DEF Noted, Mk
<1> QED BY <1>1, <1>2 DEF Reads

\* expect_tag accepts the tag that is there.
LEMMA ReadsTag ==
  ASSUME NEW r, NEW b, NEW tag \in Byte, NEW y \in Seq(Byte), NEW g, NEW f,
         Reads(r, b, <<tag>> \o y, g, f)
  PROVE  Reads(Tag(r, tag), b, y, <<tag>>, f)
<1> DEFINE t == Take(r, 1)
<1>1. Reads(t, b, y, <<tag>>, f)
  <2>1. <<tag>> \in Seq(Byte) /\ Len(<<tag>>) = 1
    BY BytePieces
  <2>2. Reads(Take(r, Len(<<tag>>)), b, y, <<tag>>, f)
    BY <2>1, ReadsTake
  <2> QED BY <2>1, <2>2
<1>2. t.got = <<tag>>
  <2> HIDE DEF t
  <2> QED BY <1>1, ReadsFields
<1>3. Tag(r, tag) = t
  BY <1>2 DEF Tag
<1> QED BY <1>1, <1>3

\* read_ber_length reads the long form: 0x82 and two octets.
LEMMA ReadsLongLength ==
  ASSUME NEW r, NEW b, NEW n \in U16, NEW y \in Seq(Byte), NEW g, NEW f,
         Reads(r, b, (<<\h82>> \o BigEndian(n, 2)) \o y, g, f)
  PROVE  Reads(ReadLength(r), b, y, n, f)
<1> DEFINE first == Take(r, 1)
           long == Take(first, IF first.got = <<\h81>> THEN 1 ELSE 2)
           e == BigEndian(n, 2)
           t == <<\h82>>
<1>n. n \in Int /\ 0 <= n
  BY DEF U16
<1>0. \h82 \in Byte
  BY ByteFacts
<1>1. t \in Seq(Byte) /\ e \in Seq(Byte) /\ Len(t) = 1 /\ Len(e) = 2
  BY <1>0, <1>n, BytePieces, BigEndian2
<1>2. t[1] = \h82 /\ Unsigned(e) = n
  BY U16Read
<1>4. t # <<\h81>>
  <2>1. <<\h81>>[1] = \h81
    OBVIOUS
  <2> HIDE DEF t
  <2> QED BY <1>2, <2>1
<1>t. t \in Seq(Byte) /\ e \in Seq(Byte)
  BY <1>1
<1>r. Reads(r, b, (t \o e) \o y, g, f)
  OBVIOUS
<1> HIDE DEF t, e
<1> DEFINE z == e \o y
<1>5. z \in Seq(Byte) /\ (t \o e) \o y = t \o z
  BY <1>t, BytePieces
<1>6. Reads(r, b, t \o z, g, f)
  BY <1>r, <1>5
<1>7. Reads(Take(r, Len(t)), b, z, t, f)
  <2> HIDE DEF z
  <2> QED BY <1>t, <1>5, <1>6, ReadsTake
<1>8. Reads(first, b, z, t, f)
  BY <1>1, <1>7
<1> HIDE DEF first
<1>9. first.err = "none" /\ first.got = t
  BY <1>8, ReadsFields
<1>10. Reads(Take(first, Len(e)), b, y, e, f)
  BY <1>t, <1>8, ReadsTake
<1>11. Reads(long, b, y, e, f)
  BY <1>1, <1>4, <1>9, <1>10
<1> HIDE DEF long
<1>12. long.err = "none" /\ long.got = e
  BY <1>11, ReadsFields
<1>13. ReadLength(r) = WithGot(long, IF long.err = "none" THEN Unsigned(long.got) ELSE long.got)
  <2>1. /\ ~(first.err # "none") /\ first.got[1] = \h82 /\ ~(first.got[1] < \h80)
        /\ ~(first.got[1] \notin {\h81, \h82})
    BY <1>2, <1>9
  <2> QED BY <2>1 DEF ReadLength, WithGot, first, long
<1>14. ReadLength(r) = WithGot(long, n)
  BY <1>2, <1>12, <1>13
<1> QED BY <1>11, <1>14, ReadsWithGot

\* read_ber_length reads what write_primitive_tlv puts before a value, in the short form
\* or the long one.
LEMMA ReadsLength ==
  ASSUME NEW r, NEW b, NEW n \in U16, NEW y \in Seq(Byte), NEW g, NEW f,
         Reads(r, b, BerLength(n) \o y, g, f)
  PROVE  Reads(ReadLength(r), b, y, n, f)
<1> DEFINE first == Take(r, 1)
<1>n. n \in Int /\ 0 <= n
  BY DEF U16
<1>1. CASE n < 128
  <2>1. n \in Byte
    BY <1>n, <1>1, ByteFacts
  <2>2. <<n>> \in Seq(Byte) /\ Len(<<n>>) = 1 /\ <<n>>[1] = n
    BY <2>1, BytePieces
  <2>3. Reads(r, b, <<n>> \o y, g, f)
    BY <1>1 DEF BerLength
  <2>4. Reads(Take(r, Len(<<n>>)), b, y, <<n>>, f)
    BY <2>2, <2>3, ReadsTake
  <2>5. Reads(first, b, y, <<n>>, f)
    BY <2>2, <2>4
  <2>6. first.err = "none" /\ first.got[1] = n
    <3> HIDE DEF first
    <3> QED BY <2>2, <2>5, ReadsFields
  <2>7. ReadLength(r) = WithGot(first, n)
    BY <1>1, <2>6 DEF ReadLength, WithGot
  <2> HIDE DEF first
  <2> QED BY <2>5, <2>7, ReadsWithGot
<1>2. CASE ~(n < 128)
  <2>1. BerLength(n) = <<\h82>> \o BigEndian(n, 2)
    BY <1>2 DEF BerLength
  <2> QED BY <2>1, ReadsLongLength
<1> QED BY <1>1, <1>2

\* The length of a primitive field is one octet below 128, and three from there on.
LEMMA BerBytes ==
  ASSUME NEW n \in Nat
  PROVE  /\ BerLength(n) \in Seq(Byte)
         /\ Len(BerLength(n)) = IF n < 128 THEN 1 ELSE 3
<1>n. n \in Int /\ 0 <= n
  OBVIOUS
<1>1. CASE n < 128
  <2>1. n \in Byte
    BY <1>n, <1>1, ByteFacts
  <2> QED BY <1>1, <2>1, BytePieces DEF BerLength
<1>2. CASE ~(n < 128)
  <2>0. \h82 \in Byte
    BY ByteFacts
  <2>1. <<\h82>> \in Seq(Byte) /\ Len(<<\h82>>) = 1
    BY <2>0, BytePieces
  <2>2. BigEndian(n, 2) \in Seq(Byte) /\ Len(BigEndian(n, 2)) = 2
    BY <1>n, BigEndian2
  <2>3. BerLength(n) = <<\h82>> \o BigEndian(n, 2)
    BY <1>2 DEF BerLength
  <2> QED BY <1>2, <2>1, <2>2, <2>3, BytePieces, SMTT(30)
<1> QED BY <1>1, <1>2

\* Octets joined to octets.
LEMMA Joined ==
  ASSUME NEW x \in Seq(Byte), NEW y \in Seq(Byte)
  PROVE  x \o y \in Seq(Byte) /\ Len(x \o y) = Len(x) + Len(y)
BY BytePieces

\* Joining octets is associative.
LEMMA Regrouped ==
  ASSUME NEW x \in Seq(Byte), NEW y \in Seq(Byte), NEW z \in Seq(Byte)
  PROVE  (x \o y) \o z = x \o (y \o z)
BY BytePieces

\* A field is its value, its tag and its length of one or three octets.
LEMMA TlvSize ==
  ASSUME NEW tag \in Byte, NEW v \in Seq(Byte)
  PROVE  /\ Tlv(tag, v) \in Seq(Byte)
         /\ Len(Tlv(tag, v)) = Len(v) + IF Len(v) < 128 THEN 2 ELSE 4
<1> DEFINE n == Len(v)
           l == BerLength(n)
           t == <<tag>>
<1>n. n \in Nat
  OBVIOUS
<1>1. t \in Seq(Byte) /\ Len(t) = 1
  BY BytePieces
<1>2. l \in Seq(Byte) /\ Len(l) = IF n < 128 THEN 1 ELSE 3
  <2> HIDE DEF n
  <2> QED BY <1>n, BerBytes
<1>3. Tlv(tag, v) = (t \o l) \o v
  BY DEF Tlv
<1> HIDE DEF l, t
<1> DEFINE u == t \o l
<1>4. u \in Seq(Byte) /\ Len(u) = Len(t) + Len(l)
  BY <1>1, <1>2, Joined
<1> HIDE DEF u
<1>5. u \o v \in Seq(Byte) /\ Len(u \o v) = Len(u) + n
  BY <1>4, Joined
<1> HIDE DEF n
<1>6. Len(u \o v) = n + IF n < 128 THEN 2 ELSE 4
  BY <1>n, <1>1, <1>2, <1>4, <1>5
<1> QED BY <1>3, <1>5, <1>6 DEF u, n

\* A field as the decoder meets it: tag, length, value, and what follows.
LEMMA TlvPieces ==
  ASSUME NEW tag \in Byte, NEW v \in Seq(Byte), NEW y \in Seq(Byte)
  PROVE  /\ BerLength(Len(v)) \in Seq(Byte) /\ v \o y \in Seq(Byte)
         /\ BerLength(Len(v)) \o (v \o y) \in Seq(Byte)
         /\ Tlv(tag, v) \o y = <<tag>> \o (BerLength(Len(v)) \o (v \o y))
<1> DEFINE n == Len(v)
           l == BerLength(n)
           t == <<tag>>
           z == v \o y
<1>n. n \in Nat
  OBVIOUS
<1>1. t \in Seq(Byte)
  BY BytePieces
<1>2. l \in Seq(Byte)
  <2> HIDE DEF n
  <2> QED BY <1>n, BerBytes
<1>3. Tlv(tag, v) = (t \o l) \o v
  BY DEF Tlv
<1>4. z \in Seq(Byte)
  BY Joined
<1> HIDE DEF l, t
<1>5. ((t \o l) \o v) \o y = (t \o l) \o z
  <2> DEFINE u == t \o l
  <2>1. u \in Seq(Byte)
    BY <1>1, <1>2, Joined
  <2> HIDE DEF u
  <2>2. (u \o v) \o y = u \o z
    BY <2>1, Regrouped
  <2> QED BY <2>2 DEF u
<1> HIDE DEF z
<1>6. (t \o l) \o z = t \o (l \o z) /\ l \o z \in Seq(Byte)
  BY <1>1, <1>2, <1>4, Regrouped, Joined, SMTT(30)
<1> QED BY <1>2, <1>3, <1>4, <1>5, <1>6 DEF l, t, z, n

\* read_tlv reads the field that write_primitive_tlv wrote, its value whole and nothing
\* of what follows.
LEMMA ReadsTlv ==
  ASSUME NEW r, NEW b, NEW tag \in Byte, NEW v \in Seq(Byte), Len(v) \in U16,
         NEW y \in Seq(Byte), NEW g, NEW f,
         Reads(r, b, Tlv(tag, v) \o y, g, f)
  PROVE  Reads(ReadTlv(r, tag), b, y, v, f)
<1> DEFINE l == BerLength(Len(v))
           length == ReadLength(Tag(r, tag))
<1>1. /\ l \in Seq(Byte) /\ v \o y \in Seq(Byte) /\ l \o (v \o y) \in Seq(Byte)
      /\ Tlv(tag, v) \o y = <<tag>> \o (l \o (v \o y))
  BY TlvPieces
<1>2. Reads(r, b, <<tag>> \o (l \o (v \o y)), g, f)
  BY <1>1
<1>3. Reads(Tag(r, tag), b, l \o (v \o y), <<tag>>, f)
  <2> HIDE DEF l
  <2> QED BY <1>1, <1>2, ReadsTag
<1>4. Reads(length, b, v \o y, Len(v), f)
  BY <1>1, <1>3, ReadsLength
<1> HIDE DEF length
<1>5. length.err = "none" /\ length.got = Len(v)
  BY <1>4, ReadsFields
<1>6. ReadTlv(r, tag) = Take(length, Len(v))
  BY <1>5 DEF ReadTlv, length
<1> QED BY <1>4, <1>6, ReadsTake

-------------------------------------------------------------------------------
(* The layout of a payload, an item at a time. *)

\* The readers after each item of the layout.
ItemTurns(a, r, n) ==
  a = [k \in 0 .. n |->
         IF k = 0 THEN r ELSE CHOOSE s \in {ReadItem(a[k - 1], SavPduLayout[k])} : TRUE]

\* The readers after each item of the layout are given by the first and by each one's
\* item.
LEMMA ItemTurnsAre ==
  ASSUME NEW a, NEW r, NEW n \in Nat
  PROVE  ItemTurns(a, r, n) <=>
           /\ a = [k \in 0 .. n |-> a[k]]
           /\ a[0] = r
           /\ \A k \in 1 .. n : a[k] = ReadItem(a[k - 1], SavPduLayout[k])
<1> DEFINE step(k) == IF k = 0 THEN r ELSE CHOOSE s \in {ReadItem(a[k - 1], SavPduLayout[k])} : TRUE
<1>1. step(0) = r
  OBVIOUS
<1>2. \A k \in 1 .. n : step(k) = ReadItem(a[k - 1], SavPduLayout[k])
  <2> TAKE k \in 1 .. n
  <2> DEFINE x == ReadItem(a[k - 1], SavPduLayout[k])
  <2>1. (CHOOSE s \in {x} : TRUE) = x
    <3> HIDE DEF x
    <3> QED OBVIOUS
  <2>2. k # 0
    OBVIOUS
  <2> QED BY <2>1, <2>2
<1>3. ItemTurns(a, r, n) <=> a = [k \in 0 .. n |-> step(k)]
  BY DEF ItemTurns
<1> HIDE DEF step
<1>4. 0 \in 0 .. n /\ \A k \in 0 .. n : k = 0 \/ k \in 1 .. n
  OBVIOUS
<1>5. ASSUME a = [k \in 0 .. n |-> step(k)]
      PROVE  /\ a = [k \in 0 .. n |-> a[k]]
             /\ \A k \in 0 .. n : a[k] = step(k)
  BY <1>5
<1>6. ASSUME a = [k \in 0 .. n |-> a[k]], \A k \in 0 .. n : a[k] = step(k)
      PROVE  a = [k \in 0 .. n |-> step(k)]
  BY <1>6
<1>7. \A k \in 1 .. n : k \in 0 .. n
  OBVIOUS
<1> QED BY <1>1, <1>2, <1>3, <1>4, <1>5, <1>6, <1>7

\* Such readers exist.
LEMMA ItemTurnsExist ==
  ASSUME NEW r, NEW n \in Nat
  PROVE  \E a : ItemTurns(a, r, n)
<1> DEFINE Holds(k) == \E a : ItemTurns(a, r, k)
           Bad == {k \in Nat : ~Holds(k)}
<1> SUFFICES ASSUME Bad # {}
             PROVE  FALSE
  <2> HIDE DEF Holds
  <2>1. Bad = {} => Holds(n)
    OBVIOUS
  <2> QED BY <2>1 DEF Holds
<1>1. PICK m \in Bad : \A k \in Bad : m <= k
  <2>1. Bad \in SUBSET Nat
    OBVIOUS
  <2> HIDE DEF Bad
  <2> QED BY <2>1, LeastExists
<1>2. m \in Nat /\ ~Holds(m)
  OBVIOUS
<1>3. CASE m = 0
  <2> DEFINE a == [k \in {0} |-> r]
  <2>1. 0 .. 0 = {0} /\ 0 \in Nat
    OBVIOUS
  <2>2. a[0] = r /\ a = [k \in {0} |-> a[k]] /\ \A k \in 1 .. 0 : FALSE
    OBVIOUS
  <2> HIDE DEF a
  <2>3. ItemTurns(a, r, 0)
    BY <2>1, <2>2, ItemTurnsAre
  <2>4. Holds(0)
    BY <2>3
  <2> HIDE DEF Holds
  <2> QED BY <1>2, <1>3, <2>4
<1>4. CASE m # 0
  <2>m. m \in Nat /\ m >= 1
    BY <1>2, <1>4
  <2>1. m - 1 \in Nat /\ Holds(m - 1)
    <3>1. m - 1 \in Nat /\ ~(m <= m - 1)
      BY <2>m
    <3> HIDE DEF Holds
    <3> QED BY <1>1, <3>1
  <2>2. PICK a : ItemTurns(a, r, m - 1)
    BY <2>1
  <2>3. /\ a = [k \in 0 .. (m - 1) |-> a[k]] /\ a[0] = r
        /\ \A k \in 1 .. (m - 1) : a[k] = ReadItem(a[k - 1], SavPduLayout[k])
    BY <2>1, <2>2, ItemTurnsAre
  <2> DEFINE c == [k \in 0 .. m |-> IF k = m THEN ReadItem(a[m - 1], SavPduLayout[m]) ELSE a[k]]
  <2>4. c = [k \in 0 .. m |-> c[k]]
    OBVIOUS
  <2>5. c[0] = r
    <3>1. 0 \in 0 .. m /\ 0 # m
      BY <2>m
    <3> QED BY <2>3, <3>1
  <2>6. c[m] = ReadItem(a[m - 1], SavPduLayout[m])
    <3>1. m \in 0 .. m
      BY <2>m
    <3> QED BY <3>1
  <2>7. \A k \in 0 .. (m - 1) : c[k] = a[k]
    <3>1. \A k \in 0 .. (m - 1) : k \in 0 .. m /\ k # m
      BY <2>m
    <3> QED BY <3>1
  <2> HIDE DEF c
  <2>8. \A k \in 1 .. m : c[k] = ReadItem(c[k - 1], SavPduLayout[k])
    <3> TAKE k \in 1 .. m
    <3>1. CASE k = m
      <4>1. m - 1 \in 0 .. (m - 1)
        BY <2>m
      <4> QED BY <2>6, <2>7, <3>1, <4>1
    <3>2. CASE k # m
      <4>1. k \in 1 .. (m - 1) /\ k \in 0 .. (m - 1) /\ k - 1 \in 0 .. (m - 1)
        BY <2>m, <3>2
      <4> QED BY <2>3, <2>7, <4>1
    <3> QED BY <3>1, <3>2
  <2>9. ItemTurns(c, r, m)
    BY <2>m, <2>4, <2>5, <2>8, ItemTurnsAre
  <2>10. Holds(m)
    BY <2>9
  <2> HIDE DEF Holds
  <2> QED BY <1>2, <2>10
<1> QED BY <1>3, <1>4

\* The readers after each item do not depend on how many items are read.
LEMMA ItemTurnsAgree ==
  ASSUME NEW a, NEW c, NEW r, NEW n \in Nat, NEW m \in Nat, n <= m,
         ItemTurns(a, r, n), ItemTurns(c, r, m)
  PROVE  \A k \in 0 .. n : a[k] = c[k]
<1>1. a[0] = r /\ \A k \in 1 .. n : a[k] = ReadItem(a[k - 1], SavPduLayout[k])
  BY ItemTurnsAre
<1>2. c[0] = r /\ \A k \in 1 .. m : c[k] = ReadItem(c[k - 1], SavPduLayout[k])
  BY ItemTurnsAre
<1> DEFINE Bad == {k \in 0 .. n : a[k] # c[k]}
<1> SUFFICES ASSUME Bad # {}
             PROVE  FALSE
  OBVIOUS
<1>3. PICK l \in Bad : \A k \in Bad : l <= k
  <2>1. Bad \in SUBSET Nat
    OBVIOUS
  <2> HIDE DEF Bad
  <2> QED BY <2>1, LeastExists
<1>4. l \in 0 .. n /\ a[l] # c[l]
  OBVIOUS
<1>5. l # 0
  BY <1>1, <1>2, <1>4
<1>6. l \in 1 .. n /\ l \in 1 .. m /\ l - 1 \in 0 .. n /\ ~(l <= l - 1)
  BY <1>4, <1>5
<1>7. a[l - 1] = c[l - 1]
  BY <1>3, <1>6
<1> QED BY <1>1, <1>2, <1>4, <1>6, <1>7

\* ReadItems, an item at a time.
LEMMA ReadItemsTurns ==
  ASSUME NEW r, NEW n \in Nat
  PROVE  /\ ReadItems(r, 0) = r
         /\ n > 0 => ReadItems(r, n) = ReadItem(ReadItems(r, n - 1), SavPduLayout[n])
<1> DEFINE at(k) == CHOOSE a : ItemTurns(a, r, k)
<1>1. \A k \in Nat : ReadItems(r, k) = at(k)[k]
  BY DEF ReadItems, ItemTurns
<1>2. \A k \in Nat : ItemTurns(at(k), r, k)
  BY ItemTurnsExist
<1> HIDE DEF at
<1>3. ReadItems(r, 0) = r
  BY <1>1, <1>2, ItemTurnsAre
<1>4. ASSUME n > 0
      PROVE  ReadItems(r, n) = ReadItem(ReadItems(r, n - 1), SavPduLayout[n])
  <2>1. n - 1 \in Nat /\ n - 1 <= n /\ n \in 1 .. n /\ n - 1 \in 0 .. (n - 1)
    BY <1>4
  <2>2. at(n)[n] = ReadItem(at(n)[n - 1], SavPduLayout[n])
    BY <1>2, <2>1, ItemTurnsAre
  <2>3. at(n - 1)[n - 1] = at(n)[n - 1]
    BY <1>2, <2>1, ItemTurnsAgree
  <2> QED BY <1>1, <2>1, <2>2, <2>3
<1> QED BY <1>3, <1>4

\* patch_length16 leaves the tag, the long form of the length, and the content.
LEMMA ConstructedBytes ==
  ASSUME NEW tag \in Byte, NEW c \in Seq(Byte)
  PROVE  /\ Constructed(tag, c) \in Seq(Byte) /\ Len(Constructed(tag, c)) = 4 + Len(c)
         /\ Constructed(tag, c) = <<tag>> \o ((<<\h82>> \o BigEndian(Len(c), 2)) \o c)
<1> DEFINE s == <<tag>>
           t == <<\h82>>
           e == BigEndian(Len(c), 2)
<1>1. s \in Seq(Byte) /\ t \in Seq(Byte) /\ e \in Seq(Byte)
  <2>1. \h82 \in Byte
    BY ByteFacts
  <2>2. Len(c) \in Int
    OBVIOUS
  <2> QED BY <2>1, <2>2, BytePieces, BigEndian2
<1>2. Len(s) = 1 /\ Len(t) = 1 /\ Len(e) = 2
  <2>1. \h82 \in Byte
    BY ByteFacts
  <2>2. Len(c) \in Int
    OBVIOUS
  <2> QED BY <2>1, <2>2, BytePieces, BigEndian2
<1>3. <<tag, \h82>> = s \o t
  <2> DEFINE w == <<tag, \h82>>
  <2>1. /\ w = [i \in 1 .. 2 |-> w[i]] /\ w[1] = tag /\ w[2] = \h82
        /\ w \in Seq(Byte) /\ Len(w) = 2
    <3>1. \h82 \in Byte
      BY ByteFacts
    <3> QED BY <3>1
  <2>2. s[1] = tag /\ t[1] = \h82
    OBVIOUS
  <2> HIDE DEF w, s, t
  <2>3. /\ s \o t \in Seq(Byte) /\ Len(s \o t) = Len(s) + Len(t)
        /\ \A i \in 1 .. Len(s) + Len(t) :
             (s \o t)[i] = IF i <= Len(s) THEN s[i] ELSE t[i - Len(s)]
    BY <1>1, ConcatProperties
  <2>4. \A i \in 1 .. 2 : i = 1 \/ i = 2
    OBVIOUS
  <2>5. \A i \in 1 .. 2 : (s \o t)[i] = w[i]
    <3>1. Len(s) + Len(t) = 2 /\ Len(s) = 1
      BY <1>2
    <3>2. \A i \in 1 .. 2 : (s \o t)[i] = IF i <= 1 THEN s[i] ELSE t[i - 1]
      BY <2>3, <3>1
    <3>3. 1 \in 1 .. 2 /\ 1 <= 1 /\ 2 \in 1 .. 2 /\ ~(2 <= 1) /\ 2 - 1 = 1
      OBVIOUS
    <3>4. (s \o t)[1] = s[1]
      BY <3>2, <3>3
    <3>5. (s \o t)[2] = t[2 - 1]
      BY <3>2, <3>3
    <3>6. (s \o t)[1] = w[1] /\ (s \o t)[2] = w[2]
      BY <2>1, <2>2, <3>3, <3>4, <3>5
    <3> QED BY <2>4, <3>6
  <2>6. Len(s \o t) = 2
    BY <1>2, <2>3
  <2>7. w = s \o t
    <3>1. w \in Seq(Byte) /\ s \o t \in Seq(Byte) /\ Len(w) = Len(s \o t)
      BY <2>1, <2>3, <2>6
    <3>2. \A i \in 1 .. Len(w) : w[i] = (s \o t)[i]
      BY <2>1, <2>5
    <3> HIDE DEF w
    <3> QED BY <3>1, <3>2, SeqEqual
  <2> QED BY <2>7 DEF w
<1>4. Constructed(tag, c) = ((s \o t) \o e) \o c
  BY <1>3 DEF Constructed
<1> HIDE DEF s, t, e
<1>5. s \o t \in Seq(Byte) /\ t \o e \in Seq(Byte) /\ (s \o t) \o e = s \o (t \o e)
  BY <1>1, BytePieces
<1>6. (t \o e) \o c \in Seq(Byte) /\ (s \o (t \o e)) \o c = s \o ((t \o e) \o c)
  BY <1>1, <1>5, BytePieces, ZenonT(60)
<1>7. /\ s \o ((t \o e) \o c) \in Seq(Byte)
      /\ Len(s \o ((t \o e) \o c)) = Len(s) + Len((t \o e) \o c)
  BY <1>1, <1>6, BytePieces
<1>8. Len((t \o e) \o c) = Len(t \o e) + Len(c) /\ Len(t \o e) = Len(t) + Len(e)
  BY <1>1, <1>5, BytePieces
<1>9. Len(s \o ((t \o e) \o c)) = 4 + Len(c)
  <2>1. Len(c) \in Nat
    OBVIOUS
  <2> QED BY <2>1, <1>2, <1>7, <1>8
<1> QED BY <1>4, <1>5, <1>6, <1>7, <1>9 DEF s, t, e

-------------------------------------------------------------------------------
(* What the fields hold that were read. *)

\* The fields that were read under the names in S are those of F.
Agrees(f, F, S) == DOMAIN f = Names /\ \A m \in S : f[m] = F[m]
Got(r, b, y, F, S) == \E g, f : Reads(r, b, y, g, f) /\ Agrees(f, F, S)

\* Noting the expected value under a name adds the name, and noting another name's value
\* disturbs none.
LEMMA AgreesPut ==
  ASSUME NEW f, NEW F, NEW S \in SUBSET Names, Agrees(f, F, S), NEW name \in Names, NEW x
  PROVE  /\ x = F[name] => Agrees([f EXCEPT ![name] = x], F, S \cup {name})
         /\ name \notin S => Agrees([f EXCEPT ![name] = x], F, S)
BY DEF Agrees

\* Reading an item of plain octets.
LEMMA OctetsItem ==
  ASSUME NEW r, NEW name, NEW n \in Nat
  PROVE  ReadItem(r, Octets(name, n)) = Noted(Take(r, n), name)
<1>1. Max({n}) = n
  BY DEF Max
<1> QED BY <1>1 DEF ReadItem, Octets, Noted

\* Reading the tag and length that open a constructed field.
LEMMA OpeningItem ==
  ASSUME NEW r, NEW tag
  PROVE  ReadItem(r, Opening(tag)) = Noted(ReadLength(Tag(r, tag)), "inner")
BY DEF ReadItem, Opening, Noted

\* Reading a field.
LEMMA FieldItem ==
  ASSUME NEW r, NEW name, NEW tag, NEW sizes
  PROVE  ReadItem(r, Field(name, tag, sizes)) = Noted(OfSizes(ReadTlv(r, tag), sizes), name)
BY DEF ReadItem, Field, Noted

\* Plain octets that are there are read as they are.
LEMMA OctetsRead ==
  ASSUME NEW r, NEW b, NEW F, NEW S \in SUBSET Names, NEW name \in Names,
         NEW x \in Seq(Byte), NEW y \in Seq(Byte), x = F[name],
         Got(r, b, x \o y, F, S)
  PROVE  Got(ReadItem(r, Octets(name, Len(x))), b, y, F, S \cup {name})
<1>1. PICK g, f : Reads(r, b, x \o y, g, f) /\ Agrees(f, F, S)
  BY DEF Got
<1>2. Reads(Take(r, Len(x)), b, y, x, f)
  BY <1>1, ReadsTake
<1>3. Reads(Noted(Take(r, Len(x)), name), b, y, x, [f EXCEPT ![name] = x])
  BY <1>2, ReadsNoted
<1>4. Agrees([f EXCEPT ![name] = x], F, S \cup {name})
  BY <1>1, AgreesPut
<1>5. ReadItem(r, Octets(name, Len(x))) = Noted(Take(r, Len(x)), name)
  <2>1. Len(x) \in Nat
    OBVIOUS
  <2> QED BY <2>1, OctetsItem
<1> QED BY <1>3, <1>4, <1>5 DEF Got

\* What is still to be read ends where the buffer ends.
LEMMA Ending ==
  ASSUME NEW b, NEW p, NEW s, At(b, p, s)
  PROVE  p + Len(s) = Len(b) /\ p \in Nat /\ Len(b) \in Nat
<1>1. b \in Seq(Byte) /\ p \in Nat /\ p <= Len(b) /\ SubSeq(b, p + 1, Len(b)) = s
  BY DEF At, Suffix
<1>2. Len(b) \in Nat
  BY <1>1
<1>3. Len(SubSeq(b, p + 1, Len(b))) = Len(b) - p
  BY <1>1, <1>2, Slice
<1> QED BY <1>1, <1>2, <1>3

\* The opening of the last constructed field is read, its content is next, and it says
\* that it ends where the buffer does.
LEMMA OpeningRead ==
  ASSUME NEW r, NEW b, NEW F, NEW S \in SUBSET Names, "inner" \notin S,
         NEW tag \in Byte, NEW c \in Seq(Byte), Len(c) \in U16,
         Got(r, b, Constructed(tag, c), F, S)
  PROVE  /\ Got(ReadItem(r, Opening(tag)), b, c, F, S)
         /\ ReadItem(r, Opening(tag)).pos + ReadItem(r, Opening(tag)).got = Len(b)
<1> DEFINE z == (<<\h82>> \o BigEndian(Len(c), 2)) \o c
           s == ReadLength(Tag(r, tag))
           t == Noted(s, "inner")
<1>1. PICK g, f : Reads(r, b, Constructed(tag, c), g, f) /\ Agrees(f, F, S)
  BY DEF Got
<1>2. z \in Seq(Byte) /\ Constructed(tag, c) = <<tag>> \o z
  <2>1. \h82 \in Byte
    BY ByteFacts
  <2>2. Len(c) \in Int
    BY DEF U16
  <2>3. <<\h82>> \in Seq(Byte) /\ BigEndian(Len(c), 2) \in Seq(Byte)
    BY <2>1, <2>2, BytePieces, BigEndian2
  <2>4. <<\h82>> \o BigEndian(Len(c), 2) \in Seq(Byte)
    BY <2>3, BytePieces
  <2> QED BY <2>4, BytePieces, ConstructedBytes, ZenonT(60)
<1>3. Reads(Tag(r, tag), b, z, <<tag>>, f)
  <2> HIDE DEF z
  <2> QED BY <1>1, <1>2, ReadsTag
<1>4. Reads(s, b, c, Len(c), f)
  BY <1>3, ReadsLongLength
<1>5. Reads(t, b, c, Len(c), [f EXCEPT !["inner"] = Len(c)])
  <2> HIDE DEF s
  <2> QED BY <1>4, ReadsNoted
<1>6. Agrees([f EXCEPT !["inner"] = Len(c)], F, S)
  <2>1. "inner" \in Names
    BY DEF Names
  <2> QED BY <1>1, <2>1, AgreesPut
<1>7. ReadItem(r, Opening(tag)) = t
  BY OpeningItem
<1> HIDE DEF s, t
<1>8. t.got = Len(c) /\ At(b, t.pos, c)
  BY <1>5, ReadsFields
<1>9. t.pos + Len(c) = Len(b)
  BY <1>8, Ending
<1> QED BY <1>5, <1>6, <1>7, <1>8, <1>9 DEF Got

\* A field of a size that the decoder accepts is read as it was written.
LEMMA FieldRead ==
  ASSUME NEW r, NEW b, NEW F, NEW S \in SUBSET Names, NEW name \in Names,
         NEW tag \in Byte, NEW v \in Seq(Byte), NEW y \in Seq(Byte), v = F[name],
         Len(v) \in U16, NEW sizes, sizes = {} \/ Len(v) \in sizes,
         Got(r, b, Tlv(tag, v) \o y, F, S)
  PROVE  Got(ReadItem(r, Field(name, tag, sizes)), b, y, F, S \cup {name})
<1> DEFINE s == ReadTlv(r, tag)
<1>1. PICK g, f : Reads(r, b, Tlv(tag, v) \o y, g, f) /\ Agrees(f, F, S)
  BY DEF Got
<1>2. Reads(s, b, y, v, f)
  BY <1>1, ReadsTlv
<1> HIDE DEF s
<1>3. OfSizes(s, sizes) = s
  <2>1. s.got = v
    BY <1>2, ReadsFields
  <2> QED BY <2>1 DEF OfSizes
<1>4. Reads(Noted(s, name), b, y, v, [f EXCEPT ![name] = v])
  BY <1>2, ReadsNoted
<1>5. Agrees([f EXCEPT ![name] = v], F, S \cup {name})
  BY <1>1, AgreesPut
<1>6. ReadItem(r, Field(name, tag, sizes)) = Noted(s, name)
  <2>1. ReadItem(r, Field(name, tag, sizes)) = Noted(OfSizes(ReadTlv(r, tag), sizes), name)
    BY FieldItem
  <2> QED BY <1>3, <2>1 DEF s
<1> QED BY <1>4, <1>5, <1>6 DEF Got

-------------------------------------------------------------------------------
(* Eight samples as 64 octets. *)

\* What is flattened after each of the sequences.
Flat(a, seqs) ==
  a = [i \in 1 .. Len(seqs) |-> IF i = 1 THEN seqs[i] ELSE a[i - 1] \o seqs[i]]

\* FlattenSeq, a sequence at a time.
LEMMA FlatExists ==
  ASSUME NEW T, NEW seqs \in Seq(Seq(T))
  PROVE  \E a : Flat(a, seqs)
<1> DEFINE n == Len(seqs)
           D == Seq(T)
           h == [z \in D \X D |-> z[1] \o z[2]]
<1>1. n \in Nat /\ seqs \in [1 .. n -> D] /\ <<>> \in D
  OBVIOUS
<1>2. h \in [D \X D -> D]
  <2>1. \A z \in D \X D : z[1] \o z[2] \in D
    OBVIOUS
  <2> QED BY <2>1
<1>h. \A x, y \in D : h[<<x, y>>] = x \o y
  OBVIOUS
<1> HIDE DEF h, D, n
<1>3. PICK g \in [SUBSET (1 .. n) -> D] : Folds(g, h, <<>>, seqs, n)
  BY <1>1, <1>2, FoldExists
<1> DEFINE a == [i \in 1 .. n |-> g[1 .. i]]
<1>4. ASSUME NEW i \in 1 .. n
      PROVE  g[1 .. i] = IF i = 1 THEN seqs[i] ELSE a[i - 1] \o seqs[i]
  <2>1. /\ 1 .. i \in SUBSET (1 .. n) /\ 1 .. i # {}
        /\ Max(1 .. i) = i /\ (1 .. i) \ {i} = 1 .. (i - 1)
    BY <1>1, MaxOfUpTo
  <2>2. g[1 .. i] = h[<<g[1 .. (i - 1)], seqs[i]>>]
    BY <1>3, <2>1 DEF Folds
  <2>3. 1 .. (i - 1) \in SUBSET (1 .. n) /\ seqs[i] \in D
    BY <1>1, <2>1
  <2>4. g[1 .. i] = g[1 .. (i - 1)] \o seqs[i]
    BY <1>h, <1>3, <2>2, <2>3
  <2>5. CASE i = 1
    <3>1. 1 .. (i - 1) = {}
      BY <2>5
    <3>2. g[{}] = <<>>
      BY <1>3 DEF Folds
    <3>3. <<>> \o seqs[i] = seqs[i]
      BY <2>3 DEF D
    <3> QED BY <2>4, <2>5, <3>1, <3>2, <3>3
  <2>6. CASE i # 1
    <3>1. i - 1 \in 1 .. n
      BY <1>1, <2>6
    <3> QED BY <2>4, <2>6, <3>1
  <2> QED BY <2>5, <2>6
<1>5. a = [i \in 1 .. n |-> IF i = 1 THEN seqs[i] ELSE a[i - 1] \o seqs[i]]
  BY <1>4
<1> QED BY <1>5 DEF Flat, n

\* Flattening sequences that are all eight long.
LEMMA FlattenEights ==
  ASSUME NEW T, NEW seqs \in Seq(Seq(T)), Len(seqs) > 0,
         \A i \in 1 .. Len(seqs) : Len(seqs[i]) = 8
  PROVE  /\ FlattenSeq(seqs) \in Seq(T)
         /\ Len(FlattenSeq(seqs)) = 8 * Len(seqs)
         /\ \A i \in 1 .. Len(seqs), j \in 1 .. 8 :
              FlattenSeq(seqs)[8 * (i - 1) + j] = seqs[i][j]
<1> DEFINE n == Len(seqs)
           a == CHOOSE f : Flat(f, seqs)
           Right(k) == /\ a[k] \in Seq(T) /\ Len(a[k]) = 8 * k
                       /\ \A i \in 1 .. k, j \in 1 .. 8 : a[k][8 * (i - 1) + j] = seqs[i][j]
           Bad == {k \in 1 .. n : ~Right(k)}
<1>n. n \in Nat /\ n > 0 /\ seqs \in [1 .. n -> Seq(T)]
  OBVIOUS
<1>1. FlattenSeq(seqs) = a[n]
  BY <1>n DEF FlattenSeq, Flat
<1>2. Flat(a, seqs)
  BY FlatExists
<1>e. \A i \in 1 .. n : Len(seqs[i]) = 8
  OBVIOUS
<1> HIDE DEF a
<1>3. a[1] = seqs[1] /\ \A k \in 2 .. n : a[k] = a[k - 1] \o seqs[k]
  <2>1. \A k \in 1 .. n : a[k] = IF k = 1 THEN seqs[k] ELSE a[k - 1] \o seqs[k]
    BY <1>2 DEF Flat
  <2> HIDE DEF n
  <2>2. 1 \in 1 .. n /\ \A k \in 2 .. n : k \in 1 .. n /\ k # 1
    BY <1>n
  <2> QED BY <2>1, <2>2
<1> HIDE DEF n
<1>4. Bad = {}
  <2> SUFFICES ASSUME Bad # {}
               PROVE  FALSE
    OBVIOUS
  <2>1. PICK m \in Bad : \A k \in Bad : m <= k
    <3>1. Bad \in SUBSET Nat
      OBVIOUS
    <3> HIDE DEF Bad
    <3> QED BY <3>1, LeastExists
  <2>2. m \in 1 .. n /\ ~Right(m)
    OBVIOUS
  <2>3. CASE m = 1
    <3>1. seqs[1] \in Seq(T) /\ Len(seqs[1]) = 8 /\ 1 \in 1 .. n
      BY <1>n, <1>e
    <3>2. \A i \in 1 .. 1, j \in 1 .. 8 : 8 * (i - 1) + j = j /\ i = 1
      OBVIOUS
    <3> DEFINE x == seqs[1]
    <3>3. \A i \in 1 .. 1, j \in 1 .. 8 : a[1][8 * (i - 1) + j] = seqs[i][j]
      <4>1. a[1] = x /\ seqs[1] = x
        BY <1>3
      <4> HIDE DEF x
      <4> TAKE i \in 1 .. 1, j \in 1 .. 8
      <4>2. 8 * (i - 1) + j = j /\ i = 1
        BY <3>2
      <4>3. seqs[i] = x
        BY <4>1, <4>2
      <4> QED BY <4>1, <4>2, <4>3
    <3>4. Right(1)
      BY <1>3, <3>1, <3>3
    <3> HIDE DEF Right
    <3> QED BY <2>2, <2>3, <3>4
  <2>4. CASE m # 1
    <3>m. m \in Nat /\ m >= 2 /\ m <= n
      BY <1>n, <2>2, <2>4
    <3>1. m - 1 \in 1 .. n /\ Right(m - 1)
      <4>1. m - 1 \in 1 .. n /\ ~(m <= m - 1)
        BY <1>n, <3>m
      <4> HIDE DEF Right
      <4> QED BY <2>1, <4>1
    <3> DEFINE x == a[m - 1]
               y == seqs[m]
    <3>2. /\ x \in Seq(T) /\ Len(x) = 8 * (m - 1)
          /\ \A i \in 1 .. (m - 1), j \in 1 .. 8 : x[8 * (i - 1) + j] = seqs[i][j]
      BY <3>1
    <3>3. y \in Seq(T) /\ Len(y) = 8
      BY <1>n, <1>e, <2>2
    <3>4. a[m] = x \o y
      <4>1. m \in 2 .. n
        BY <1>n, <3>m
      <4> HIDE DEF x, y
      <4>2. a[m] = a[m - 1] \o seqs[m]
        BY <1>3, <4>1
      <4> QED BY <4>2 DEF x, y
    <3> HIDE DEF x
    <3> HIDE DEF Right
    <3>5. /\ x \o y \in Seq(T) /\ Len(x \o y) = Len(x) + Len(y)
          /\ \A i \in 1 .. Len(x) + Len(y) :
               (x \o y)[i] = IF i <= Len(x) THEN x[i] ELSE y[i - Len(x)]
      <4> HIDE DEF y
      <4> QED BY <3>2, <3>3, ConcatProperties
    <3>6. Len(x) + Len(y) = 8 * m
      BY <3>m, <3>2, <3>3
    <3>7. ASSUME NEW i \in 1 .. m, NEW j \in 1 .. 8
          PROVE  (x \o y)[8 * (i - 1) + j] = seqs[i][j]
      <4> DEFINE p == 8 * (i - 1) + j
      <4>1. p \in 1 .. 8 * m
        BY <3>m
      <4>2. (x \o y)[p] = IF p <= 8 * (m - 1) THEN x[p] ELSE y[p - 8 * (m - 1)]
        <5> HIDE DEF p, y
        <5> QED BY <3>2, <3>5, <3>6, <4>1
      <4>3. CASE i = m
        <5>1. ~(p <= 8 * (m - 1)) /\ p - 8 * (m - 1) = j
          BY <3>m, <4>3
        <5> HIDE DEF p
        <5>2. (x \o y)[p] = y[j]
          BY <4>2, <5>1
        <5> QED BY <4>3, <5>2 DEF p
      <4>4. CASE i # m
        <5>1. i \in 1 .. (m - 1) /\ p <= 8 * (m - 1)
          BY <3>m, <4>4
        <5> HIDE DEF y
        <5>2. x[p] = seqs[i][j]
          BY <3>2, <5>1
        <5> HIDE DEF p
        <5>3. (x \o y)[p] = seqs[i][j]
          BY <4>2, <5>1, <5>2
        <5> QED BY <5>3 DEF p
      <4> QED BY <4>3, <4>4
    <3>8. Right(m)
      <4>1. Len(a[m]) = 8 * m /\ a[m] \in Seq(T)
        BY <3>4, <3>5, <3>6
      <4> QED BY <3>4, <3>7, <4>1, ZenonT(60) DEF Right
    <3> QED BY <2>2, <3>8
  <2> QED BY <2>3, <2>4
<1>5. Right(n)
  <2>1. n \in 1 .. n
    BY <1>n
  <2> HIDE DEF Right
  <2> QED BY <1>4, <2>1
<1> QED BY <1>1, <1>5 DEF n

\* Eight samples, of the widths the code gives them.
SampleOk(s) == s = [value |-> s.value, quality |-> s.quality] /\ IsI32(s.value) /\ IsU32(s.quality)
SamplesOk(samples) ==
  samples = [c \in 1 .. 8 |-> samples[c]] /\ \A c \in 1 .. 8 : SampleOk(samples[c])

\* Four octets in a row are the four that were put there.
LEMMA QuarterOf ==
  ASSUME NEW F \in Seq(Byte), NEW p \in Nat, p + 4 <= Len(F), NEW v \in Seq(Byte), Len(v) = 4,
         \A j \in 1 .. 4 : F[p + j] = v[j]
  PROVE  SubSeq(F, p + 1, p + 4) = v
<1>1. p + 4 \in Nat /\ p <= p + 4 /\ (p + 4) - p = 4
  OBVIOUS
<1>2. /\ SubSeq(F, p + 1, p + 4) \in Seq(Byte)
      /\ Len(SubSeq(F, p + 1, p + 4)) = (p + 4) - p
      /\ \A i \in 1 .. ((p + 4) - p) : SubSeq(F, p + 1, p + 4)[i] = F[p + i]
  <2> DEFINE q == p + 4
  <2>1. q \in Nat /\ p <= q /\ q <= Len(F)
    BY <1>1
  <2> HIDE DEF q
  <2>2. /\ SubSeq(F, p + 1, q) \in Seq(Byte) /\ Len(SubSeq(F, p + 1, q)) = q - p
        /\ \A i \in 1 .. (q - p) : SubSeq(F, p + 1, q)[i] = F[p + i]
    BY <2>1, Slice
  <2> QED BY <2>2 DEF q
<1> DEFINE w == SubSeq(F, p + 1, p + 4)
<1>3. w \in Seq(Byte) /\ Len(w) = 4 /\ \A i \in 1 .. 4 : w[i] = F[p + i]
  BY <1>1, <1>2
<1> HIDE DEF w
<1>4. Len(w) = Len(v) /\ \A i \in 1 .. Len(w) : w[i] = v[i]
  BY <1>3
<1>5. w = v
  BY <1>3, <1>4, SeqEqual
<1> QED BY <1>5 DEF w

\* What SampleData::pack writes of the eight channels, SampleData::unpack reads: 64
\* octets, the values with their signs and the qualities.
LEMMA PackRead ==
  ASSUME NEW samples, SamplesOk(samples)
  PROVE  /\ Pack(samples) \in Seq(Byte) /\ Len(Pack(samples)) = 64
         /\ Unpack(Pack(samples)) = samples
<1> DEFINE v(c) == BigEndian(samples[c].value, 4)
           q(c) == BigEndian(samples[c].quality, 4)
           seqs == [c \in 1 .. 8 |-> v(c) \o q(c)]
           F == FlattenSeq(seqs)
<1>0. Pack(samples) = F
  BY DEF Pack, Channels
<1>1. ASSUME NEW c \in 1 .. 8
      PROVE  /\ v(c) \in Seq(Byte) /\ Len(v(c)) = 4
             /\ q(c) \in Seq(Byte) /\ Len(q(c)) = 4
             /\ Signed32(v(c)) = samples[c].value
             /\ Unsigned(q(c)) = samples[c].quality
             /\ samples[c] = [value |-> samples[c].value, quality |-> samples[c].quality]
  <2>1. /\ IsI32(samples[c].value) /\ IsU32(samples[c].quality)
        /\ samples[c] = [value |-> samples[c].value, quality |-> samples[c].quality]
    BY DEF SamplesOk, SampleOk
  <2>2. samples[c].value \in Int /\ samples[c].quality \in Int
    BY <2>1 DEF IsI32, IsU32
  <2> QED BY <2>1, <2>2, BigEndian4, I32Read, U32Read
<1> HIDE DEF v, q
<1>2. ASSUME NEW c \in 1 .. 8
      PROVE  /\ seqs[c] \in Seq(Byte) /\ Len(seqs[c]) = 8
             /\ \A j \in 1 .. 4 : seqs[c][j] = v(c)[j] /\ seqs[c][4 + j] = q(c)[j]
  <2> DEFINE x == v(c)
             y == q(c)
  <2>1. x \in Seq(Byte) /\ Len(x) = 4 /\ y \in Seq(Byte) /\ Len(y) = 4
    BY <1>1
  <2>2. seqs[c] = x \o y
    OBVIOUS
  <2> HIDE DEF x, y, seqs
  <2>3. /\ x \o y \in Seq(Byte) /\ Len(x \o y) = Len(x) + Len(y)
        /\ \A i \in 1 .. Len(x) + Len(y) :
             (x \o y)[i] = IF i <= Len(x) THEN x[i] ELSE y[i - Len(x)]
    BY <2>1, ConcatProperties
  <2>4. Len(x) = 4 /\ Len(x) + Len(y) = 8
    BY <2>1
  <2>5. \A i \in 1 .. 8 : (x \o y)[i] = IF i <= 4 THEN x[i] ELSE y[i - 4]
    BY <2>3, <2>4
  <2>6. \A j \in 1 .. 4 : (x \o y)[j] = x[j] /\ (x \o y)[4 + j] = y[j]
    <3> TAKE j \in 1 .. 4
    <3>1. j \in 1 .. 8 /\ j <= 4 /\ 4 + j \in 1 .. 8 /\ ~(4 + j <= 4) /\ (4 + j) - 4 = j
      OBVIOUS
    <3> DEFINE k == 4 + j
    <3>2. (x \o y)[k] = y[k - 4]
      <4> HIDE DEF k
      <4> QED BY <2>5, <3>1 DEF k
    <3> QED BY <2>5, <3>1, <3>2
  <2>7. Len(x \o y) = 8
    BY <2>3, <2>4
  <2> QED BY <2>2, <2>3, <2>6, <2>7 DEF x, y
<1>3. seqs \in Seq(Seq(Byte)) /\ Len(seqs) = 8
  <2>1. \A c \in 1 .. 8 : v(c) \o q(c) \in Seq(Byte)
    BY <1>2
  <2> QED BY <2>1
<1> HIDE DEF seqs
<1>4. /\ F \in Seq(Byte) /\ Len(F) = 64
      /\ \A i \in 1 .. 8, j \in 1 .. 8 : F[8 * (i - 1) + j] = seqs[i][j]
  <2>1. Len(seqs) > 0 /\ \A i \in 1 .. Len(seqs) : Len(seqs[i]) = 8
    BY <1>2, <1>3
  <2>2. /\ F \in Seq(Byte) /\ Len(F) = 8 * Len(seqs)
        /\ \A i \in 1 .. Len(seqs), j \in 1 .. 8 : F[8 * (i - 1) + j] = seqs[i][j]
    BY <1>3, <2>1, FlattenEights
  <2> QED BY <1>3, <2>2
<1> HIDE DEF F
<1>5. ASSUME NEW c \in 1 .. 8
      PROVE  /\ SubSeq(F, 8 * c - 7, 8 * c - 4) = v(c)
             /\ SubSeq(F, 8 * c - 3, 8 * c) = q(c)
  <2> DEFINE p == 8 * (c - 1)
  <2>1. /\ p \in Nat /\ p + 4 \in Nat /\ (p + 4) + 4 <= 64 /\ p + 4 <= 64
        /\ 8 * c - 7 = p + 1 /\ 8 * c - 4 = p + 4
        /\ 8 * c - 3 = (p + 4) + 1 /\ 8 * c = (p + 4) + 4
    OBVIOUS
  <2>2. \A j \in 1 .. 8 : F[p + j] = seqs[c][j]
    BY <1>4
  <2> HIDE DEF p
  <2> DEFINE x == v(c)
             y == q(c)
             z == seqs[c]
  <2>x. /\ x \in Seq(Byte) /\ Len(x) = 4 /\ y \in Seq(Byte) /\ Len(y) = 4
        /\ \A j \in 1 .. 4 : z[j] = x[j] /\ z[4 + j] = y[j]
        /\ \A j \in 1 .. 8 : F[p + j] = z[j]
    BY <1>1, <1>2, <2>2
  <2> HIDE DEF x, y, z
  <2>3. \A j \in 1 .. 4 : F[p + j] = x[j]
    BY <2>x
  <2>4. \A j \in 1 .. 4 : F[(p + 4) + j] = y[j]
    <3> TAKE j \in 1 .. 4
    <3>1. 4 + j \in 1 .. 8 /\ (p + 4) + j = p + (4 + j)
      BY <2>1
    <3>2. F[p + (4 + j)] = z[4 + j]
      BY <2>x, <3>1
    <3> QED BY <2>x, <3>1, <3>2
  <2>l. p + 4 <= Len(F) /\ (p + 4) + 4 <= Len(F)
    BY <1>4, <2>1
  <2>5. SubSeq(F, p + 1, p + 4) = x
    BY <1>4, <2>1, <2>l, <2>x, <2>3, QuarterOf, ZenonT(60)
  <2>6. SubSeq(F, (p + 4) + 1, (p + 4) + 4) = y
    <3> DEFINE p4 == p + 4
    <3>1. p4 \in Nat /\ p4 + 4 <= Len(F) /\ \A j \in 1 .. 4 : F[p4 + j] = y[j]
      BY <2>1, <2>l, <2>4
    <3> HIDE DEF p4
    <3>2. SubSeq(F, p4 + 1, p4 + 4) = y
      BY <1>4, <2>x, <3>1, QuarterOf
    <3> QED BY <3>2 DEF p4
  <2>7. x = v(c) /\ y = q(c)
    BY DEF x, y
  <2> QED BY <2>1, <2>5, <2>6, <2>7
<1>6. Unpack(F) = [c \in 1 .. 8 |-> samples[c]]
  <2>1. \A c \in 1 .. 8 :
          [value |-> Signed32(SubSeq(F, 8 * c - 7, 8 * c - 4)),
           quality |-> Unsigned(SubSeq(F, 8 * c - 3, 8 * c))] = samples[c]
    BY <1>1, <1>5
  <2> QED BY <2>1 DEF Unpack, Channels
<1>7. samples = [c \in 1 .. 8 |-> samples[c]]
  BY DEF SamplesOk
<1> QED BY <1>0, <1>4, <1>6, <1>7

-------------------------------------------------------------------------------
(* The payload that encode_frame writes is read as it was meant. *)

\* What the ASDU and its frame are, by the widths of the code's types.
AsduOk(asdu) ==
  /\ asdu = [svId |-> asdu.svId, smpCnt |-> asdu.smpCnt, confRev |-> asdu.confRev,
             smpSynch |-> asdu.smpSynch, smpRate |-> asdu.smpRate, samples |-> asdu.samples]
  /\ asdu.svId \in Seq(Byte) /\ asdu.smpCnt \in U16 /\ IsU32(asdu.confRev)
  /\ asdu.smpSynch \in Byte /\ asdu.smpRate \in U16 /\ SamplesOk(asdu.samples)

\* The six fields that encode_frame writes of an ASDU.
AsduFields(asdu) ==
  Tlv(\h80, asdu.svId) \o Tlv(\h82, BigEndian(asdu.smpCnt, 2))
    \o Tlv(\h83, BigEndian(asdu.confRev, 4)) \o Tlv(\h85, <<asdu.smpSynch>>)
    \o Tlv(\h86, IntU16(asdu.smpRate)) \o Tlv(\h87, Pack(asdu.samples))

\* Concatenation under a name of its own: the provers take it for what it is.
IsBytes(x) == x \in Seq(Byte)
Cat(x, y) == x \o y

\* Octets joined to octets are octets, as long as both.
LEMMA CatBytes ==
  ASSUME NEW x, NEW y, IsBytes(x), IsBytes(y)
  PROVE  /\ IsBytes(Cat(x, y)) /\ Len(Cat(x, y)) = Len(x) + Len(y)
         /\ Len(x) \in Nat /\ Len(y) \in Nat
<1>1. x \in Seq(Byte) /\ y \in Seq(Byte)
  BY DEF IsBytes
<1>2. x \o y \in Seq(Byte) /\ Len(x \o y) = Len(x) + Len(y)
  BY <1>1, Joined
<1>3. Len(x) \in Nat /\ Len(y) \in Nat
  BY <1>1
<1> QED BY <1>2, <1>3 DEF IsBytes, Cat

\* The order in which octets are joined does not matter.
LEMMA CatRegrouped ==
  ASSUME NEW x, NEW y, NEW z, IsBytes(x), IsBytes(y), IsBytes(z)
  PROVE  Cat(Cat(x, y), z) = Cat(x, Cat(y, z))
<1>1. x \in Seq(Byte) /\ y \in Seq(Byte) /\ z \in Seq(Byte)
  BY DEF IsBytes
<1> QED BY <1>1, Regrouped DEF Cat

\* Six pieces one after the other, as they are written and as they are read.
LEMMA SixCat ==
  ASSUME NEW a, NEW b, NEW c, NEW d, NEW e, NEW f, IsBytes(a), IsBytes(b), IsBytes(c),
         IsBytes(d), IsBytes(e), IsBytes(f)
  PROVE  /\ Cat(Cat(Cat(Cat(Cat(a, b), c), d), e), f) = Cat(a, Cat(b, Cat(c, Cat(d, Cat(e, f)))))
         /\ IsBytes(Cat(e, f)) /\ IsBytes(Cat(d, Cat(e, f))) /\ IsBytes(Cat(c, Cat(d, Cat(e, f))))
         /\ IsBytes(Cat(b, Cat(c, Cat(d, Cat(e, f)))))
         /\ IsBytes(Cat(a, Cat(b, Cat(c, Cat(d, Cat(e, f))))))
         /\ Len(Cat(a, Cat(b, Cat(c, Cat(d, Cat(e, f))))))
              = Len(a) + Len(b) + Len(c) + Len(d) + Len(e) + Len(f)
<1> DEFINE u2 == Cat(a, b)
           u3 == Cat(u2, c)
           u4 == Cat(u3, d)
           v5 == Cat(e, f)
           v4 == Cat(d, v5)
           v3 == Cat(c, v4)
           v2 == Cat(b, v3)
           v1 == Cat(a, v2)
<1>1. IsBytes(u2) /\ IsBytes(u3) /\ IsBytes(u4)
  BY CatBytes
<1>2. /\ IsBytes(v5) /\ IsBytes(v4) /\ IsBytes(v3) /\ IsBytes(v2) /\ IsBytes(v1)
      /\ Len(v5) = Len(e) + Len(f) /\ Len(v4) = Len(d) + Len(v5) /\ Len(v3) = Len(c) + Len(v4)
      /\ Len(v2) = Len(b) + Len(v3) /\ Len(v1) = Len(a) + Len(v2)
  BY CatBytes
<1>3. Cat(Cat(u4, e), f) = Cat(u4, v5)
  BY <1>1, CatRegrouped
<1>4. Cat(u4, v5) = Cat(u3, v4)
  BY <1>1, <1>2, CatRegrouped
<1>5. Cat(u3, v4) = Cat(u2, v3)
  BY <1>1, <1>2, CatRegrouped
<1>6. Cat(u2, v3) = v1
  BY <1>1, <1>2, CatRegrouped
<1>7. Len(v1) = Len(a) + Len(b) + Len(c) + Len(d) + Len(e) + Len(f)
  <2>1. Len(a) \in Nat /\ Len(b) \in Nat /\ Len(c) \in Nat /\ Len(d) \in Nat /\ Len(e) \in Nat
        /\ Len(f) \in Nat
    BY CatBytes
  <2> HIDE DEF v1, v2, v3, v4, v5
  <2> QED BY <2>1, <1>2
<1> QED BY <1>2, <1>3, <1>4, <1>5, <1>6, <1>7

\* Every tag of the frame is an octet.
LEMMA TagsAreBytes ==
  /\ \h60 \in Byte /\ \hA2 \in Byte /\ \h30 \in Byte /\ \h80 \in Byte /\ \h82 \in Byte
  /\ \h83 \in Byte /\ \h85 \in Byte /\ \h86 \in Byte /\ \h87 \in Byte /\ 0 \in Byte
BY DEF Byte

\* What each of the ASDU's fields holds, and how many octets it takes.
LEMMA FieldBytes ==
  ASSUME NEW asdu, AsduOk(asdu)
  PROVE  /\ asdu.svId \in Seq(Byte)
         /\ BigEndian(asdu.smpCnt, 2) \in Seq(Byte) /\ Len(BigEndian(asdu.smpCnt, 2)) = 2
         /\ BigEndian(asdu.confRev, 4) \in Seq(Byte) /\ Len(BigEndian(asdu.confRev, 4)) = 4
         /\ <<asdu.smpSynch>> \in Seq(Byte) /\ Len(<<asdu.smpSynch>>) = 1
         /\ IntU16(asdu.smpRate) \in Seq(Byte) /\ Len(IntU16(asdu.smpRate)) \in Nat
         /\ 1 <= Len(IntU16(asdu.smpRate)) /\ Len(IntU16(asdu.smpRate)) <= 3
         /\ Pack(asdu.samples) \in Seq(Byte) /\ Len(Pack(asdu.samples)) = 64
<1>1. /\ asdu.svId \in Seq(Byte) /\ asdu.smpCnt \in U16 /\ IsU32(asdu.confRev)
      /\ asdu.smpSynch \in Byte /\ asdu.smpRate \in U16 /\ SamplesOk(asdu.samples)
  BY DEF AsduOk
<1>2. asdu.smpCnt \in Int /\ asdu.confRev \in Int
  BY <1>1 DEF U16, IsU32
<1>3. BigEndian(asdu.smpCnt, 2) \in Seq(Byte) /\ Len(BigEndian(asdu.smpCnt, 2)) = 2
  BY <1>2, BigEndian2
<1>4. BigEndian(asdu.confRev, 4) \in Seq(Byte) /\ Len(BigEndian(asdu.confRev, 4)) = 4
  BY <1>2, BigEndian4
<1>5. <<asdu.smpSynch>> \in Seq(Byte) /\ Len(<<asdu.smpSynch>>) = 1
  BY <1>1, BytePieces
<1>6. /\ IntU16(asdu.smpRate) \in Seq(Byte) /\ Len(IntU16(asdu.smpRate)) \in Nat
      /\ 1 <= Len(IntU16(asdu.smpRate)) /\ Len(IntU16(asdu.smpRate)) <= 3
  BY <1>1, IntU16Read
<1>7. Pack(asdu.samples) \in Seq(Byte) /\ Len(Pack(asdu.samples)) = 64
  BY <1>1, PackRead
<1> QED BY <1>1, <1>3, <1>4, <1>5, <1>6, <1>7

\* The ASDU's fields are octets, and their number is that of the svID and of the rate's
\* integer, and 81 for what is fixed.
LEMMA FieldsBytes ==
  ASSUME NEW asdu, AsduOk(asdu)
  PROVE  /\ AsduFields(asdu) \in Seq(Byte)
         /\ Len(AsduFields(asdu))
              = Len(asdu.svId) + (IF Len(asdu.svId) < 128 THEN 2 ELSE 4) + Len(IntU16(asdu.smpRate)) + 81
<1> DEFINE a == Tlv(\h80, asdu.svId)
           b == Tlv(\h82, BigEndian(asdu.smpCnt, 2))
           c == Tlv(\h83, BigEndian(asdu.confRev, 4))
           d == Tlv(\h85, <<asdu.smpSynch>>)
           e == Tlv(\h86, IntU16(asdu.smpRate))
           f == Tlv(\h87, Pack(asdu.samples))
           n == Len(asdu.svId)
           m == Len(IntU16(asdu.smpRate))
<1>1. a \in Seq(Byte) /\ Len(a) = n + IF n < 128 THEN 2 ELSE 4
  <2> DEFINE x == asdu.svId
  <2>1. x \in Seq(Byte) /\ Len(x) = n
    BY FieldBytes
  <2>2. \h80 \in Byte
    BY TagsAreBytes
  <2> HIDE DEF x
  <2>3. Tlv(\h80, x) \in Seq(Byte) /\ Len(Tlv(\h80, x)) = Len(x) + IF Len(x) < 128 THEN 2 ELSE 4
    BY <2>1, <2>2, TlvSize
  <2>4. a = Tlv(\h80, x)
    BY DEF x
  <2> HIDE DEF a, n, m
  <2> QED BY <2>1, <2>3, <2>4
<1>2. b \in Seq(Byte) /\ Len(b) = 4
  <2> DEFINE x == BigEndian(asdu.smpCnt, 2)
  <2>1. x \in Seq(Byte) /\ Len(x) = 2
    BY FieldBytes
  <2>2. \h82 \in Byte
    BY TagsAreBytes
  <2> HIDE DEF x
  <2>3. Tlv(\h82, x) \in Seq(Byte) /\ Len(Tlv(\h82, x)) = Len(x) + IF Len(x) < 128 THEN 2 ELSE 4
    BY <2>1, <2>2, TlvSize
  <2>4. b = Tlv(\h82, x)
    BY DEF x
  <2> HIDE DEF b, n, m
  <2> QED BY <2>1, <2>3, <2>4
<1>3. c \in Seq(Byte) /\ Len(c) = 6
  <2> DEFINE x == BigEndian(asdu.confRev, 4)
  <2>1. x \in Seq(Byte) /\ Len(x) = 4
    BY FieldBytes
  <2>2. \h83 \in Byte
    BY TagsAreBytes
  <2> HIDE DEF x
  <2>3. Tlv(\h83, x) \in Seq(Byte) /\ Len(Tlv(\h83, x)) = Len(x) + IF Len(x) < 128 THEN 2 ELSE 4
    BY <2>1, <2>2, TlvSize
  <2>4. c = Tlv(\h83, x)
    BY DEF x
  <2> HIDE DEF c, n, m
  <2> QED BY <2>1, <2>3, <2>4
<1>4. d \in Seq(Byte) /\ Len(d) = 3
  <2> DEFINE x == <<asdu.smpSynch>>
  <2>1. x \in Seq(Byte) /\ Len(x) = 1
    BY FieldBytes
  <2>2. \h85 \in Byte
    BY TagsAreBytes
  <2> HIDE DEF x
  <2>3. Tlv(\h85, x) \in Seq(Byte) /\ Len(Tlv(\h85, x)) = Len(x) + IF Len(x) < 128 THEN 2 ELSE 4
    BY <2>1, <2>2, TlvSize
  <2>4. d = Tlv(\h85, x)
    BY DEF x
  <2> HIDE DEF d, n, m
  <2> QED BY <2>1, <2>3, <2>4
<1>5. e \in Seq(Byte) /\ Len(e) = m + 2
  <2> DEFINE x == IntU16(asdu.smpRate)
  <2>1. x \in Seq(Byte) /\ Len(x) = m /\ m \in Nat /\ m <= 3
    BY FieldBytes
  <2>2. \h86 \in Byte
    BY TagsAreBytes
  <2> HIDE DEF x
  <2>3. Tlv(\h86, x) \in Seq(Byte) /\ Len(Tlv(\h86, x)) = Len(x) + IF Len(x) < 128 THEN 2 ELSE 4
    BY <2>1, <2>2, TlvSize
  <2>4. e = Tlv(\h86, x)
    BY DEF x
  <2> HIDE DEF e, n, m
  <2> QED BY <2>1, <2>3, <2>4
<1>6. f \in Seq(Byte) /\ Len(f) = 66
  <2> DEFINE x == Pack(asdu.samples)
  <2>1. x \in Seq(Byte) /\ Len(x) = 64
    BY FieldBytes
  <2>2. \h87 \in Byte
    BY TagsAreBytes
  <2> HIDE DEF x
  <2>3. Tlv(\h87, x) \in Seq(Byte) /\ Len(Tlv(\h87, x)) = Len(x) + IF Len(x) < 128 THEN 2 ELSE 4
    BY <2>1, <2>2, TlvSize
  <2>4. f = Tlv(\h87, x)
    BY DEF x
  <2> HIDE DEF f, n, m
  <2> QED BY <2>1, <2>3, <2>4
<1>7. AsduFields(asdu) = a \o b \o c \o d \o e \o f
  BY DEF AsduFields
<1>8. n \in Nat /\ m \in Nat
  BY FieldBytes
<1> HIDE DEF a, b, c, d, e, f, n, m
<1> DEFINE w == Cat(a, Cat(b, Cat(c, Cat(d, Cat(e, f)))))
<1>b. IsBytes(a) /\ IsBytes(b) /\ IsBytes(c) /\ IsBytes(d) /\ IsBytes(e) /\ IsBytes(f)
  BY <1>1, <1>2, <1>3, <1>4, <1>5, <1>6 DEF IsBytes
<1>9. /\ Cat(Cat(Cat(Cat(Cat(a, b), c), d), e), f) = w /\ IsBytes(w)
      /\ Len(w) = Len(a) + Len(b) + Len(c) + Len(d) + Len(e) + Len(f)
  BY <1>b, SixCat
<1>11. AsduFields(asdu) = w
  BY <1>7, <1>9 DEF Cat
<1> HIDE DEF w
<1>10. Len(w) = n + (IF n < 128 THEN 2 ELSE 4) + m + 81
  BY <1>1, <1>2, <1>3, <1>4, <1>5, <1>6, <1>8, <1>9
<1>12. w \in Seq(Byte)
  BY <1>9 DEF IsBytes
<1> QED BY <1>10, <1>11, <1>12 DEF n, m

\* The fourteen items, one read after the other.
LEMMA LayoutItems ==
  /\ SavPduLayout[1] = Octets("appid", 2)
  /\ SavPduLayout[2] = Octets("length", 2)
  /\ SavPduLayout[3] = Octets("reserved1", 2)
  /\ SavPduLayout[4] = Octets("reserved2", 2)
  /\ SavPduLayout[5] = Opening(\h60)
  /\ SavPduLayout[6] = Field("noAsdu", \h80, {})
  /\ SavPduLayout[7] = Opening(\hA2)
  /\ SavPduLayout[8] = Opening(\h30)
  /\ SavPduLayout[9] = Field("svId", \h80, {})
  /\ SavPduLayout[10] = Field("smpCnt", \h82, {2})
  /\ SavPduLayout[11] = Field("confRev", \h83, {4})
  /\ SavPduLayout[12] = Field("smpSynch", \h85, {1})
  /\ SavPduLayout[13] = Field("smpRate", \h86, {})
  /\ SavPduLayout[14] = Field("samples", \h87, {64})
BY DEF SavPduLayout, PayloadBytes, Channels

\* The decoder's items one after the other (decode_savpdu_after_ethertype).
LEMMA ItemsInTurn ==
  ASSUME NEW q
  PROVE  /\ ReadItems(q, 0) = q
         /\ ReadItems(q, 1) = ReadItem(ReadItems(q, 0), Octets("appid", 2))
         /\ ReadItems(q, 2) = ReadItem(ReadItems(q, 1), Octets("length", 2))
         /\ ReadItems(q, 3) = ReadItem(ReadItems(q, 2), Octets("reserved1", 2))
         /\ ReadItems(q, 4) = ReadItem(ReadItems(q, 3), Octets("reserved2", 2))
         /\ ReadItems(q, 5) = ReadItem(ReadItems(q, 4), Opening(\h60))
         /\ ReadItems(q, 6) = ReadItem(ReadItems(q, 5), Field("noAsdu", \h80, {}))
         /\ ReadItems(q, 7) = ReadItem(ReadItems(q, 6), Opening(\hA2))
         /\ ReadItems(q, 8) = ReadItem(ReadItems(q, 7), Opening(\h30))
         /\ ReadItems(q, 9) = ReadItem(ReadItems(q, 8), Field("svId", \h80, {}))
         /\ ReadItems(q, 10) = ReadItem(ReadItems(q, 9), Field("smpCnt", \h82, {2}))
         /\ ReadItems(q, 11) = ReadItem(ReadItems(q, 10), Field("confRev", \h83, {4}))
         /\ ReadItems(q, 12) = ReadItem(ReadItems(q, 11), Field("smpSynch", \h85, {1}))
         /\ ReadItems(q, 13) = ReadItem(ReadItems(q, 12), Field("smpRate", \h86, {}))
         /\ ReadItems(q, 14) = ReadItem(ReadItems(q, 13), Field("samples", \h87, {64}))
<1>1. ReadItems(q, 0) = q
  <2>1. 0 \in Nat
    OBVIOUS
  <2> QED BY <2>1, ReadItemsTurns
<1>2. ReadItems(q, 1) = ReadItem(ReadItems(q, 0), Octets("appid", 2))
  <2>1. 1 \in Nat /\ 1 > 0 /\ 1 - 1 = 0
    OBVIOUS
  <2>2. ReadItems(q, 1) = ReadItem(ReadItems(q, 1 - 1), SavPduLayout[1])
    BY <2>1, ReadItemsTurns
  <2> QED BY <2>1, <2>2, LayoutItems
<1>3. ReadItems(q, 2) = ReadItem(ReadItems(q, 1), Octets("length", 2))
  <2>1. 2 \in Nat /\ 2 > 0 /\ 2 - 1 = 1
    OBVIOUS
  <2>2. ReadItems(q, 2) = ReadItem(ReadItems(q, 2 - 1), SavPduLayout[2])
    BY <2>1, ReadItemsTurns
  <2> QED BY <2>1, <2>2, LayoutItems
<1>4. ReadItems(q, 3) = ReadItem(ReadItems(q, 2), Octets("reserved1", 2))
  <2>1. 3 \in Nat /\ 3 > 0 /\ 3 - 1 = 2
    OBVIOUS
  <2>2. ReadItems(q, 3) = ReadItem(ReadItems(q, 3 - 1), SavPduLayout[3])
    BY <2>1, ReadItemsTurns
  <2> QED BY <2>1, <2>2, LayoutItems
<1>5. ReadItems(q, 4) = ReadItem(ReadItems(q, 3), Octets("reserved2", 2))
  <2>1. 4 \in Nat /\ 4 > 0 /\ 4 - 1 = 3
    OBVIOUS
  <2>2. ReadItems(q, 4) = ReadItem(ReadItems(q, 4 - 1), SavPduLayout[4])
    BY <2>1, ReadItemsTurns
  <2> QED BY <2>1, <2>2, LayoutItems
<1>6. ReadItems(q, 5) = ReadItem(ReadItems(q, 4), Opening(\h60))
  <2>1. 5 \in Nat /\ 5 > 0 /\ 5 - 1 = 4
    OBVIOUS
  <2>2. ReadItems(q, 5) = ReadItem(ReadItems(q, 5 - 1), SavPduLayout[5])
    BY <2>1, ReadItemsTurns
  <2> QED BY <2>1, <2>2, LayoutItems
<1>7. ReadItems(q, 6) = ReadItem(ReadItems(q, 5), Field("noAsdu", \h80, {}))
  <2>1. 6 \in Nat /\ 6 > 0 /\ 6 - 1 = 5
    OBVIOUS
  <2>2. ReadItems(q, 6) = ReadItem(ReadItems(q, 6 - 1), SavPduLayout[6])
    BY <2>1, ReadItemsTurns
  <2> QED BY <2>1, <2>2, LayoutItems
<1>8. ReadItems(q, 7) = ReadItem(ReadItems(q, 6), Opening(\hA2))
  <2>1. 7 \in Nat /\ 7 > 0 /\ 7 - 1 = 6
    OBVIOUS
  <2>2. ReadItems(q, 7) = ReadItem(ReadItems(q, 7 - 1), SavPduLayout[7])
    BY <2>1, ReadItemsTurns
  <2> QED BY <2>1, <2>2, LayoutItems
<1>9. ReadItems(q, 8) = ReadItem(ReadItems(q, 7), Opening(\h30))
  <2>1. 8 \in Nat /\ 8 > 0 /\ 8 - 1 = 7
    OBVIOUS
  <2>2. ReadItems(q, 8) = ReadItem(ReadItems(q, 8 - 1), SavPduLayout[8])
    BY <2>1, ReadItemsTurns
  <2> QED BY <2>1, <2>2, LayoutItems
<1>10. ReadItems(q, 9) = ReadItem(ReadItems(q, 8), Field("svId", \h80, {}))
  <2>1. 9 \in Nat /\ 9 > 0 /\ 9 - 1 = 8
    OBVIOUS
  <2>2. ReadItems(q, 9) = ReadItem(ReadItems(q, 9 - 1), SavPduLayout[9])
    BY <2>1, ReadItemsTurns
  <2> QED BY <2>1, <2>2, LayoutItems
<1>11. ReadItems(q, 10) = ReadItem(ReadItems(q, 9), Field("smpCnt", \h82, {2}))
  <2>1. 10 \in Nat /\ 10 > 0 /\ 10 - 1 = 9
    OBVIOUS
  <2>2. ReadItems(q, 10) = ReadItem(ReadItems(q, 10 - 1), SavPduLayout[10])
    BY <2>1, ReadItemsTurns
  <2> QED BY <2>1, <2>2, LayoutItems
<1>12. ReadItems(q, 11) = ReadItem(ReadItems(q, 10), Field("confRev", \h83, {4}))
  <2>1. 11 \in Nat /\ 11 > 0 /\ 11 - 1 = 10
    OBVIOUS
  <2>2. ReadItems(q, 11) = ReadItem(ReadItems(q, 11 - 1), SavPduLayout[11])
    BY <2>1, ReadItemsTurns
  <2> QED BY <2>1, <2>2, LayoutItems
<1>13. ReadItems(q, 12) = ReadItem(ReadItems(q, 11), Field("smpSynch", \h85, {1}))
  <2>1. 12 \in Nat /\ 12 > 0 /\ 12 - 1 = 11
    OBVIOUS
  <2>2. ReadItems(q, 12) = ReadItem(ReadItems(q, 12 - 1), SavPduLayout[12])
    BY <2>1, ReadItemsTurns
  <2> QED BY <2>1, <2>2, LayoutItems
<1>14. ReadItems(q, 13) = ReadItem(ReadItems(q, 12), Field("smpRate", \h86, {}))
  <2>1. 13 \in Nat /\ 13 > 0 /\ 13 - 1 = 12
    OBVIOUS
  <2>2. ReadItems(q, 13) = ReadItem(ReadItems(q, 13 - 1), SavPduLayout[13])
    BY <2>1, ReadItemsTurns
  <2> QED BY <2>1, <2>2, LayoutItems
<1>15. ReadItems(q, 14) = ReadItem(ReadItems(q, 13), Field("samples", \h87, {64}))
  <2>1. 14 \in Nat /\ 14 > 0 /\ 14 - 1 = 13
    OBVIOUS
  <2>2. ReadItems(q, 14) = ReadItem(ReadItems(q, 14 - 1), SavPduLayout[14])
    BY <2>1, ReadItemsTurns
  <2> QED BY <2>1, <2>2, LayoutItems
<1> QED BY <1>1, <1>2, <1>3, <1>4, <1>5, <1>6, <1>7, <1>8, <1>9, <1>10, <1>11, <1>12, <1>13, <1>14, <1>15

\* x is n octets.
Spans(x, n) == IsBytes(x) /\ Len(x) = n

\* Plain octets, a step at a time.
LEMMA OctetsStep ==
  ASSUME NEW r, NEW b, NEW F, NEW S \in SUBSET Names, NEW name \in Names, NEW n,
         NEW x, NEW y, Spans(x, n), IsBytes(y), x = F[name],
         Got(r, b, Cat(x, y), F, S)
  PROVE  Got(ReadItem(r, Octets(name, n)), b, y, F, S \cup {name})
<1>1. x \in Seq(Byte) /\ y \in Seq(Byte) /\ Len(x) = n
  BY DEF Spans, IsBytes
<1>2. Got(r, b, x \o y, F, S)
  BY DEF Cat
<1>3. Got(ReadItem(r, Octets(name, Len(x))), b, y, F, S \cup {name})
  BY <1>1, <1>2, OctetsRead
<1> QED BY <1>1, <1>3

\* A value of a size that a field may have.
SizeOk(v, sizes) == Len(v) \in U16 /\ (sizes = {} \/ Len(v) \in sizes)

\* A field, a step at a time.
LEMMA FieldStep ==
  ASSUME NEW r, NEW b, NEW F, NEW S \in SUBSET Names, NEW name \in Names, NEW tag \in Byte,
         NEW v, NEW y, IsBytes(v), IsBytes(y), NEW sizes,
         SizeOk(v, sizes), v = F[name],
         Got(r, b, Cat(Tlv(tag, v), y), F, S)
  PROVE  Got(ReadItem(r, Field(name, tag, sizes)), b, y, F, S \cup {name})
<1>1. v \in Seq(Byte) /\ y \in Seq(Byte)
  BY DEF IsBytes
<1>2. Got(r, b, Tlv(tag, v) \o y, F, S)
  BY DEF Cat
<1>3. Len(v) \in U16 /\ (sizes = {} \/ Len(v) \in sizes)
  BY DEF SizeOk
<1> QED BY <1>1, <1>2, <1>3, FieldRead

\* Joining nothing changes nothing.
LEMMA CatNothing ==
  ASSUME NEW x, IsBytes(x)
  PROVE  Cat(x, <<>>) = x /\ Cat(<<>>, x) = x /\ IsBytes(<<>>)
BY DEF Cat, IsBytes

\* What is to be read of an ASDU.
AsduMeant(F, asdu) ==
  /\ F["svId"] = asdu.svId /\ F["smpCnt"] = BigEndian(asdu.smpCnt, 2)
  /\ F["confRev"] = BigEndian(asdu.confRev, 4) /\ F["smpSynch"] = <<asdu.smpSynch>>
  /\ F["smpRate"] = IntU16(asdu.smpRate) /\ F["samples"] = Pack(asdu.samples)

AsduNames == {"svId", "smpCnt", "confRev", "smpSynch", "smpRate", "samples"}

\* The lengths of the fields are well below 65536.
LEMMA SmallLengths ==
  /\ 1 \in U16 /\ 2 \in U16 /\ 3 \in U16 /\ 4 \in U16 /\ 64 \in U16
  /\ \A n \in U16, m \in Nat : m <= n => m \in U16
BY DEF U16, MaxU16

\* The six fields of an ASDU are read as encode_frame wrote them.
LEMMA AsduRead ==
  ASSUME NEW q, NEW b, NEW F, NEW S \in SUBSET Names, NEW asdu, AsduOk(asdu),
         Len(asdu.svId) \in U16, AsduMeant(F, asdu),
         Got(ReadItems(q, 8), b, AsduFields(asdu), F, S)
  PROVE  Got(ReadItems(q, 14), b, <<>>, F, S \cup AsduNames)
<1> DEFINE a == Tlv(\h80, asdu.svId)
           b0 == Tlv(\h82, BigEndian(asdu.smpCnt, 2))
           c == Tlv(\h83, BigEndian(asdu.confRev, 4))
           d == Tlv(\h85, <<asdu.smpSynch>>)
           e == Tlv(\h86, IntU16(asdu.smpRate))
           f == Tlv(\h87, Pack(asdu.samples))
           nil == <<>>
           v6 == Cat(f, nil)
           v5 == Cat(e, v6)
           v4 == Cat(d, v5)
           v3 == Cat(c, v4)
           v2 == Cat(b0, v3)
           v1 == Cat(a, v2)
<1>0. /\ IsBytes(asdu.svId) /\ IsBytes(BigEndian(asdu.smpCnt, 2)) /\ Len(BigEndian(asdu.smpCnt, 2)) = 2
      /\ IsBytes(BigEndian(asdu.confRev, 4)) /\ Len(BigEndian(asdu.confRev, 4)) = 4
      /\ IsBytes(<<asdu.smpSynch>>) /\ Len(<<asdu.smpSynch>>) = 1
      /\ IsBytes(IntU16(asdu.smpRate)) /\ Len(IntU16(asdu.smpRate)) \in U16
      /\ IsBytes(Pack(asdu.samples)) /\ Len(Pack(asdu.samples)) = 64
  <2>1. Len(IntU16(asdu.smpRate)) \in U16
    <3>1. Len(IntU16(asdu.smpRate)) \in Nat /\ Len(IntU16(asdu.smpRate)) <= 3
      BY FieldBytes
    <3> QED BY <3>1, SmallLengths
  <2> QED BY <2>1, FieldBytes DEF IsBytes
<1>b. IsBytes(a) /\ IsBytes(b0) /\ IsBytes(c) /\ IsBytes(d) /\ IsBytes(e) /\ IsBytes(f)
  <2>1. \A tag \in Byte : \A v : IsBytes(v) => IsBytes(Tlv(tag, v))
    BY TlvSize DEF IsBytes
  <2> QED BY <1>0, <2>1, TagsAreBytes
<1>v. /\ IsBytes(v6) /\ IsBytes(v5) /\ IsBytes(v4) /\ IsBytes(v3) /\ IsBytes(v2)
      /\ AsduFields(asdu) = v1
  <2>1. v6 = f
    <3> HIDE DEF f
    <3> QED BY <1>b, CatNothing
  <2>2. AsduFields(asdu) = Cat(Cat(Cat(Cat(Cat(a, b0), c), d), e), f)
    BY DEF AsduFields, Cat
  <2> HIDE DEF a, b0, c, d, e, f, v6
  <2>4. /\ Cat(Cat(Cat(Cat(Cat(a, b0), c), d), e), f) = Cat(a, Cat(b0, Cat(c, Cat(d, Cat(e, f)))))
        /\ IsBytes(Cat(e, f)) /\ IsBytes(Cat(d, Cat(e, f))) /\ IsBytes(Cat(c, Cat(d, Cat(e, f))))
        /\ IsBytes(Cat(b0, Cat(c, Cat(d, Cat(e, f)))))
    BY <1>b, SixCat
  <2> QED BY <1>b, <2>1, <2>2, <2>4
<1>n. IsBytes(nil)
  BY <1>b, CatNothing
<1> HIDE DEF nil, v1, v2, v3, v4, v5, v6
<1> DEFINE S1 == S \cup {"svId"}
           S2 == S1 \cup {"smpCnt"}
           S3 == S2 \cup {"confRev"}
           S4 == S3 \cup {"smpSynch"}
           S5 == S4 \cup {"smpRate"}
           S6 == S5 \cup {"samples"}
<1>s. /\ S1 \in SUBSET Names /\ S2 \in SUBSET Names /\ S3 \in SUBSET Names
      /\ S4 \in SUBSET Names /\ S5 \in SUBSET Names /\ S6 = S \cup AsduNames
      /\ "svId" \in Names /\ "smpCnt" \in Names /\ "confRev" \in Names
      /\ "smpSynch" \in Names /\ "smpRate" \in Names /\ "samples" \in Names
  BY DEF Names, AsduNames
<1>8. Got(ReadItems(q, 8), b, v1, F, S)
  BY <1>v
<1>9. Got(ReadItems(q, 9), b, v2, F, S1)
  <2> DEFINE x == asdu.svId
  <2>1. IsBytes(x) /\ SizeOk(x, {}) /\ x = F["svId"]
    <3>1. IsBytes(x) /\ Len(x) \in U16
      BY <1>0, SmallLengths
    <3>2. x = F["svId"]
      BY DEF AsduMeant
    <3> HIDE DEF x
    <3> QED BY <3>1, <3>2 DEF SizeOk
  <2>2. Got(ReadItems(q, 8), b, Cat(Tlv(\h80, x), v2), F, S)
    BY <1>8 DEF v1
  <2>3. \h80 \in Byte
    BY TagsAreBytes
  <2>s. S \in SUBSET Names /\ "svId" \in Names /\ IsBytes(v2)
    BY <1>s, <1>v, <1>n
  <2> HIDE DEF x, S2, S3, S4, S5, S6
  <2>4. Got(ReadItem(ReadItems(q, 8), Field("svId", \h80, {})), b, v2, F, S \cup {"svId"})
    BY <2>1, <2>2, <2>3, <2>s, FieldStep
  <2> QED BY <2>4, ItemsInTurn
<1>10. Got(ReadItems(q, 10), b, v3, F, S2)
  <2> DEFINE x == BigEndian(asdu.smpCnt, 2)
  <2>1. IsBytes(x) /\ SizeOk(x, {2}) /\ x = F["smpCnt"]
    <3>1. IsBytes(x) /\ Len(x) \in U16 /\ Len(x) \in {2}
      BY <1>0, SmallLengths
    <3>2. x = F["smpCnt"]
      BY DEF AsduMeant
    <3> HIDE DEF x
    <3> QED BY <3>1, <3>2 DEF SizeOk
  <2>2. Got(ReadItems(q, 9), b, Cat(Tlv(\h82, x), v3), F, S1)
    BY <1>9 DEF v2
  <2>3. \h82 \in Byte
    BY TagsAreBytes
  <2>s. S1 \in SUBSET Names /\ "smpCnt" \in Names /\ IsBytes(v3)
    BY <1>s, <1>v, <1>n
  <2> HIDE DEF x, S1, S3, S4, S5, S6
  <2>4. Got(ReadItem(ReadItems(q, 9), Field("smpCnt", \h82, {2})), b, v3, F, S1 \cup {"smpCnt"})
    BY <2>1, <2>2, <2>3, <2>s, FieldStep
  <2> QED BY <2>4, ItemsInTurn
<1>11. Got(ReadItems(q, 11), b, v4, F, S3)
  <2> DEFINE x == BigEndian(asdu.confRev, 4)
  <2>1. IsBytes(x) /\ SizeOk(x, {4}) /\ x = F["confRev"]
    <3>1. IsBytes(x) /\ Len(x) \in U16 /\ Len(x) \in {4}
      BY <1>0, SmallLengths
    <3>2. x = F["confRev"]
      BY DEF AsduMeant
    <3> HIDE DEF x
    <3> QED BY <3>1, <3>2 DEF SizeOk
  <2>2. Got(ReadItems(q, 10), b, Cat(Tlv(\h83, x), v4), F, S2)
    BY <1>10 DEF v3
  <2>3. \h83 \in Byte
    BY TagsAreBytes
  <2>s. S2 \in SUBSET Names /\ "confRev" \in Names /\ IsBytes(v4)
    BY <1>s, <1>v, <1>n
  <2> HIDE DEF x, S2, S4, S5, S6
  <2>4. Got(ReadItem(ReadItems(q, 10), Field("confRev", \h83, {4})), b, v4, F, S2 \cup {"confRev"})
    BY <2>1, <2>2, <2>3, <2>s, FieldStep
  <2> QED BY <2>4, ItemsInTurn
<1>12. Got(ReadItems(q, 12), b, v5, F, S4)
  <2> DEFINE x == <<asdu.smpSynch>>
  <2>1. IsBytes(x) /\ SizeOk(x, {1}) /\ x = F["smpSynch"]
    <3>1. IsBytes(x) /\ Len(x) \in U16 /\ Len(x) \in {1}
      BY <1>0, SmallLengths
    <3>2. x = F["smpSynch"]
      BY DEF AsduMeant
    <3> HIDE DEF x
    <3> QED BY <3>1, <3>2 DEF SizeOk
  <2>2. Got(ReadItems(q, 11), b, Cat(Tlv(\h85, x), v5), F, S3)
    BY <1>11 DEF v4
  <2>3. \h85 \in Byte
    BY TagsAreBytes
  <2>s. S3 \in SUBSET Names /\ "smpSynch" \in Names /\ IsBytes(v5)
    BY <1>s, <1>v, <1>n
  <2> HIDE DEF x, S3, S5, S6
  <2>4. Got(ReadItem(ReadItems(q, 11), Field("smpSynch", \h85, {1})), b, v5, F, S3 \cup {"smpSynch"})
    BY <2>1, <2>2, <2>3, <2>s, FieldStep
  <2> QED BY <2>4, ItemsInTurn
<1>13. Got(ReadItems(q, 13), b, v6, F, S5)
  <2> DEFINE x == IntU16(asdu.smpRate)
  <2>1. IsBytes(x) /\ SizeOk(x, {}) /\ x = F["smpRate"]
    <3>1. IsBytes(x) /\ Len(x) \in U16
      BY <1>0, SmallLengths
    <3>2. x = F["smpRate"]
      BY DEF AsduMeant
    <3> HIDE DEF x
    <3> QED BY <3>1, <3>2 DEF SizeOk
  <2>2. Got(ReadItems(q, 12), b, Cat(Tlv(\h86, x), v6), F, S4)
    BY <1>12 DEF v5
  <2>3. \h86 \in Byte
    BY TagsAreBytes
  <2>s. S4 \in SUBSET Names /\ "smpRate" \in Names /\ IsBytes(v6)
    BY <1>s, <1>v, <1>n
  <2> HIDE DEF x, S4, S6
  <2>4. Got(ReadItem(ReadItems(q, 12), Field("smpRate", \h86, {})), b, v6, F, S4 \cup {"smpRate"})
    BY <2>1, <2>2, <2>3, <2>s, FieldStep
  <2> QED BY <2>4, ItemsInTurn
<1>14. Got(ReadItems(q, 14), b, nil, F, S6)
  <2> DEFINE x == Pack(asdu.samples)
  <2>1. IsBytes(x) /\ SizeOk(x, {64}) /\ x = F["samples"]
    <3>1. IsBytes(x) /\ Len(x) \in U16 /\ Len(x) \in {64}
      BY <1>0, SmallLengths
    <3>2. x = F["samples"]
      BY DEF AsduMeant
    <3> HIDE DEF x
    <3> QED BY <3>1, <3>2 DEF SizeOk
  <2>2. Got(ReadItems(q, 13), b, Cat(Tlv(\h87, x), nil), F, S5)
    BY <1>13 DEF v6
  <2>3. \h87 \in Byte
    BY TagsAreBytes
  <2>s. S5 \in SUBSET Names /\ "samples" \in Names /\ IsBytes(nil)
    BY <1>s, <1>v, <1>n
  <2> HIDE DEF x, S5
  <2>4. Got(ReadItem(ReadItems(q, 13), Field("samples", \h87, {64})), b, nil, F, S5 \cup {"samples"})
    BY <2>1, <2>2, <2>3, <2>s, FieldStep
  <2> QED BY <2>4, ItemsInTurn
<1> QED BY <1>14, <1>s DEF nil

\* What encode_frame writes into the savPdu, and the savPdu.
SavPduContent(asdu) ==
  Tlv(\h80, IntU16(1)) \o Constructed(\hA2, Constructed(\h30, AsduFields(asdu)))
SavPduBytes(asdu) == Constructed(\h60, SavPduContent(asdu))

\* The names read before the savPdu, and all that hold what was written.
HeadNames == {"appid", "length", "reserved1", "reserved2"}
ReadNames == Names \ {"inner"}

\* A constructed field is four octets longer than its content.
LEMMA ConstructedSize ==
  ASSUME NEW tag \in Byte, NEW c, IsBytes(c)
  PROVE  /\ IsBytes(Constructed(tag, c)) /\ Len(Constructed(tag, c)) = 4 + Len(c)
         /\ Len(c) \in Nat
<1>1. c \in Seq(Byte)
  BY DEF IsBytes
<1>2. Constructed(tag, c) \in Seq(Byte) /\ Len(Constructed(tag, c)) = 4 + Len(c)
  BY <1>1, ConstructedBytes
<1>3. Len(c) \in Nat
  BY <1>1
<1> QED BY <1>2, <1>3 DEF IsBytes

\* The number of ASDUs, 1, is one octet and is read as 1.
LEMMA OneRead ==
  /\ IsBytes(IntU16(1)) /\ Len(IntU16(1)) = 1 /\ AsU16(IntU16(1)) = 1
<1>1. IntU16(1) = <<1>>
  BY DEF IntU16
<1>2. 1 \in Byte
  BY DEF Byte
<1>3. IntU16(1) \in Seq(Byte) /\ Len(IntU16(1)) = 1
  BY <1>1, <1>2, BytePieces
<1>4. AsU16(IntU16(1)) = 1
  BY <1>1, <1>2, AsU16Of1
<1> QED BY <1>3, <1>4 DEF IsBytes

\* The payload's constructed fields, and how long each of them is.
LEMMA SavPduSizes ==
  ASSUME NEW asdu, AsduOk(asdu)
  PROVE  LET fields == AsduFields(asdu)
             seqAsdu == Constructed(\h30, fields)
             list == Constructed(\hA2, seqAsdu)
             n == Len(fields)
         IN  /\ n \in Nat /\ IsBytes(fields)
             /\ IsBytes(seqAsdu) /\ Len(seqAsdu) = n + 4
             /\ IsBytes(list) /\ Len(list) = n + 8
             /\ SavPduContent(asdu) = Cat(Tlv(\h80, IntU16(1)), list)
             /\ IsBytes(SavPduContent(asdu)) /\ Len(SavPduContent(asdu)) = n + 11
             /\ IsBytes(SavPduBytes(asdu)) /\ Len(SavPduBytes(asdu)) = n + 15
<1> DEFINE fields == AsduFields(asdu)
           seqAsdu == Constructed(\h30, fields)
           list == Constructed(\hA2, seqAsdu)
           n == Len(fields)
           t == Tlv(\h80, IntU16(1))
           content == SavPduContent(asdu)
           pdu == SavPduBytes(asdu)
<1>1. IsBytes(fields) /\ n \in Nat
  <2>1. fields \in Seq(Byte)
    BY FieldsBytes
  <2> HIDE DEF fields
  <2> QED BY <2>1 DEF IsBytes
<1>2. IsBytes(seqAsdu) /\ Len(seqAsdu) = 4 + n
  <2> HIDE DEF fields
  <2> QED BY <1>1, TagsAreBytes, ConstructedSize
<1>3. IsBytes(list) /\ Len(list) = 4 + Len(seqAsdu)
  <2> HIDE DEF seqAsdu
  <2> QED BY <1>2, TagsAreBytes, ConstructedSize
<1>4. IsBytes(t) /\ Len(t) = 3
  <2> DEFINE x == IntU16(1)
  <2>1. x \in Seq(Byte) /\ Len(x) = 1
    BY OneRead DEF IsBytes
  <2> HIDE DEF x
  <2>2. Tlv(\h80, x) \in Seq(Byte) /\ Len(Tlv(\h80, x)) = Len(x) + IF Len(x) < 128 THEN 2 ELSE 4
    BY <2>1, TagsAreBytes, TlvSize
  <2>3. t = Tlv(\h80, x)
    BY DEF x
  <2> HIDE DEF t
  <2> QED BY <2>1, <2>2, <2>3 DEF IsBytes
<1>5. content = Cat(t, list)
  BY DEF SavPduContent, Cat
<1>6. IsBytes(content) /\ Len(content) = Len(t) + Len(list)
  <2> HIDE DEF content, t, list
  <2> QED BY <1>3, <1>4, <1>5, CatBytes
<1>7. IsBytes(pdu) /\ Len(pdu) = 4 + Len(content)
  <2>1. pdu = Constructed(\h60, content)
    BY DEF SavPduBytes
  <2> HIDE DEF pdu, content
  <2> QED BY <1>6, <2>1, TagsAreBytes, ConstructedSize
<1> HIDE DEF n, fields, seqAsdu, list, t, content, pdu
<1>8. Len(seqAsdu) = n + 4 /\ Len(list) = n + 8 /\ Len(content) = n + 11 /\ Len(pdu) = n + 15
  BY <1>1, <1>2, <1>3, <1>4, <1>6, <1>7
<1> QED BY <1>1, <1>2, <1>3, <1>5, <1>6, <1>7, <1>8 DEF n, fields, seqAsdu, list, t, content, pdu

\* An opening, a step at a time.
LEMMA OpeningStep ==
  ASSUME NEW r, NEW b, NEW F, NEW S \in SUBSET Names, "inner" \notin S,
         NEW tag \in Byte, NEW c, IsBytes(c), Len(c) \in U16,
         Got(r, b, Constructed(tag, c), F, S)
  PROVE  /\ Got(ReadItem(r, Opening(tag)), b, c, F, S)
         /\ ReadItem(r, Opening(tag)).pos + ReadItem(r, Opening(tag)).got = Len(b)
<1>1. c \in Seq(Byte)
  BY DEF IsBytes
<1> QED BY <1>1, OpeningRead

EndsWith(q, n, b) == ReadItems(q, n).pos + ReadItems(q, n).got = Len(b)

\* The savPdu, read to its end.
LEMMA SavPduRead ==
  ASSUME NEW q, NEW b, NEW F, NEW asdu, AsduOk(asdu), Len(SavPduBytes(asdu)) \in U16,
         AsduMeant(F, asdu), F["noAsdu"] = IntU16(1),
         Got(ReadItems(q, 4), b, SavPduBytes(asdu), F, HeadNames)
  PROVE  /\ Got(ReadItems(q, 14), b, <<>>, F, ReadNames)
         /\ EndsWith(q, 5, b) /\ EndsWith(q, 7, b) /\ EndsWith(q, 8, b)
<1> DEFINE fields == AsduFields(asdu)
           seqAsdu == Constructed(\h30, fields)
           list == Constructed(\hA2, seqAsdu)
           n == Len(fields)
           x == IntU16(1)
           t == Tlv(\h80, x)
           content == SavPduContent(asdu)
           m == Len(asdu.svId)
<1>1. /\ n \in Nat /\ IsBytes(fields) /\ IsBytes(seqAsdu) /\ Len(seqAsdu) = n + 4
      /\ IsBytes(list) /\ Len(list) = n + 8 /\ content = Cat(t, list)
      /\ IsBytes(content) /\ Len(content) = n + 11 /\ Len(SavPduBytes(asdu)) = n + 15
  BY SavPduSizes
<1>m. m \in Nat /\ m <= n
  <2>1. m \in Nat
    <3>1. asdu.svId \in Seq(Byte)
      BY DEF AsduOk
    <3> QED BY <3>1
  <2>2. Len(IntU16(asdu.smpRate)) \in Nat
    BY FieldBytes
  <2>3. n = m + (IF m < 128 THEN 2 ELSE 4) + Len(IntU16(asdu.smpRate)) + 81
    BY FieldsBytes
  <2> HIDE DEF m, n
  <2> QED BY <2>1, <2>2, <2>3
<1>x. IsBytes(x) /\ SizeOk(x, {}) /\ x = F["noAsdu"]
  BY OneRead, SmallLengths DEF SizeOk
<1>g. Got(ReadItems(q, 4), b, Constructed(\h60, content), F, HeadNames)
  BY DEF SavPduBytes
<1> HIDE DEF fields, seqAsdu, list, n, x, content, m
<1>2. n \in U16 /\ Len(fields) \in U16 /\ Len(seqAsdu) \in U16 /\ Len(content) \in U16 /\ m \in U16
  <2>1. /\ n <= n + 15 /\ n + 4 <= n + 15 /\ n + 11 <= n + 15 /\ n + 4 \in Nat /\ n + 11 \in Nat
        /\ m <= n + 15
    BY <1>1, <1>m
  <2> QED BY <1>1, <1>m, <2>1, SmallLengths DEF n
<1>s. /\ HeadNames \in SUBSET Names /\ "inner" \notin HeadNames
      /\ HeadNames \cup {"noAsdu"} \in SUBSET Names /\ "inner" \notin HeadNames \cup {"noAsdu"}
      /\ "noAsdu" \in Names
      /\ (HeadNames \cup {"noAsdu"}) \cup AsduNames = ReadNames
  BY DEF HeadNames, Names, ReadNames, AsduNames
<1>5. Got(ReadItems(q, 5), b, content, F, HeadNames) /\ EndsWith(q, 5, b)
  <2>1. ReadItems(q, 5) = ReadItem(ReadItems(q, 4), Opening(\h60))
    BY ItemsInTurn
  <2>2. \h60 \in Byte
    BY TagsAreBytes
  <2>3. /\ Got(ReadItem(ReadItems(q, 4), Opening(\h60)), b, content, F, HeadNames)
        /\ ReadItem(ReadItems(q, 4), Opening(\h60)).pos
             + ReadItem(ReadItems(q, 4), Opening(\h60)).got = Len(b)
    BY <1>1, <1>2, <1>g, <1>s, <2>2, OpeningStep
  <2> QED BY <2>1, <2>3 DEF EndsWith
<1>6. Got(ReadItems(q, 6), b, list, F, HeadNames \cup {"noAsdu"})
  <2>1. ReadItems(q, 6) = ReadItem(ReadItems(q, 5), Field("noAsdu", \h80, {}))
    BY ItemsInTurn
  <2>2. \h80 \in Byte
    BY TagsAreBytes
  <2>3. Got(ReadItems(q, 5), b, Cat(Tlv(\h80, x), list), F, HeadNames)
    BY <1>1, <1>5
  <2>4. IsBytes(list)
    BY <1>1
  <2> QED BY <1>s, <1>x, <2>1, <2>2, <2>3, <2>4, FieldStep
<1>7. Got(ReadItems(q, 7), b, seqAsdu, F, HeadNames \cup {"noAsdu"}) /\ EndsWith(q, 7, b)
  <2>1. ReadItems(q, 7) = ReadItem(ReadItems(q, 6), Opening(\hA2))
    BY ItemsInTurn
  <2>2. \hA2 \in Byte
    BY TagsAreBytes
  <2>g. Got(ReadItems(q, 6), b, Constructed(\hA2, seqAsdu), F, HeadNames \cup {"noAsdu"})
    BY <1>6 DEF list
  <2>3. /\ Got(ReadItem(ReadItems(q, 6), Opening(\hA2)), b, seqAsdu, F, HeadNames \cup {"noAsdu"})
        /\ ReadItem(ReadItems(q, 6), Opening(\hA2)).pos
             + ReadItem(ReadItems(q, 6), Opening(\hA2)).got = Len(b)
    BY <1>1, <1>2, <1>s, <2>2, <2>g, OpeningStep
  <2> QED BY <2>1, <2>3 DEF EndsWith
<1>8. Got(ReadItems(q, 8), b, fields, F, HeadNames \cup {"noAsdu"}) /\ EndsWith(q, 8, b)
  <2>1. ReadItems(q, 8) = ReadItem(ReadItems(q, 7), Opening(\h30))
    BY ItemsInTurn
  <2>2. \h30 \in Byte
    BY TagsAreBytes
  <2>g. Got(ReadItems(q, 7), b, Constructed(\h30, fields), F, HeadNames \cup {"noAsdu"})
    BY <1>7 DEF seqAsdu
  <2>3. /\ Got(ReadItem(ReadItems(q, 7), Opening(\h30)), b, fields, F, HeadNames \cup {"noAsdu"})
        /\ ReadItem(ReadItems(q, 7), Opening(\h30)).pos
             + ReadItem(ReadItems(q, 7), Opening(\h30)).got = Len(b)
    BY <1>1, <1>2, <1>s, <2>2, <2>g, OpeningStep
  <2> QED BY <2>1, <2>3 DEF EndsWith
<1>9. Got(ReadItems(q, 14), b, <<>>, F, (HeadNames \cup {"noAsdu"}) \cup AsduNames)
  <2>1. Len(asdu.svId) \in U16
    BY <1>2 DEF m
  <2>2. Got(ReadItems(q, 8), b, AsduFields(asdu), F, HeadNames \cup {"noAsdu"})
    BY <1>8 DEF fields
  <2> QED BY <1>s, <2>1, <2>2, AsduRead
<1> QED BY <1>5, <1>7, <1>8, <1>9, <1>s

\* The two reserved words are zeros.
Zeros == <<0, 0>>

\* A payload: from the APPID to the end of the frame.
PayloadOf(appid, length, asdu) ==
  Cat(BigEndian(appid, 2),
      Cat(BigEndian(length, 2), Cat(Zeros, Cat(Zeros, SavPduBytes(asdu)))))

\* What a payload of that APPID, length and ASDU is to be decoded to.
Meaning(appid, length, asdu) ==
  [appid |-> appid, length |-> length, noAsdu |-> 1, asdu |-> asdu]

\* A u16 and the reserved zeros are two octets.
LEMMA PairBytes ==
  /\ \A v \in U16 : IsBytes(BigEndian(v, 2)) /\ Len(BigEndian(v, 2)) = 2
  /\ IsBytes(Zeros) /\ Len(Zeros) = 2
<1>1. ASSUME NEW v \in U16
      PROVE  IsBytes(BigEndian(v, 2)) /\ Len(BigEndian(v, 2)) = 2
  <2>1. v \in Int
    BY DEF U16
  <2> QED BY <2>1, BigEndian2 DEF IsBytes
<1>2. IsBytes(Zeros) /\ Len(Zeros) = 2
  <2>1. 0 \in Byte
    BY ByteFacts
  <2> QED BY <2>1, BytePairs DEF IsBytes, Zeros
<1> QED BY <1>1, <1>2

\* The APPID, the length and the two reserved words are read as encode_frame wrote them.
LEMMA HeadRead ==
  ASSUME NEW q, NEW b, NEW F, NEW appid \in U16, NEW length \in U16, NEW pdu, IsBytes(pdu),
         F["appid"] = BigEndian(appid, 2), F["length"] = BigEndian(length, 2),
         F["reserved1"] = Zeros, F["reserved2"] = Zeros,
         Got(q, b, Cat(BigEndian(appid, 2),
                       Cat(BigEndian(length, 2), Cat(Zeros, Cat(Zeros, pdu)))), F, {})
  PROVE  Got(ReadItems(q, 4), b, pdu, F, HeadNames)
<1> DEFINE x1 == BigEndian(appid, 2)
           x2 == BigEndian(length, 2)
           x3 == Zeros
           y3 == Cat(x3, pdu)
           y2 == Cat(x3, y3)
           y1 == Cat(x2, y2)
           S1 == {} \cup {"appid"}
           S2 == S1 \cup {"length"}
           S3 == S2 \cup {"reserved1"}
           S4 == S3 \cup {"reserved2"}
<1>x. /\ IsBytes(x1) /\ Len(x1) = 2 /\ IsBytes(x2) /\ Len(x2) = 2 /\ IsBytes(x3) /\ Len(x3) = 2
      /\ x1 = F["appid"] /\ x2 = F["length"] /\ x3 = F["reserved1"] /\ x3 = F["reserved2"]
  BY PairBytes
<1>0. Got(q, b, Cat(x1, y1), F, {})
  OBVIOUS
<1>q. ReadItems(q, 0) = q
  BY ItemsInTurn
<1> HIDE DEF x1, x2, x3
<1>y. IsBytes(y1) /\ IsBytes(y2) /\ IsBytes(y3)
  BY <1>x, CatBytes
<1>s. /\ {} \in SUBSET Names /\ S1 \in SUBSET Names /\ S2 \in SUBSET Names
      /\ S3 \in SUBSET Names /\ S4 = HeadNames
      /\ "appid" \in Names /\ "length" \in Names /\ "reserved1" \in Names
      /\ "reserved2" \in Names
  BY DEF Names, HeadNames
<1>1. Got(ReadItems(q, 1), b, y1, F, S1)
  <2>1. ReadItems(q, 1) = ReadItem(q, Octets("appid", 2))
    BY <1>q, ItemsInTurn
  <2>3. {} \in SUBSET Names /\ "appid" \in Names /\ Spans(x1, 2) /\ IsBytes(y1) /\ x1 = F["appid"]
    BY <1>s, <1>x, <1>y DEF Spans
  <2> HIDE DEF y1
  <2> QED BY <1>0, <2>1, <2>3, OctetsStep
<1>2. Got(ReadItems(q, 2), b, y2, F, S2)
  <2>1. ReadItems(q, 2) = ReadItem(ReadItems(q, 1), Octets("length", 2))
    BY ItemsInTurn
  <2>2. Got(ReadItems(q, 1), b, Cat(x2, y2), F, S1)
    BY <1>1
  <2>3. S1 \in SUBSET Names /\ "length" \in Names /\ Spans(x2, 2) /\ IsBytes(y2)
        /\ x2 = F["length"]
    BY <1>s, <1>x, <1>y DEF Spans
  <2> HIDE DEF y2, S1
  <2> QED BY <2>1, <2>2, <2>3, OctetsStep
<1>3. Got(ReadItems(q, 3), b, y3, F, S3)
  <2>1. ReadItems(q, 3) = ReadItem(ReadItems(q, 2), Octets("reserved1", 2))
    BY ItemsInTurn
  <2>2. Got(ReadItems(q, 2), b, Cat(x3, y3), F, S2)
    BY <1>2
  <2>3. S2 \in SUBSET Names /\ "reserved1" \in Names /\ Spans(x3, 2) /\ IsBytes(y3)
        /\ x3 = F["reserved1"]
    BY <1>s, <1>x, <1>y DEF Spans
  <2> HIDE DEF y3, S2
  <2> QED BY <2>1, <2>2, <2>3, OctetsStep
<1>4. Got(ReadItems(q, 4), b, pdu, F, S4)
  <2>1. ReadItems(q, 4) = ReadItem(ReadItems(q, 3), Octets("reserved2", 2))
    BY ItemsInTurn
  <2>2. Got(ReadItems(q, 3), b, Cat(x3, pdu), F, S3)
    BY <1>3
  <2>3. S3 \in SUBSET Names /\ "reserved2" \in Names /\ Spans(x3, 2)
        /\ x3 = F["reserved2"]
    BY <1>s, <1>x DEF Spans
  <2> HIDE DEF S3
  <2> QED BY <2>1, <2>2, <2>3, OctetsStep
<1> QED BY <1>4, <1>s

\* The first octet of one.
LEMMA SingleByteRead ==
  ASSUME NEW a
  PROVE  <<a>>[1] = a
OBVIOUS

\* What is decoded of the fields that were read.
DecodedOf(f) ==
  [appid |-> Unsigned(f.appid), length |-> Unsigned(f.length), noAsdu |-> AsU16(f.noAsdu),
   asdu |-> [svId |-> f.svId, smpCnt |-> Unsigned(f.smpCnt), confRev |-> Unsigned(f.confRev),
             smpSynch |-> f.smpSynch[1], smpRate |-> AsU16(f.smpRate),
             samples |-> Unpack(f.samples)]]

\* A payload is decoded to what its fourteen items say, or to nothing if one of them met
\* an error.
LEMMA DecodeIs ==
  ASSUME NEW q
  PROVE  DecodeSavPdu(q) = IF ReadItems(q, 14).err = "none"
                           THEN {DecodedOf(ReadItems(q, 14).fields)} ELSE {}
<1>1. Len(SavPduLayout) = 14
  BY DEF SavPduLayout
<1> DEFINE s == ReadItems(q, 14)
           T == {t \in {s} : t.err = "none"}
<1>2. DecodeSavPdu(q) = {DecodedOf(f) : f \in {t.fields : t \in T}}
  BY <1>1 DEF DecodeSavPdu, DecodedOf
<1> HIDE DEF s
<1>3. T = IF s.err = "none" THEN {s} ELSE {}
  OBVIOUS
<1>4. {t.fields : t \in T} = IF s.err = "none" THEN {s.fields} ELSE {}
  BY <1>3
<1> HIDE DEF T
<1> QED BY <1>2, <1>4 DEF s

\* If the fields read are the fields written, what is decoded is what was meant.
LEMMA DecodedMeans ==
  ASSUME NEW f, NEW F, NEW appid \in U16, NEW length \in U16, NEW asdu, AsduOk(asdu),
         Agrees(f, F, ReadNames), AsduMeant(F, asdu), F["noAsdu"] = IntU16(1),
         F["appid"] = BigEndian(appid, 2), F["length"] = BigEndian(length, 2)
  PROVE  DecodedOf(f) = Meaning(appid, length, asdu)
<1>1. \A m \in ReadNames : f[m] = F[m]
  BY DEF Agrees
<1>2. /\ "appid" \in ReadNames /\ "length" \in ReadNames /\ "noAsdu" \in ReadNames
      /\ "svId" \in ReadNames /\ "smpCnt" \in ReadNames /\ "confRev" \in ReadNames
      /\ "smpSynch" \in ReadNames /\ "smpRate" \in ReadNames /\ "samples" \in ReadNames
  BY DEF ReadNames, Names
<1>3. /\ f.appid = BigEndian(appid, 2) /\ f.length = BigEndian(length, 2) /\ f.noAsdu = IntU16(1)
      /\ f.svId = asdu.svId /\ f.smpCnt = BigEndian(asdu.smpCnt, 2)
      /\ f.confRev = BigEndian(asdu.confRev, 4) /\ f.smpSynch = <<asdu.smpSynch>>
      /\ f.smpRate = IntU16(asdu.smpRate) /\ f.samples = Pack(asdu.samples)
  BY <1>1, <1>2 DEF AsduMeant
<1>4. /\ asdu.smpCnt \in U16 /\ IsU32(asdu.confRev) /\ asdu.smpRate \in U16
      /\ SamplesOk(asdu.samples)
      /\ asdu = [svId |-> asdu.svId, smpCnt |-> asdu.smpCnt, confRev |-> asdu.confRev,
                 smpSynch |-> asdu.smpSynch, smpRate |-> asdu.smpRate, samples |-> asdu.samples]
  BY DEF AsduOk
<1>5. Unsigned(f.appid) = appid /\ Unsigned(f.length) = length /\ Unsigned(f.smpCnt) = asdu.smpCnt
  BY <1>3, <1>4, U16Read
<1>6. Unsigned(f.confRev) = asdu.confRev
  BY <1>3, <1>4, U32Read
<1>7. AsU16(f.noAsdu) = 1 /\ AsU16(f.smpRate) = asdu.smpRate
  BY <1>3, <1>4, OneRead, IntU16Read
<1>8. f.smpSynch[1] = asdu.smpSynch
  BY <1>3, SingleByteRead
<1>9. Unpack(f.samples) = asdu.samples
  BY <1>3, <1>4, PackRead
<1> QED BY <1>3, <1>4, <1>5, <1>6, <1>7, <1>8, <1>9 DEF DecodedOf, Meaning

\* Of a reader that is at a payload, the decoder makes what the payload means.
LEMMA PayloadDecoded ==
  ASSUME NEW q, NEW b, NEW g, NEW f, NEW appid \in U16, NEW length \in U16,
         NEW asdu, AsduOk(asdu), Len(SavPduBytes(asdu)) \in U16, DOMAIN f = Names,
         Reads(q, b, PayloadOf(appid, length, asdu), g, f)
  PROVE  /\ DecodeSavPdu(q) = {Meaning(appid, length, asdu)}
         /\ EndsWith(q, 5, b) /\ EndsWith(q, 7, b) /\ EndsWith(q, 8, b)
         /\ ReadItems(q, 14).pos = Len(b)
<1> DEFINE F == [appid |-> BigEndian(appid, 2), length |-> BigEndian(length, 2),
                 reserved1 |-> Zeros, reserved2 |-> Zeros, noAsdu |-> IntU16(1),
                 svId |-> asdu.svId, smpCnt |-> BigEndian(asdu.smpCnt, 2),
                 confRev |-> BigEndian(asdu.confRev, 4), smpSynch |-> <<asdu.smpSynch>>,
                 smpRate |-> IntU16(asdu.smpRate), samples |-> Pack(asdu.samples)]
           s == ReadItems(q, 14)
<1>1. /\ AsduMeant(F, asdu) /\ F["noAsdu"] = IntU16(1)
      /\ F["appid"] = BigEndian(appid, 2) /\ F["length"] = BigEndian(length, 2)
      /\ F["reserved1"] = Zeros /\ F["reserved2"] = Zeros
  BY DEF AsduMeant
<1> HIDE DEF F
<1>2. Got(q, b, PayloadOf(appid, length, asdu), F, {})
  BY DEF Got, Agrees
<1>3. IsBytes(SavPduBytes(asdu))
  BY SavPduSizes
<1>4. Got(ReadItems(q, 4), b, SavPduBytes(asdu), F, HeadNames)
  BY <1>1, <1>2, <1>3, HeadRead DEF PayloadOf
<1>5. Got(s, b, <<>>, F, ReadNames) /\ EndsWith(q, 5, b) /\ EndsWith(q, 7, b) /\ EndsWith(q, 8, b)
  BY <1>1, <1>4, SavPduRead
<1> HIDE DEF s
<1>6. PICK h, k : Reads(s, b, <<>>, h, k) /\ Agrees(k, F, ReadNames)
  BY <1>5 DEF Got
<1>7. s.err = "none" /\ s.fields = k /\ At(b, s.pos, <<>>)
  BY <1>6, ReadsFields
<1>8. DecodeSavPdu(q) = {DecodedOf(k)}
  BY <1>7, DecodeIs DEF s
<1>9. DecodedOf(k) = Meaning(appid, length, asdu)
  BY <1>1, <1>6, DecodedMeans
<1>10. s.pos = Len(b)
  <2>1. s.pos + Len(<<>>) = Len(b) /\ s.pos \in Nat
    BY <1>7, Ending
  <2> QED BY <2>1
<1> QED BY <1>5, <1>8, <1>9, <1>10 DEF s

-------------------------------------------------------------------------------
(* The frame: its Ethernet header and its payload. *)

\* Frame parameters, by the widths of the code's types; and the VLAN tag as octets.
VlanOk(vlan) == vlan = NoVlan \/ Tci(CHOOSE t \in vlan : TRUE) \in Int
ParamsOk(params) ==
  Spans(params.dst, 6) /\ Spans(params.src, 6) /\ params.appid \in U16 /\ VlanOk(params.vlan)

TagOf(params) ==
  IF params.vlan = NoVlan THEN <<>>
  ELSE Cat(BigEndian(Tpid, 2), BigEndian(Tci(CHOOSE t \in params.vlan : TRUE), 2))

\* The header, and the frame: the header and its payload.
HeaderOf(params, payload) ==
  Cat(params.dst, Cat(params.src, Cat(TagOf(params), Cat(BigEndian(Ethertype, 2), payload))))
LengthOf(asdu) == 8 + Len(SavPduBytes(asdu))
FramePayload(params, asdu) == PayloadOf(params.appid, LengthOf(asdu), asdu)
FrameOf(params, asdu) == HeaderOf(params, FramePayload(params, asdu))

\* Five pieces joined from the right.
Nested(a, b, c, d, e) == Cat(a, Cat(b, Cat(c, Cat(d, e))))

\* Five pieces joined from the left or from the right are the same.
LEMMA FiveCat ==
  ASSUME NEW a, NEW b, NEW c, NEW d, NEW e,
         IsBytes(a), IsBytes(b), IsBytes(c), IsBytes(d), IsBytes(e)
  PROVE  /\ Nested(a, b, c, d, e) = Cat(Cat(Cat(Cat(a, b), c), d), e)
         /\ IsBytes(Nested(a, b, c, d, e))
         /\ Len(Nested(a, b, c, d, e)) = Len(a) + Len(b) + Len(c) + Len(d) + Len(e)
<1> DEFINE u2 == Cat(a, b)
           u3 == Cat(u2, c)
           u4 == Cat(u3, d)
           v4 == Cat(d, e)
           v3 == Cat(c, v4)
           v2 == Cat(b, v3)
           v1 == Cat(a, v2)
<1>1. IsBytes(u2) /\ IsBytes(u3) /\ IsBytes(u4)
  BY CatBytes
<1>2. /\ IsBytes(v4) /\ IsBytes(v3) /\ IsBytes(v2) /\ IsBytes(v1)
      /\ Len(v4) = Len(d) + Len(e) /\ Len(v3) = Len(c) + Len(v4)
      /\ Len(v2) = Len(b) + Len(v3) /\ Len(v1) = Len(a) + Len(v2)
  BY CatBytes
<1>3. Cat(u4, e) = Cat(u3, v4)
  BY <1>1, CatRegrouped
<1>4. Cat(u3, v4) = Cat(u2, v3)
  BY <1>1, <1>2, CatRegrouped
<1>5. Cat(u2, v3) = v1
  BY <1>1, <1>2, CatRegrouped
<1>6. Len(v1) = Len(a) + Len(b) + Len(c) + Len(d) + Len(e)
  <2>1. Len(a) \in Nat /\ Len(b) \in Nat /\ Len(c) \in Nat /\ Len(d) \in Nat /\ Len(e) \in Nat
    BY CatBytes
  <2> HIDE DEF v1, v2, v3, v4
  <2> QED BY <2>1, <1>2
<1> QED BY <1>1, <1>2, <1>3, <1>4, <1>5, <1>6 DEF Nested

\* The reserved words are two times two zeros.
LEMMA FourZeros ==
  <<0, 0, 0, 0>> = Cat(Zeros, Zeros) /\ IsBytes(<<0, 0, 0, 0>>)
<1> DEFINE w == <<0, 0, 0, 0>>
           x == Zeros
<1>1. 0 \in Byte
  BY ByteFacts
<1>2. w \in Seq(Byte) /\ Len(w) = 4 /\ w[1] = 0 /\ w[2] = 0 /\ w[3] = 0 /\ w[4] = 0
  BY <1>1
<1>3. x \in Seq(Byte) /\ Len(x) = 2 /\ x[1] = 0 /\ x[2] = 0
  BY <1>1 DEF Zeros
<1> HIDE DEF w, x
<1>4. /\ x \o x \in Seq(Byte) /\ Len(x \o x) = Len(x) + Len(x)
      /\ \A i \in 1 .. Len(x) + Len(x) :
           (x \o x)[i] = IF i <= Len(x) THEN x[i] ELSE x[i - Len(x)]
  BY <1>3, ConcatProperties
<1>5. Len(x) = 2 /\ Len(x) + Len(x) = 4
  BY <1>3
<1> DEFINE z == x \o x
<1>6. z \in Seq(Byte) /\ Len(z) = 4 /\ \A i \in 1 .. 4 : z[i] = IF i <= 2 THEN x[i] ELSE x[i - 2]
  BY <1>4, <1>5
<1> HIDE DEF z
<1>7. \A i \in 1 .. 4 : z[i] = 0 /\ w[i] = 0
  <2>1. \A i \in 1 .. 4 : i = 1 \/ i = 2 \/ i = 3 \/ i = 4
    OBVIOUS
  <2>2. z[1] = x[1] /\ z[2] = x[2]
    BY <1>6
  <2>3. z[3] = x[3 - 2] /\ z[4] = x[4 - 2]
    BY <1>6
  <2> QED BY <1>2, <1>3, <2>1, <2>2, <2>3
<1>8. Len(w) = Len(z) /\ \A i \in 1 .. Len(w) : w[i] = z[i]
  BY <1>2, <1>6, <1>7
<1>9. w = z
  BY <1>2, <1>6, <1>8, SeqEqual
<1> QED BY <1>2, <1>9 DEF w, z, x, Cat, IsBytes

\* The ethertype and the VLAN's TPID are two octets each, and differ.
LEMMA EthertypeBytes ==
  /\ Spans(BigEndian(Ethertype, 2), 2) /\ Spans(BigEndian(Tpid, 2), 2)
  /\ BigEndian(Ethertype, 2) # BigEndian(Tpid, 2)
<1>1. Ethertype \in U16 /\ Tpid \in U16 /\ Ethertype # Tpid
  BY DEF Ethertype, Tpid, U16, MaxU16
<1>2. Unsigned(BigEndian(Ethertype, 2)) = Ethertype /\ Unsigned(BigEndian(Tpid, 2)) = Tpid
  BY <1>1, U16Read
<1> QED BY <1>1, <1>2, PairBytes DEF Spans

\* The VLAN tag is four octets or none, as run_udp counts them.
LEMMA TagBytes ==
  ASSUME NEW params, ParamsOk(params)
  PROVE  /\ IsBytes(TagOf(params)) /\ Len(TagOf(params)) = L2Length(params) - 14
         /\ params.vlan # NoVlan => Spans(BigEndian(Tci(CHOOSE t \in params.vlan : TRUE), 2), 2)
<1> DEFINE tci == Tci(CHOOSE t \in params.vlan : TRUE)
<1>1. CASE params.vlan = NoVlan
  BY <1>1, CatNothing DEF TagOf, L2Length, IsBytes
<1>2. CASE params.vlan # NoVlan
  <2>1. tci \in Int
    BY <1>2 DEF ParamsOk, VlanOk
  <2> HIDE DEF tci
  <2>2. IsBytes(BigEndian(tci, 2)) /\ Len(BigEndian(tci, 2)) = 2
    BY <2>1, BigEndian2 DEF IsBytes
  <2> DEFINE x == BigEndian(Tpid, 2)
             y == BigEndian(tci, 2)
  <2>3. IsBytes(x) /\ Len(x) = 2
    BY EthertypeBytes DEF Spans
  <2>4. TagOf(params) = Cat(x, y) /\ L2Length(params) = 18
    BY <1>2 DEF TagOf, L2Length, tci
  <2>y. IsBytes(y) /\ Len(y) = 2
    BY <2>2
  <2> HIDE DEF x, y
  <2>5. IsBytes(Cat(x, y)) /\ Len(Cat(x, y)) = 4
    <3>1. IsBytes(x) /\ IsBytes(y)
      BY <2>3, <2>y
    <3>2. IsBytes(Cat(x, y)) /\ Len(Cat(x, y)) = Len(x) + Len(y)
      BY <3>1, CatBytes
    <3> QED BY <2>3, <2>y, <3>2
  <2>6. Spans(BigEndian(Tci(CHOOSE t \in params.vlan : TRUE), 2), 2)
    BY <2>2 DEF Spans, tci
  <2> QED BY <2>4, <2>5, <2>6
<1> QED BY <1>1, <1>2

\* The frame, as it is written and as it is read.
LEMMA FrameBytes ==
  ASSUME NEW params, ParamsOk(params), NEW asdu, AsduOk(asdu)
  PROVE  LET tag == IF params.vlan = NoVlan THEN <<>>
                    ELSE BigEndian(Tpid, 2) \o BigEndian(Tci(CHOOSE t \in params.vlan : TRUE), 2)
             written == params.dst \o params.src \o tag \o BigEndian(Ethertype, 2)
                          \o BigEndian(params.appid, 2) \o BigEndian(LengthOf(asdu), 2)
                          \o <<0, 0, 0, 0>> \o SavPduBytes(asdu)
         IN  /\ written = FrameOf(params, asdu)
             /\ IsBytes(FramePayload(params, asdu)) /\ IsBytes(FrameOf(params, asdu))
             /\ Len(FramePayload(params, asdu)) = LengthOf(asdu)
             /\ Len(FrameOf(params, asdu)) = L2Length(params) + LengthOf(asdu)
<1> DEFINE tag == TagOf(params)
           dst == params.dst
           src == params.src
           ety == BigEndian(Ethertype, 2)
           ap == BigEndian(params.appid, 2)
           le == BigEndian(LengthOf(asdu), 2)
           pdu == SavPduBytes(asdu)
           z == Zeros
           l2 == L2Length(params)
           h == Cat(Cat(Cat(dst, src), tag), ety)
           zz == Cat(z, z)
           P == Cat(ap, Cat(le, Cat(z, Cat(z, pdu))))
<1>1. /\ IsBytes(dst) /\ Len(dst) = 6 /\ IsBytes(src) /\ Len(src) = 6
      /\ IsBytes(tag) /\ Len(tag) = l2 - 14 /\ l2 \in Int
      /\ IsBytes(ety) /\ Len(ety) = 2
  BY TagBytes, EthertypeBytes DEF ParamsOk, Spans, L2Length
<1>2. /\ IsBytes(ap) /\ Len(ap) = 2 /\ IsBytes(le) /\ Len(le) = 2 /\ IsBytes(z) /\ Len(z) = 2
  <2>1. LengthOf(asdu) \in Int
    <3>1. Len(SavPduBytes(asdu)) \in Int
      <4>1. SavPduBytes(asdu) \in Seq(Byte)
        BY SavPduSizes DEF IsBytes
      <4> QED BY <4>1
    <3> QED BY <3>1 DEF LengthOf
  <2>2. IsBytes(le) /\ Len(le) = 2
    BY <2>1, BigEndian2 DEF IsBytes
  <2>3. params.appid \in U16
    BY DEF ParamsOk
  <2> QED BY <2>2, <2>3, PairBytes
<1>3. IsBytes(pdu)
  BY SavPduSizes
<1>w. (IF params.vlan = NoVlan THEN <<>>
       ELSE BigEndian(Tpid, 2) \o BigEndian(Tci(CHOOSE t \in params.vlan : TRUE), 2)) = tag
  BY DEF TagOf, Cat
<1>p. FramePayload(params, asdu) = P
  BY DEF FramePayload, PayloadOf
<1>f. FrameOf(params, asdu) = Cat(dst, Cat(src, Cat(tag, Cat(ety, P))))
  BY <1>p DEF FrameOf, HeaderOf
<1>z. <<0, 0, 0, 0>> = zz
  BY FourZeros
<1>g. params.dst \o params.src \o tag \o BigEndian(Ethertype, 2)
        \o BigEndian(params.appid, 2) \o BigEndian(LengthOf(asdu), 2)
        \o <<0, 0, 0, 0>> \o SavPduBytes(asdu)
        = Cat(Cat(Cat(Cat(h, ap), le), zz), pdu)
  <2> HIDE DEF tag, zz
  <2> QED BY <1>z DEF Cat
<1>l. LengthOf(asdu) = 8 + Len(pdu)
  BY DEF LengthOf
<1> HIDE DEF tag, dst, src, ety, ap, le, pdu, z, l2
<1>4. IsBytes(h)
  BY <1>1, CatBytes
<1>5. IsBytes(zz) /\ Cat(zz, pdu) = Cat(z, Cat(z, pdu))
  BY <1>2, <1>3, CatBytes, CatRegrouped
<1>6. /\ Cat(Cat(Cat(Cat(h, ap), le), zz), pdu) = Cat(h, Cat(ap, Cat(le, Cat(zz, pdu))))
  <2>1. IsBytes(zz)
    BY <1>5
  <2> HIDE DEF h, zz
  <2>2. Nested(h, ap, le, zz, pdu) = Cat(Cat(Cat(Cat(h, ap), le), zz), pdu)
    BY <1>2, <1>3, <1>4, <2>1, FiveCat
  <2> QED BY <2>2 DEF Nested
<1>7. Cat(Cat(Cat(Cat(h, ap), le), zz), pdu) = Cat(h, P)
  BY <1>5, <1>6
<1>8. IsBytes(P) /\ Len(P) = 8 + Len(pdu)
  <2>p. P = Nested(ap, le, z, z, pdu)
    BY DEF Nested
  <2>1. /\ IsBytes(Nested(ap, le, z, z, pdu))
        /\ Len(Nested(ap, le, z, z, pdu)) = Len(ap) + Len(le) + Len(z) + Len(z) + Len(pdu)
    <3>1. IsBytes(ap) /\ IsBytes(le) /\ IsBytes(z) /\ IsBytes(pdu)
      BY <1>2, <1>3
    <3> QED BY <3>1, FiveCat
  <2>2. Len(pdu) \in Nat
    BY <1>3, CatBytes
  <2> HIDE DEF P
  <2> QED BY <1>2, <2>1, <2>2, <2>p
<1> HIDE DEF P
<1>9. /\ Cat(h, P) = Cat(dst, Cat(src, Cat(tag, Cat(ety, P))))
      /\ IsBytes(Cat(dst, Cat(src, Cat(tag, Cat(ety, P)))))
      /\ Len(Cat(dst, Cat(src, Cat(tag, Cat(ety, P))))) = Len(dst) + Len(src) + Len(tag) + Len(ety) + Len(P)
  <2>1. /\ Nested(dst, src, tag, ety, P) = Cat(h, P)
        /\ IsBytes(Nested(dst, src, tag, ety, P))
        /\ Len(Nested(dst, src, tag, ety, P)) = Len(dst) + Len(src) + Len(tag) + Len(ety) + Len(P)
    <3>1. IsBytes(dst) /\ IsBytes(src) /\ IsBytes(tag) /\ IsBytes(ety) /\ IsBytes(P)
      BY <1>1, <1>8
    <3> QED BY <3>1, FiveCat
  <2> QED BY <2>1 DEF Nested
<1> DEFINE bytes == Cat(dst, Cat(src, Cat(tag, Cat(ety, P))))
           n == 8 + Len(pdu)
<1>10. n \in Int
  <2>1. Len(pdu) \in Nat
    BY <1>3, CatBytes
  <2> QED BY <2>1
<1>11. Len(bytes) = l2 + n
  <2> HIDE DEF bytes, n
  <2>1. Len(bytes) = Len(dst) + Len(src) + Len(tag) + Len(ety) + Len(P)
    BY <1>9 DEF bytes
  <2>2. Len(P) = n
    BY <1>8 DEF n
  <2> QED BY <1>1, <1>10, <2>1, <2>2
<1> HIDE DEF n
<1>12. Len(P) = LengthOf(asdu) /\ LengthOf(asdu) = n
  BY <1>8, <1>l DEF n
<1> QED BY <1>7, <1>8, <1>9, <1>11, <1>12, <1>f, <1>g, <1>p, <1>w DEF l2

\* encode_frame writes the frame if its length fits the 16-bit field and the frame fits
\* the buffer, and nothing if not.
LEMMA EncodeIs ==
  ASSUME NEW params, ParamsOk(params), NEW asdu, AsduOk(asdu), NEW capacity
  PROVE  EncodeFrame(params, asdu, capacity) =
           IF Fits(LengthOf(asdu), FrameOf(params, asdu), capacity)
           THEN {FrameOf(params, asdu)} ELSE {}
<1> DEFINE tag == IF params.vlan = NoVlan THEN <<>>
                  ELSE BigEndian(Tpid, 2) \o BigEndian(Tci(CHOOSE t \in params.vlan : TRUE), 2)
           written == params.dst \o params.src \o tag \o BigEndian(Ethertype, 2)
                        \o BigEndian(params.appid, 2) \o BigEndian(LengthOf(asdu), 2)
                        \o <<0, 0, 0, 0>> \o SavPduBytes(asdu)
<1>1. written = FrameOf(params, asdu)
  BY FrameBytes
<1>2. EncodeFrame(params, asdu, capacity) =
        IF Fits(LengthOf(asdu), written, capacity) THEN {written} ELSE {}
  BY DEF EncodeFrame, LengthOf, SavPduBytes, SavPduContent, AsduFields
<1> HIDE DEF written
<1> QED BY <1>1, <1>2

\* Taking a piece, a step at a time.
LEMMA TakeStep ==
  ASSUME NEW r, NEW b, NEW n, NEW x, NEW y, Spans(x, n), IsBytes(y), NEW g, NEW f,
         Reads(r, b, Cat(x, y), g, f)
  PROVE  Reads(Take(r, n), b, y, x, f)
<1>1. x \in Seq(Byte) /\ y \in Seq(Byte) /\ Len(x) = n
  BY DEF Spans, IsBytes
<1>2. Reads(r, b, x \o y, g, f)
  BY DEF Cat
<1>3. Reads(Take(r, Len(x)), b, y, x, f)
  BY <1>1, <1>2, ReadsTake
<1> QED BY <1>1, <1>3

\* Nothing was noted yet.
NoFields == [name \in Names |-> <<>>]

\* At the start all of the buffer is to be read, and nothing was noted.
LEMMA ReaderReads ==
  ASSUME NEW b, IsBytes(b)
  PROVE  Reads(Reader(b), b, b, <<>>, NoFields)
<1>1. Reader(b) = Mk(b, 0, <<>>, "none", NoFields)
  BY DEF Reader, Mk, NoFields
<1>2. At(b, 0, b)
  <2> DEFINE n == Len(b)
  <2>1. b \in Seq(Byte) /\ n \in Nat
    BY DEF IsBytes
  <2>2. SubSeq(b, 0 + 1, n) \in Seq(Byte) /\ Len(SubSeq(b, 0 + 1, n)) = n - 0
        /\ \A i \in 1 .. (n - 0) : SubSeq(b, 0 + 1, n)[i] = b[0 + i]
    BY <2>1, Slice
  <2> DEFINE w == SubSeq(b, 0 + 1, n)
  <2>3. w \in Seq(Byte) /\ Len(w) = n /\ \A i \in 1 .. n : w[i] = b[i]
    BY <2>1, <2>2
  <2> HIDE DEF w
  <2>4. w = b
    BY <2>1, <2>3, SeqEqual
  <2> QED BY <2>1, <2>4 DEF At, Suffix, w
<1> QED BY <1>1, <1>2 DEF Reads

\* The header read: the reader is at the payload, the ethertype in hand.
TypeRead(bytes) ==
  LET macs == Take(Take(Reader(bytes), 6), 6)
      first == Take(macs, 2)
  IN  IF first.got = BigEndian(Tpid, 2) THEN Take(Take(first, 2), 2) ELSE first

\* decode_frame reads the header and, if the ethertype is Sampled Values, the payload.
LEMMA DecodeFrameIs ==
  ASSUME NEW bytes
  PROVE  DecodeFrame(bytes) =
           IF TypeRead(bytes).err # "none" \/ TypeRead(bytes).got # BigEndian(Ethertype, 2) THEN {}
           ELSE DecodeSavPdu(TypeRead(bytes))
BY DEF DecodeFrame, TypeRead

\* The header that encode_frame wrote is read, with a VLAN tag or without: the payload
\* is next.
LEMMA HeaderRead ==
  ASSUME NEW params, ParamsOk(params), NEW p, IsBytes(p), NEW b, b = HeaderOf(params, p),
         IsBytes(b)
  PROVE  Reads(TypeRead(b), b, p, BigEndian(Ethertype, 2), NoFields)
<1> DEFINE ety == BigEndian(Ethertype, 2)
           tpid == BigEndian(Tpid, 2)
           dst == params.dst
           src == params.src
           tag == TagOf(params)
           y3 == Cat(ety, p)
           y2 == Cat(tag, y3)
           y1 == Cat(src, y2)
           r1 == Take(Reader(b), 6)
           r2 == Take(r1, 6)
           r3 == Take(r2, 2)
<1>1. Spans(dst, 6) /\ Spans(src, 6) /\ Spans(ety, 2) /\ Spans(tpid, 2) /\ ety # tpid
  BY EthertypeBytes DEF ParamsOk
<1>2. IsBytes(dst) /\ IsBytes(src) /\ IsBytes(ety) /\ IsBytes(tpid)
  BY <1>1 DEF Spans
<1>t. IsBytes(tag)
  BY TagBytes
<1>3. IsBytes(y3) /\ IsBytes(y2) /\ IsBytes(y1)
  <2> HIDE DEF ety, src, tag
  <2> QED BY <1>2, <1>t, CatBytes
<1>4. Reads(Reader(b), b, Cat(dst, y1), <<>>, NoFields)
  <2>1. b = Cat(dst, y1)
    BY DEF HeaderOf
  <2>2. Reads(Reader(b), b, b, <<>>, NoFields)
    BY ReaderReads
  <2> HIDE DEF y1
  <2> QED BY <2>1, <2>2
<1> HIDE DEF ety, tpid, dst, src
<1>5. Reads(r1, b, y1, dst, NoFields)
  <2> HIDE DEF y1
  <2> QED BY <1>1, <1>3, <1>4, TakeStep
<1>6. Reads(r2, b, y2, src, NoFields)
  <2> HIDE DEF y2, r1
  <2> QED BY <1>1, <1>3, <1>5, TakeStep
<1>7. CASE params.vlan = NoVlan
  <2>1. tag = <<>>
    BY <1>7 DEF TagOf
  <2> HIDE DEF tag
  <2>2. y2 = y3
    <3> HIDE DEF y3
    <3> QED BY <1>3, <2>1, CatNothing
  <2> HIDE DEF y2
  <2>3. Reads(r3, b, p, ety, NoFields)
    <3>1. Reads(r2, b, Cat(ety, p), src, NoFields)
      BY <1>6, <2>2
    <3> HIDE DEF r2
    <3> QED BY <1>1, <3>1, TakeStep
  <2>4. r3.got = ety
    <3> HIDE DEF r3
    <3> QED BY <2>3, ReadsFields
  <2>5. TypeRead(b) = r3
    <3>1. r3.got # BigEndian(Tpid, 2)
      <4> HIDE DEF r3
      <4> QED BY <1>1, <2>4 DEF tpid
    <3> QED BY <3>1 DEF TypeRead
  <2> QED BY <2>3, <2>5 DEF ety
<1>8. CASE params.vlan # NoVlan
  <2> DEFINE tci == BigEndian(Tci(CHOOSE t \in params.vlan : TRUE), 2)
             z == Cat(tci, y3)
             r4 == Take(r3, 2)
             r5 == Take(r4, 2)
  <2>1. tag = Cat(tpid, tci)
    BY <1>8 DEF TagOf, tpid
  <2>2. Spans(tci, 2)
    BY <1>8, TagBytes
  <2>3. IsBytes(tci)
    BY <2>2 DEF Spans
  <2> HIDE DEF tci, tag
  <2>4. y2 = Cat(tpid, z) /\ IsBytes(z)
    <3> HIDE DEF y3
    <3> QED BY <1>2, <1>3, <2>1, <2>3, CatRegrouped, CatBytes
  <2> HIDE DEF y2
  <2>5. Reads(r3, b, z, tpid, NoFields)
    <3> HIDE DEF z, r2
    <3> QED BY <1>1, <1>6, <2>4, TakeStep
  <2>6. Reads(r4, b, y3, tci, NoFields)
    <3> HIDE DEF y3, r3
    <3> QED BY <1>3, <2>2, <2>5, TakeStep
  <2>7. Reads(r5, b, p, ety, NoFields)
    <3> HIDE DEF r4
    <3> QED BY <1>1, <2>6, TakeStep
  <2>8. r3.got = tpid
    <3> HIDE DEF r3
    <3> QED BY <2>5, ReadsFields
  <2>9. TypeRead(b) = r5
    <3>1. r3.got = BigEndian(Tpid, 2)
      BY <2>8 DEF tpid
    <3> QED BY <3>1 DEF TypeRead
  <2> QED BY <2>7, <2>9 DEF ety
<1> QED BY <1>7, <1>8

\* That a frame and its payload are read to their ends, as params and asdu.
ReadAs(bytes, payload, params, asdu) ==
  /\ IsBytes(bytes) /\ IsBytes(payload) /\ L2Length(params) + Len(payload) = Len(bytes)
  /\ DecodeFrame(bytes) = {Meaning(params.appid, Len(payload), asdu)}
  /\ DecodeL2Stripped(payload) = {Meaning(params.appid, Len(payload), asdu)}
  /\ ReadItems(TypeRead(bytes), 14).pos = Len(bytes)
  /\ ReadItems(Reader(payload), 14).pos = Len(payload)
  /\ EndsWith(Reader(payload), 5, payload) /\ EndsWith(Reader(payload), 7, payload)
  /\ EndsWith(Reader(payload), 8, payload)

\* Every frame that encode_frame writes is read to its end and decoded to the parameters
\* and the ASDU it was made of, with the Ethernet header and without it.
LEMMA FrameDecoded ==
  ASSUME NEW params, ParamsOk(params), NEW asdu, AsduOk(asdu), NEW capacity,
         NEW bytes \in EncodeFrame(params, asdu, capacity)
  PROVE  ReadAs(bytes, SubSeq(bytes, L2Length(params) + 1, Len(bytes)), params, asdu)
<1> DEFINE q == TypeRead(bytes)
           p == FramePayload(params, asdu)
           l == LengthOf(asdu)
           m == L2Length(params)
           meaning == Meaning(params.appid, l, asdu)
<1>1. bytes = FrameOf(params, asdu) /\ l <= MaxU16
  BY EncodeIs DEF Fits
<1>2. /\ IsBytes(p) /\ IsBytes(bytes) /\ Len(p) = l /\ Len(bytes) = m + l
  BY <1>1, FrameBytes
<1>3. l \in U16 /\ Len(SavPduBytes(asdu)) \in U16
  <2> DEFINE k == Len(SavPduBytes(asdu))
  <2>1. k \in Nat
    <3>1. SavPduBytes(asdu) \in Seq(Byte)
      BY SavPduSizes DEF IsBytes
    <3> QED BY <3>1
  <2>2. l = 8 + k
    BY DEF LengthOf
  <2> HIDE DEF k, l
  <2>3. l \in Nat /\ k <= l
    BY <2>1, <2>2
  <2>4. l \in U16
    BY <1>1, <2>3 DEF U16
  <2> QED BY <2>1, <2>3, <2>4, SmallLengths DEF k
<1>4. Reads(q, bytes, p, BigEndian(Ethertype, 2), NoFields)
  <2>1. bytes = HeaderOf(params, p)
    BY <1>1 DEF FrameOf
  <2> HIDE DEF p, q
  <2> QED BY <1>2, <2>1, HeaderRead DEF q
<1>5. q.err = "none" /\ q.got = BigEndian(Ethertype, 2) /\ At(bytes, q.pos, p)
  <2> HIDE DEF q
  <2> QED BY <1>4, ReadsFields
<1>6. q.pos = m /\ m \in Nat
  <2>1. q.pos + Len(p) = Len(bytes) /\ q.pos \in Nat
    BY <1>5, Ending
  <2>2. m \in Nat
    BY DEF L2Length
  <2>3. l \in Int
    BY <1>3 DEF U16
  <2> DEFINE x == q.pos
             y == Len(bytes)
  <2>4. x + l = y /\ y = m + l
    BY <1>2, <2>1
  <2>5. x \in Int /\ l \in Int /\ m \in Int
    BY <2>1, <2>2, <2>3
  <2> HIDE DEF m, l, x, y
  <2>6. x = m
    BY <2>4, <2>5
  <2> QED BY <2>2, <2>6 DEF x
<1>7. SubSeq(bytes, m + 1, Len(bytes)) = p
  BY <1>5, <1>6 DEF At, Suffix
<1>n. DOMAIN NoFields = Names /\ params.appid \in U16
  BY DEF NoFields, ParamsOk
<1>r. Reads(Reader(p), p, p, <<>>, NoFields)
  BY <1>2, ReaderReads
<1>p. p = PayloadOf(params.appid, l, asdu)
  BY DEF FramePayload
<1> HIDE DEF q, p, l, m
<1>8. DecodeSavPdu(q) = {meaning} /\ ReadItems(q, 14).pos = Len(bytes)
  <2>1. Reads(q, bytes, PayloadOf(params.appid, l, asdu), BigEndian(Ethertype, 2), NoFields)
    BY <1>4, <1>p
  <2> QED BY <1>3, <1>n, <2>1, PayloadDecoded
<1>9. /\ DecodeSavPdu(Reader(p)) = {meaning} /\ ReadItems(Reader(p), 14).pos = Len(p)
      /\ EndsWith(Reader(p), 5, p) /\ EndsWith(Reader(p), 7, p) /\ EndsWith(Reader(p), 8, p)
  <2> DEFINE r == Reader(p)
             nil == <<>>
  <2>1. Reads(r, p, PayloadOf(params.appid, l, asdu), nil, NoFields)
    BY <1>r, <1>p
  <2> HIDE DEF r, nil
  <2>2. /\ DecodeSavPdu(r) = {Meaning(params.appid, l, asdu)}
        /\ EndsWith(r, 5, p) /\ EndsWith(r, 7, p) /\ EndsWith(r, 8, p)
        /\ ReadItems(r, 14).pos = Len(p)
    BY <1>3, <1>n, <2>1, PayloadDecoded
  <2> QED BY <2>2 DEF r
<1>10. DecodeFrame(bytes) = {meaning}
  BY <1>5, <1>8, DecodeFrameIs DEF q
<1>11. DecodeL2Stripped(p) = {meaning}
  BY <1>9 DEF DecodeL2Stripped
<1>12. m + Len(p) = Len(bytes)
  BY <1>2
<1>13. ReadAs(bytes, p, params, asdu)
  BY <1>2, <1>8, <1>9, <1>10, <1>11, <1>12 DEF ReadAs, m, q
<1> QED BY <1>7, <1>13 DEF m

\* Whatever is read: octets are numbers, and what they make is one.
LEMMA UnsignedIsNat ==
  ASSUME NEW s \in Seq(Byte)
  PROVE  Unsigned(s) \in Nat
<1> DEFINE n == Len(s)
<1>1. PICK C : Turns(C, s) /\ Unsigned(s) = C[n]
  BY UnsignedTurns
<1>2. C[0] = 0 /\ \A i \in 1 .. n : C[i] = C[i - 1] * 256 + s[i]
  BY <1>1 DEF Turns
<1>3. n \in Nat /\ \A i \in 1 .. n : s[i] \in Byte
  BY ElementOfSeq
<1> HIDE DEF n
<1> DEFINE Bad == {i \in 0 .. n : C[i] \notin Nat}
<1>4. Bad = {}
  <2> SUFFICES ASSUME Bad # {}
               PROVE  FALSE
    OBVIOUS
  <2>1. PICK m \in Bad : \A k \in Bad : m <= k
    <3>1. Bad \in SUBSET Nat
      OBVIOUS
    <3> HIDE DEF Bad
    <3> QED BY <3>1, LeastExists
  <2>2. m \in 0 .. n /\ C[m] \notin Nat
    OBVIOUS
  <2>3. m # 0
    BY <1>2, <2>2
  <2>4. m \in 1 .. n /\ m - 1 \in 0 .. n /\ ~(m <= m - 1)
    BY <1>3, <2>2, <2>3
  <2>5. C[m - 1] \in Nat
    BY <2>1, <2>4
  <2>6. C[m] = C[m - 1] * 256 + s[m] /\ s[m] \in Nat
    BY <1>2, <1>3, <2>4 DEF Byte
  <2>7. C[m - 1] * 256 + s[m] \in Nat
    <3> DEFINE x == C[m - 1]
               y == s[m]
    <3>1. x \in Nat /\ y \in Nat
      BY <2>5, <2>6
    <3> HIDE DEF x, y
    <3>2. x * 256 + y \in Nat
      BY <3>1
    <3> QED BY <3>2 DEF x, y
  <2> QED BY <2>2, <2>6, <2>7
<1>5. n \in 0 .. n
  BY <1>3
<1> QED BY <1>1, <1>4, <1>5

-------------------------------------------------------------------------------
(* A frame that was cut. *)

\* A reader r of a cut c and a reader s of the whole b: until r meets an error,
\* it is where s is.
IsCut(c, b) ==
  /\ c \in Seq(Byte) /\ b \in Seq(Byte) /\ Len(c) <= Len(b)
  /\ \A i \in 1 .. Len(c) : c[i] = b[i]
Follows(r, s, c, b) ==
  \E p, g, e, f :
    /\ r = Mk(c, p, g, e, f)
    /\ e = "none" => s = Mk(b, p, g, "none", f) /\ p \in Nat /\ p <= Len(c)

\* A reader that fails keeps where it is and what it read.
LEMMA FailedOf ==
  ASSUME NEW c, NEW p, NEW g, NEW f, NEW w
  PROVE  Failed(Mk(c, p, g, "none", f), w) = Mk(c, p, g, w, f)
BY DEF Failed, Mk

\* What is known of the fields of a reader of a cut.
LEMMA FollowsParts ==
  ASSUME NEW r, NEW s, NEW c, NEW b, Follows(r, s, c, b)
  PROVE  /\ r = Mk(c, r.pos, r.got, r.err, r.fields)
         /\ r.err = "none" => /\ s.pos = r.pos /\ s.got = r.got /\ s.err = "none"
                              /\ r.pos \in Nat /\ r.pos <= Len(c)
<1>1. PICK p, g, e, f :
        /\ r = Mk(c, p, g, e, f)
        /\ e = "none" => s = Mk(b, p, g, "none", f) /\ p \in Nat /\ p <= Len(c)
  BY DEF Follows
<1>2. r.pos = p /\ r.got = g /\ r.err = e /\ r.fields = f
  BY <1>1, MkFields
<1>3. e = "none" => s.pos = p /\ s.got = g /\ s.err = "none"
  BY <1>1, MkFields
<1> QED BY <1>1, <1>2, <1>3

\* An error of the cut's reader makes the two part.
LEMMA FailedFollows ==
  ASSUME NEW r, NEW s, NEW c, NEW b, NEW t, NEW w, w # "none", Follows(r, s, c, b), r.err = "none"
  PROVE  Follows(Failed(r, w), t, c, b)
<1>1. r = Mk(c, r.pos, r.got, "none", r.fields)
  BY FollowsParts
<1>2. Failed(r, w) = Mk(c, r.pos, r.got, w, r.fields)
  BY <1>1, FailedOf
<1> QED BY <1>2 DEF Follows

\* A reader that fails has that error.
LEMMA FailedErr ==
  ASSUME NEW r, NEW s, NEW c, NEW b, NEW w, Follows(r, s, c, b), r.err = "none"
  PROVE  Failed(r, w).err = w
<1>1. r = Mk(c, r.pos, r.got, "none", r.fields)
  BY FollowsParts
<1>2. Failed(r, w) = Mk(c, r.pos, r.got, w, r.fields)
  BY <1>1, FailedOf
<1> QED BY <1>2, MkFields

\* An error stays whatever is read after it.
LEMMA ErrorFollows ==
  ASSUME NEW r, NEW s, NEW c, NEW b, NEW t, Follows(r, s, c, b), r.err # "none"
  PROVE  Follows(r, t, c, b)
<1>1. r = Mk(c, r.pos, r.got, r.err, r.fields)
  BY FollowsParts
<1> QED BY <1>1 DEF Follows

\* The next k octets from p on.
Piece(b, p, k) == SubSeq(b, p + 1, p + k)

\* Taking more than there is is the truncated error.
LEMMA TakeShortOf ==
  ASSUME NEW b, NEW p, NEW g, NEW f, NEW k, p + k > Len(b)
  PROVE  Take(Mk(b, p, g, "none", f), k) = Mk(b, p, g, "truncated", f)
<1> DEFINE r == Mk(b, p, g, "none", f)
<1>1. r.err = "none" /\ r.pos = p /\ r.buf = b
  BY DEF Mk
<1>2. Failed(r, "truncated") = Mk(b, p, g, "truncated", f)
  BY FailedOf
<1> HIDE DEF r
<1>4. Take(r, k) = Failed(r, "truncated")
  BY <1>1 DEF Take
<1> QED BY <1>2, <1>4 DEF r

\* Taking what is there.
LEMMA TakeEnoughOf ==
  ASSUME NEW b, NEW p, NEW g, NEW f, NEW k, ~(p + k > Len(b))
  PROVE  Take(Mk(b, p, g, "none", f), k) = Mk(b, p + k, Piece(b, p, k), "none", f)
<1> DEFINE r == Mk(b, p, g, "none", f)
<1>1. r.err = "none" /\ r.pos = p /\ r.buf = b
  BY DEF Mk
<1>3. Moved(r, SubSeq(b, p + 1, p + k), p + k) = Mk(b, p + k, SubSeq(b, p + 1, p + k), "none", f)
  BY MovedOf
<1> HIDE DEF r
<1>4. Take(r, k) = Advance(r, k) /\ Advance(r, k) = Moved(r, SubSeq(r.buf, r.pos + 1, r.pos + k), r.pos + k)
  BY <1>1, AdvanceIs DEF Take
<1>5. Take(r, k) = Moved(r, SubSeq(b, p + 1, p + k), p + k)
  BY <1>1, <1>4
<1> QED BY <1>3, <1>5 DEF r, Piece

\* A piece that lies in the cut is the same piece of the whole.
LEMMA CutSlice ==
  ASSUME NEW c, NEW b, IsCut(c, b), NEW p \in Nat, NEW k \in Nat, ~(p + k > Len(c))
  PROVE  /\ Piece(c, p, k) = Piece(b, p, k) /\ ~(p + k > Len(b))
         /\ Spans(Piece(c, p, k), k)
         /\ p + k \in Nat /\ p + k <= Len(c)
<1> DEFINE q == p + k
           x == SubSeq(c, p + 1, q)
           y == SubSeq(b, p + 1, q)
<1>1. c \in Seq(Byte) /\ b \in Seq(Byte) /\ Len(c) <= Len(b) /\ Len(c) \in Nat /\ Len(b) \in Nat
  BY DEF IsCut
<1>2. q \in Nat /\ p <= q /\ q <= Len(c) /\ q <= Len(b) /\ q - p = k
  BY <1>1
<1> HIDE DEF q
<1>3. x \in Seq(Byte) /\ Len(x) = q - p /\ \A i \in 1 .. (q - p) : x[i] = c[p + i]
  BY <1>1, <1>2, Slice
<1>4. y \in Seq(Byte) /\ Len(y) = q - p /\ \A i \in 1 .. (q - p) : y[i] = b[p + i]
  BY <1>1, <1>2, Slice
<1>5. \A i \in 1 .. (q - p) : c[p + i] = b[p + i]
  <2> TAKE i \in 1 .. (q - p)
  <2>1. p + i \in 1 .. Len(c)
    BY <1>1, <1>2
  <2> QED BY <2>1 DEF IsCut
<1> HIDE DEF x, y
<1>6. Len(x) = Len(y) /\ \A i \in 1 .. Len(x) : x[i] = y[i]
  BY <1>2, <1>3, <1>4, <1>5
<1>7. x = y
  BY <1>3, <1>4, <1>6, SeqEqual
<1>8. Len(x) = k
  BY <1>2, <1>3
<1>9. x = y /\ ~(q > Len(b)) /\ Spans(x, k) /\ q \in Nat /\ q <= Len(c)
  <2>1. ~(q > Len(b))
    BY <1>1, <1>2
  <2>2. Spans(x, k)
    BY <1>3, <1>8 DEF Spans, IsBytes
  <2> QED BY <1>2, <1>7, <2>1, <2>2
<1> QED BY <1>9 DEF q, x, y, Piece

\* A reader that met an error reads nothing.
LEMMA TakeErr ==
  ASSUME NEW r, NEW k, r.err # "none"
  PROVE  Take(r, k) = r
BY DEF Take

\* read_bytes: the cut's reader gets what the whole's gets, or runs out of octets.
LEMMA TakeFollows ==
  ASSUME NEW r, NEW s, NEW c, NEW b, IsCut(c, b), Follows(r, s, c, b), NEW k \in Nat
  PROVE  /\ Follows(Take(r, k), Take(s, k), c, b)
         /\ Take(r, k).err = "none" => Spans(Take(r, k).got, k)
<1>1. PICK p, g, e, f :
        /\ r = Mk(c, p, g, e, f)
        /\ e = "none" => s = Mk(b, p, g, "none", f) /\ p \in Nat /\ p <= Len(c)
  BY DEF Follows
<1>e. r.err = e
  BY <1>1, MkFields
<1>2. CASE e # "none"
  <2>1. Take(r, k) = r
    BY <1>e, <1>2, TakeErr
  <2>2. Follows(r, Take(s, k), c, b)
    BY <1>e, <1>2, ErrorFollows
  <2> QED BY <1>e, <1>2, <2>1, <2>2
<1>3. CASE e = "none"
  <2>1. r = Mk(c, p, g, "none", f) /\ s = Mk(b, p, g, "none", f)
    BY <1>1, <1>3
  <2>p. p \in Nat
    BY <1>1, <1>3
  <2> DEFINE short == p + k > Len(c)
  <2>2. CASE short
    <3>1. Take(r, k) = Mk(c, p, g, "truncated", f)
      <4>1. Take(Mk(c, p, g, "none", f), k) = Mk(c, p, g, "truncated", f)
        BY <2>2, TakeShortOf
      <4> HIDE DEF short
      <4> QED BY <2>1, <4>1
    <3>2. Take(r, k).err = "truncated"
      BY <3>1, MkFields
    <3> QED BY <3>1, <3>2 DEF Follows
  <2>3. CASE ~short
    <3> DEFINE x == Piece(c, p, k)
               q == p + k
    <3>1. ~(q > Len(c))
      BY <2>3
    <3>2. x = Piece(b, p, k) /\ ~(q > Len(b)) /\ Spans(x, k) /\ q \in Nat /\ q <= Len(c)
      BY <2>p, <3>1, CutSlice
    <3>3. Take(Mk(c, p, g, "none", f), k) = Mk(c, q, Piece(c, p, k), "none", f)
      BY <3>1, TakeEnoughOf
    <3>4. Take(Mk(b, p, g, "none", f), k) = Mk(b, q, Piece(b, p, k), "none", f)
      BY <3>2, TakeEnoughOf
    <3> HIDE DEF q
    <3>5. Take(r, k) = Mk(c, q, x, "none", f) /\ Take(s, k) = Mk(b, q, x, "none", f)
      BY <2>1, <3>2, <3>3, <3>4
    <3> HIDE DEF x
    <3>6. Take(r, k).got = x
      BY <3>5, MkFields
    <3>7. Follows(Take(r, k), Take(s, k), c, b)
      BY <3>2, <3>5 DEF Follows
    <3> QED BY <3>2, <3>6, <3>7
  <2> QED BY <2>2, <2>3
<1> QED BY <1>2, <1>3

\* What two readers that are at the same place agree on.
LEMMA FollowsGot ==
  ASSUME NEW r, NEW s, NEW c, NEW b, Follows(r, s, c, b), r.err = "none"
  PROVE  s.got = r.got /\ s.err = "none"
BY FollowsParts

\* expect_tag on a cut.
LEMMA TagFollows ==
  ASSUME NEW r, NEW s, NEW c, NEW b, IsCut(c, b), Follows(r, s, c, b), NEW tag
  PROVE  Follows(Tag(r, tag), Tag(s, tag), c, b)
<1> DEFINE u == Take(r, 1)
           v == Take(s, 1)
<1>1. Follows(u, v, c, b)
  <2>1. 1 \in Nat
    OBVIOUS
  <2> QED BY <2>1, TakeFollows
<1>2. /\ Tag(r, tag) = IF u.err = "none" /\ u.got # <<tag>> THEN Failed(u, "tag") ELSE u
      /\ Tag(s, tag) = IF v.err = "none" /\ v.got # <<tag>> THEN Failed(v, "tag") ELSE v
  BY DEF Tag
<1> HIDE DEF u, v
<1>3. CASE u.err # "none"
  <2>1. Tag(r, tag) = u
    BY <1>2, <1>3
  <2>2. Follows(u, Tag(s, tag), c, b)
    BY <1>1, <1>3, ErrorFollows
  <2> QED BY <2>1, <2>2
<1>4. CASE u.err = "none" /\ u.got # <<tag>>
  <2>1. Tag(r, tag) = Failed(u, "tag")
    BY <1>2, <1>4
  <2>2. Follows(Failed(u, "tag"), Tag(s, tag), c, b)
    <3>1. "tag" # "none"
      OBVIOUS
    <3> QED BY <1>1, <1>4, <3>1, FailedFollows
  <2> QED BY <2>1, <2>2
<1>5. CASE u.err = "none" /\ u.got = <<tag>>
  <2>1. v.got = u.got
    BY <1>1, <1>5, FollowsGot
  <2>2. Tag(r, tag) = u /\ Tag(s, tag) = v
    BY <1>2, <1>5, <2>1
  <2> QED BY <1>1, <2>2
<1> QED BY <1>3, <1>4, <1>5

\* Another value for what was read last, on a cut.
LEMMA WithGotFollows ==
  ASSUME NEW r, NEW s, NEW c, NEW b, Follows(r, s, c, b), NEW h, NEW h2, h = h2 \/ r.err # "none"
  PROVE  Follows(WithGot(r, h), WithGot(s, h2), c, b) /\ WithGot(r, h).err = r.err
                                                       /\ WithGot(r, h).got = h
<1>1. PICK p, g, e, f :
        /\ r = Mk(c, p, g, e, f)
        /\ e = "none" => s = Mk(b, p, g, "none", f) /\ p \in Nat /\ p <= Len(c)
  BY DEF Follows
<1>2. WithGot(r, h) = Mk(c, p, h, e, f) /\ r.err = e
  BY <1>1 DEF WithGot, Mk
<1>3. WithGot(r, h).err = e /\ WithGot(r, h).got = h
  BY <1>2, MkFields
<1>4. CASE e = "none"
  <2>1. s = Mk(b, p, g, "none", f) /\ h2 = h
    BY <1>1, <1>2, <1>4
  <2>2. WithGot(Mk(b, p, g, "none", f), h) = Mk(b, p, h, "none", f)
    BY DEF WithGot, Mk
  <2>3. WithGot(s, h2) = Mk(b, p, h, "none", f)
    BY <2>1, <2>2
  <2>4. Follows(WithGot(r, h), WithGot(s, h2), c, b)
    BY <1>1, <1>2, <1>4, <2>3 DEF Follows
  <2> QED BY <1>2, <1>3, <2>4
<1>5. CASE e # "none"
  <2>1. Follows(WithGot(r, h), WithGot(s, h2), c, b)
    BY <1>2, <1>5 DEF Follows
  <2> QED BY <1>2, <1>3, <2>1
<1> QED BY <1>4, <1>5

\* A name for what was read last, on a cut.
LEMMA NotedFollows ==
  ASSUME NEW r, NEW s, NEW c, NEW b, Follows(r, s, c, b), NEW name
  PROVE  Follows(Noted(r, name), Noted(s, name), c, b)
<1>1. PICK p, g, e, f :
        /\ r = Mk(c, p, g, e, f)
        /\ e = "none" => s = Mk(b, p, g, "none", f) /\ p \in Nat /\ p <= Len(c)
  BY DEF Follows
<1> DEFINE h == [f EXCEPT ![name] = g]
<1>3. Noted(r, name) = Mk(c, p, g, e, h)
  BY <1>1 DEF Noted, Mk
<1>4. Noted(Mk(b, p, g, "none", f), name) = Mk(b, p, g, "none", h)
  BY DEF Noted, Mk
<1> HIDE DEF h
<1>5. e = "none" => Noted(s, name) = Mk(b, p, g, "none", h) /\ p \in Nat /\ p <= Len(c)
  BY <1>1, <1>4
<1> QED BY <1>3, <1>5 DEF Follows

\* An octet that was read is a number.
LEMMA FirstOctet ==
  ASSUME NEW x, Spans(x, 1)
  PROVE  x[1] \in Nat
<1>1. x \in Seq(Byte) /\ Len(x) = 1
  BY DEF Spans, IsBytes
<1>2. 1 \in 1 .. Len(x)
  BY <1>1
<1>3. x[1] \in Byte
  BY <1>1, <1>2, ElementOfSeq
<1> QED BY <1>3 DEF Byte

\* read_ber_length on a cut.
LEMMA LengthFollows ==
  ASSUME NEW r, NEW s, NEW c, NEW b, IsCut(c, b), Follows(r, s, c, b)
  PROVE  /\ Follows(ReadLength(r), ReadLength(s), c, b)
         /\ ReadLength(r).err = "none" => ReadLength(r).got \in Nat
<1> DEFINE first(q) == Take(q, 1)
           more(x) == IF x = <<\h81>> THEN 1 ELSE 2
           long(q) == Take(first(q), more(first(q).got))
           got(q) == IF long(q).err = "none" THEN Unsigned(long(q).got) ELSE long(q).got
           u == first(r)
           v == first(s)
           x == long(r)
           y == long(s)
<1>1. Follows(u, v, c, b) /\ (u.err = "none" => Spans(u.got, 1))
  <2>1. 1 \in Nat
    OBVIOUS
  <2> QED BY <2>1, TakeFollows
<1>2. \A q : ReadLength(q) =
        IF first(q).err # "none" THEN first(q)
        ELSE IF first(q).got[1] < \h80 THEN WithGot(first(q), first(q).got[1])
        ELSE IF first(q).got[1] \notin {\h81, \h82} THEN Failed(first(q), "length form")
        ELSE WithGot(long(q), got(q))
  BY DEF ReadLength, WithGot
<1>x. x = Take(u, more(u.got)) /\ y = Take(v, more(v.got))
  OBVIOUS
<1>g. /\ got(r) = IF x.err = "none" THEN Unsigned(x.got) ELSE x.got
      /\ got(s) = IF y.err = "none" THEN Unsigned(y.got) ELSE y.got
  OBVIOUS
<1>m. \A z : more(z) \in Nat
  OBVIOUS
<1> DEFINE gr == got(r)
           gs == got(s)
<1>3. /\ ReadLength(r) = IF u.err # "none" THEN u
                         ELSE IF u.got[1] < \h80 THEN WithGot(u, u.got[1])
                         ELSE IF u.got[1] \notin {\h81, \h82} THEN Failed(u, "length form")
                         ELSE WithGot(x, gr)
      /\ ReadLength(s) = IF v.err # "none" THEN v
                         ELSE IF v.got[1] < \h80 THEN WithGot(v, v.got[1])
                         ELSE IF v.got[1] \notin {\h81, \h82} THEN Failed(v, "length form")
                         ELSE WithGot(y, gs)
  BY <1>2
<1> HIDE DEF more, got, long, first
<1>4. CASE u.err # "none"
  <2>1. ReadLength(r) = u
    BY <1>3, <1>4
  <2>2. Follows(u, ReadLength(s), c, b)
    <3> HIDE DEF u
    <3> QED BY <1>1, <1>4, ErrorFollows
  <2> QED BY <1>4, <2>1, <2>2
<1>5. CASE u.err = "none"
  <2>1. v.got = u.got /\ v.err = "none"
    <3> HIDE DEF u, v
    <3> QED BY <1>1, <1>5, FollowsGot
  <2>a. u.got[1] \in Nat
    BY <1>1, <1>5, FirstOctet
  <2> HIDE DEF u, v, x, y, gr, gs
  <2>2. CASE u.got[1] < \h80
    <3>1. ReadLength(r) = WithGot(u, u.got[1]) /\ ReadLength(s) = WithGot(v, u.got[1])
      BY <1>3, <1>5, <2>1, <2>2
    <3>2. /\ Follows(WithGot(u, u.got[1]), WithGot(v, u.got[1]), c, b)
          /\ WithGot(u, u.got[1]).got = u.got[1]
      BY <1>1, WithGotFollows
    <3> QED BY <2>a, <3>1, <3>2
  <2>3. CASE ~(u.got[1] < \h80) /\ u.got[1] \notin {\h81, \h82}
    <3>1. ReadLength(r) = Failed(u, "length form")
      BY <1>3, <1>5, <2>3
    <3>2. Follows(Failed(u, "length form"), ReadLength(s), c, b)
      <4>1. "length form" # "none"
        OBVIOUS
      <4> QED BY <1>1, <1>5, <4>1, FailedFollows
    <3>3. Failed(u, "length form").err = "length form"
      BY <1>1, <1>5, FailedErr
    <3> QED BY <3>1, <3>2, <3>3
  <2>4. CASE ~(u.got[1] < \h80) /\ u.got[1] \in {\h81, \h82}
    <3>1. ReadLength(r) = WithGot(x, gr) /\ ReadLength(s) = WithGot(y, gs)
      BY <1>3, <1>5, <2>1, <2>4
    <3> DEFINE k == more(u.got)
    <3>2. k \in Nat /\ x = Take(u, k) /\ y = Take(v, k)
      BY <1>m, <1>x, <2>1
    <3> HIDE DEF k
    <3>3. Follows(x, y, c, b) /\ (x.err = "none" => Spans(x.got, k))
      BY <1>1, <3>2, TakeFollows
    <3>4. CASE x.err # "none"
      <4>1. Follows(WithGot(x, gr), WithGot(y, gs), c, b) /\ WithGot(x, gr).err = x.err
        BY <3>3, <3>4, WithGotFollows
      <4> QED BY <3>1, <3>4, <4>1
    <3>5. CASE x.err = "none"
      <4>1. y.got = x.got /\ y.err = "none"
        BY <3>3, <3>5, FollowsGot
      <4>2. gr = Unsigned(x.got) /\ gs = gr
        BY <1>g, <3>5, <4>1 DEF gr, gs
      <4>3. Unsigned(x.got) \in Nat
        <5>1. x.got \in Seq(Byte)
          BY <3>3, <3>5 DEF Spans, IsBytes
        <5> QED BY <5>1, UnsignedIsNat
      <4>4. Follows(WithGot(x, gr), WithGot(y, gs), c, b) /\ WithGot(x, gr).got = gr
        BY <3>3, <4>2, WithGotFollows
      <4> QED BY <3>1, <4>2, <4>3, <4>4
    <3> QED BY <3>4, <3>5
  <2> QED BY <2>2, <2>3, <2>4
<1> QED BY <1>4, <1>5

\* read_tlv on a cut.
LEMMA TlvFollows ==
  ASSUME NEW r, NEW s, NEW c, NEW b, IsCut(c, b), Follows(r, s, c, b), NEW tag
  PROVE  Follows(ReadTlv(r, tag), ReadTlv(s, tag), c, b)
<1> DEFINE u == ReadLength(Tag(r, tag))
           v == ReadLength(Tag(s, tag))
<1>1. Follows(u, v, c, b) /\ (u.err = "none" => u.got \in Nat)
  BY TagFollows, LengthFollows
<1>2. /\ ReadTlv(r, tag) = IF u.err # "none" THEN u ELSE Take(u, u.got)
      /\ ReadTlv(s, tag) = IF v.err # "none" THEN v ELSE Take(v, v.got)
  BY DEF ReadTlv
<1> HIDE DEF u, v
<1>3. CASE u.err # "none"
  <2>1. ReadTlv(r, tag) = u
    BY <1>2, <1>3
  <2>2. Follows(u, ReadTlv(s, tag), c, b)
    BY <1>1, <1>3, ErrorFollows
  <2> QED BY <2>1, <2>2
<1>4. CASE u.err = "none"
  <2>1. v.got = u.got /\ v.err = "none"
    BY <1>1, <1>4, FollowsGot
  <2>2. ReadTlv(r, tag) = Take(u, u.got) /\ ReadTlv(s, tag) = Take(v, u.got)
    BY <1>2, <1>4, <2>1
  <2>3. Follows(Take(u, u.got), Take(v, u.got), c, b)
    BY <1>1, <1>4, TakeFollows
  <2> QED BY <2>2, <2>3
<1> QED BY <1>3, <1>4

\* The check of a field's size, on a cut.
LEMMA OfSizesFollows ==
  ASSUME NEW r, NEW s, NEW c, NEW b, Follows(r, s, c, b), NEW sizes
  PROVE  Follows(OfSizes(r, sizes), OfSizes(s, sizes), c, b)
<1>1. CASE r.err # "none"
  <2>1. OfSizes(r, sizes) = r
    BY <1>1 DEF OfSizes
  <2>2. Follows(r, OfSizes(s, sizes), c, b)
    BY <1>1, ErrorFollows
  <2> QED BY <2>1, <2>2
<1>2. CASE r.err = "none" /\ sizes # {} /\ Len(r.got) \notin sizes
  <2>1. OfSizes(r, sizes) = Failed(r, "size")
    BY <1>2 DEF OfSizes
  <2>2. Follows(Failed(r, "size"), OfSizes(s, sizes), c, b)
    <3>1. "size" # "none"
      OBVIOUS
    <3> QED BY <1>2, <3>1, FailedFollows
  <2> QED BY <2>1, <2>2
<1>3. CASE r.err = "none" /\ ~(sizes # {} /\ Len(r.got) \notin sizes)
  <2>1. s.got = r.got /\ s.err = "none"
    BY <1>3, FollowsGot
  <2>2. OfSizes(r, sizes) = r /\ OfSizes(s, sizes) = s
    BY <1>3, <2>1 DEF OfSizes
  <2> QED BY <2>2
<1> QED BY <1>1, <1>2, <1>3

\* An item of plain octets on a cut.
LEMMA OctetsFollow ==
  ASSUME NEW r, NEW s, NEW c, NEW b, IsCut(c, b), Follows(r, s, c, b), NEW name, NEW n \in Nat
  PROVE  Follows(ReadItem(r, Octets(name, n)), ReadItem(s, Octets(name, n)), c, b)
<1>1. /\ ReadItem(r, Octets(name, n)) = Noted(Take(r, n), name)
      /\ ReadItem(s, Octets(name, n)) = Noted(Take(s, n), name)
  BY OctetsItem
<1>2. Follows(Take(r, n), Take(s, n), c, b)
  BY TakeFollows
<1>3. Follows(Noted(Take(r, n), name), Noted(Take(s, n), name), c, b)
  BY <1>2, NotedFollows
<1> QED BY <1>1, <1>3

\* The opening of a constructed field on a cut.
LEMMA OpeningFollows ==
  ASSUME NEW r, NEW s, NEW c, NEW b, IsCut(c, b), Follows(r, s, c, b), NEW tag
  PROVE  Follows(ReadItem(r, Opening(tag)), ReadItem(s, Opening(tag)), c, b)
<1> DEFINE u == ReadLength(Tag(r, tag))
           v == ReadLength(Tag(s, tag))
<1>1. ReadItem(r, Opening(tag)) = Noted(u, "inner") /\ ReadItem(s, Opening(tag)) = Noted(v, "inner")
  BY OpeningItem
<1>2. Follows(u, v, c, b)
  BY TagFollows, LengthFollows
<1> HIDE DEF u, v
<1>3. Follows(Noted(u, "inner"), Noted(v, "inner"), c, b)
  BY <1>2, NotedFollows
<1> QED BY <1>1, <1>3

\* A field on a cut.
LEMMA FieldFollows ==
  ASSUME NEW r, NEW s, NEW c, NEW b, IsCut(c, b), Follows(r, s, c, b),
         NEW name, NEW tag, NEW sizes
  PROVE  Follows(ReadItem(r, Field(name, tag, sizes)), ReadItem(s, Field(name, tag, sizes)), c, b)
<1> DEFINE u == OfSizes(ReadTlv(r, tag), sizes)
           v == OfSizes(ReadTlv(s, tag), sizes)
<1>1. /\ ReadItem(r, Field(name, tag, sizes)) = Noted(u, name)
      /\ ReadItem(s, Field(name, tag, sizes)) = Noted(v, name)
  BY FieldItem
<1>2. Follows(u, v, c, b)
  BY TlvFollows, OfSizesFollows
<1> HIDE DEF u, v
<1>3. Follows(Noted(u, name), Noted(v, name), c, b)
  BY <1>2, NotedFollows
<1> QED BY <1>1, <1>3

\* ... and after all the items of the layout it still is.
LEMMA ItemsFollow ==
  ASSUME NEW r, NEW s, NEW c, NEW b, IsCut(c, b), Follows(r, s, c, b)
  PROVE  Follows(ReadItems(r, 14), ReadItems(s, 14), c, b)
<1> DEFINE R(n) == ReadItems(r, n)
           S(n) == ReadItems(s, n)
<1>0. Follows(R(0), S(0), c, b)
  <2>1. R(0) = r /\ S(0) = s
    BY ItemsInTurn
  <2> QED BY <2>1
<1>1. Follows(R(1), S(1), c, b)
  <2>1. /\ R(1) = ReadItem(R(0), Octets("appid", 2))
        /\ S(1) = ReadItem(S(0), Octets("appid", 2))
    BY ItemsInTurn
  <2> HIDE DEF R, S
  <2>2. 2 \in Nat
    OBVIOUS
  <2>3. Follows(ReadItem(R(0), Octets("appid", 2)), ReadItem(S(0), Octets("appid", 2)), c, b)
    BY <1>0, <2>2, OctetsFollow
  <2> QED BY <2>1, <2>3
<1>2. Follows(R(2), S(2), c, b)
  <2>1. /\ R(2) = ReadItem(R(1), Octets("length", 2))
        /\ S(2) = ReadItem(S(1), Octets("length", 2))
    BY ItemsInTurn
  <2> HIDE DEF R, S
  <2>2. 2 \in Nat
    OBVIOUS
  <2>3. Follows(ReadItem(R(1), Octets("length", 2)), ReadItem(S(1), Octets("length", 2)), c, b)
    BY <1>1, <2>2, OctetsFollow
  <2> QED BY <2>1, <2>3
<1>3. Follows(R(3), S(3), c, b)
  <2>1. /\ R(3) = ReadItem(R(2), Octets("reserved1", 2))
        /\ S(3) = ReadItem(S(2), Octets("reserved1", 2))
    BY ItemsInTurn
  <2> HIDE DEF R, S
  <2>2. 2 \in Nat
    OBVIOUS
  <2>3. Follows(ReadItem(R(2), Octets("reserved1", 2)), ReadItem(S(2), Octets("reserved1", 2)), c, b)
    BY <1>2, <2>2, OctetsFollow
  <2> QED BY <2>1, <2>3
<1>4. Follows(R(4), S(4), c, b)
  <2>1. /\ R(4) = ReadItem(R(3), Octets("reserved2", 2))
        /\ S(4) = ReadItem(S(3), Octets("reserved2", 2))
    BY ItemsInTurn
  <2> HIDE DEF R, S
  <2>2. 2 \in Nat
    OBVIOUS
  <2>3. Follows(ReadItem(R(3), Octets("reserved2", 2)), ReadItem(S(3), Octets("reserved2", 2)), c, b)
    BY <1>3, <2>2, OctetsFollow
  <2> QED BY <2>1, <2>3
<1>5. Follows(R(5), S(5), c, b)
  <2>1. /\ R(5) = ReadItem(R(4), Opening(\h60))
        /\ S(5) = ReadItem(S(4), Opening(\h60))
    BY ItemsInTurn
  <2> HIDE DEF R, S
  <2>2. Follows(ReadItem(R(4), Opening(\h60)), ReadItem(S(4), Opening(\h60)), c, b)
    BY <1>4, OpeningFollows
  <2> QED BY <2>1, <2>2
<1>6. Follows(R(6), S(6), c, b)
  <2>1. /\ R(6) = ReadItem(R(5), Field("noAsdu", \h80, {}))
        /\ S(6) = ReadItem(S(5), Field("noAsdu", \h80, {}))
    BY ItemsInTurn
  <2> HIDE DEF R, S
  <2>2. Follows(ReadItem(R(5), Field("noAsdu", \h80, {})), ReadItem(S(5), Field("noAsdu", \h80, {})), c, b)
    BY <1>5, FieldFollows
  <2> QED BY <2>1, <2>2
<1>7. Follows(R(7), S(7), c, b)
  <2>1. /\ R(7) = ReadItem(R(6), Opening(\hA2))
        /\ S(7) = ReadItem(S(6), Opening(\hA2))
    BY ItemsInTurn
  <2> HIDE DEF R, S
  <2>2. Follows(ReadItem(R(6), Opening(\hA2)), ReadItem(S(6), Opening(\hA2)), c, b)
    BY <1>6, OpeningFollows
  <2> QED BY <2>1, <2>2
<1>8. Follows(R(8), S(8), c, b)
  <2>1. /\ R(8) = ReadItem(R(7), Opening(\h30))
        /\ S(8) = ReadItem(S(7), Opening(\h30))
    BY ItemsInTurn
  <2> HIDE DEF R, S
  <2>2. Follows(ReadItem(R(7), Opening(\h30)), ReadItem(S(7), Opening(\h30)), c, b)
    BY <1>7, OpeningFollows
  <2> QED BY <2>1, <2>2
<1>9. Follows(R(9), S(9), c, b)
  <2>1. /\ R(9) = ReadItem(R(8), Field("svId", \h80, {}))
        /\ S(9) = ReadItem(S(8), Field("svId", \h80, {}))
    BY ItemsInTurn
  <2> HIDE DEF R, S
  <2>2. Follows(ReadItem(R(8), Field("svId", \h80, {})), ReadItem(S(8), Field("svId", \h80, {})), c, b)
    BY <1>8, FieldFollows
  <2> QED BY <2>1, <2>2
<1>10. Follows(R(10), S(10), c, b)
  <2>1. /\ R(10) = ReadItem(R(9), Field("smpCnt", \h82, {2}))
        /\ S(10) = ReadItem(S(9), Field("smpCnt", \h82, {2}))
    BY ItemsInTurn
  <2> HIDE DEF R, S
  <2>2. Follows(ReadItem(R(9), Field("smpCnt", \h82, {2})), ReadItem(S(9), Field("smpCnt", \h82, {2})), c, b)
    BY <1>9, FieldFollows
  <2> QED BY <2>1, <2>2
<1>11. Follows(R(11), S(11), c, b)
  <2>1. /\ R(11) = ReadItem(R(10), Field("confRev", \h83, {4}))
        /\ S(11) = ReadItem(S(10), Field("confRev", \h83, {4}))
    BY ItemsInTurn
  <2> HIDE DEF R, S
  <2>2. Follows(ReadItem(R(10), Field("confRev", \h83, {4})), ReadItem(S(10), Field("confRev", \h83, {4})), c, b)
    BY <1>10, FieldFollows
  <2> QED BY <2>1, <2>2
<1>12. Follows(R(12), S(12), c, b)
  <2>1. /\ R(12) = ReadItem(R(11), Field("smpSynch", \h85, {1}))
        /\ S(12) = ReadItem(S(11), Field("smpSynch", \h85, {1}))
    BY ItemsInTurn
  <2> HIDE DEF R, S
  <2>2. Follows(ReadItem(R(11), Field("smpSynch", \h85, {1})), ReadItem(S(11), Field("smpSynch", \h85, {1})), c, b)
    BY <1>11, FieldFollows
  <2> QED BY <2>1, <2>2
<1>13. Follows(R(13), S(13), c, b)
  <2>1. /\ R(13) = ReadItem(R(12), Field("smpRate", \h86, {}))
        /\ S(13) = ReadItem(S(12), Field("smpRate", \h86, {}))
    BY ItemsInTurn
  <2> HIDE DEF R, S
  <2>2. Follows(ReadItem(R(12), Field("smpRate", \h86, {})), ReadItem(S(12), Field("smpRate", \h86, {})), c, b)
    BY <1>12, FieldFollows
  <2> QED BY <2>1, <2>2
<1>14. Follows(R(14), S(14), c, b)
  <2>1. /\ R(14) = ReadItem(R(13), Field("samples", \h87, {64}))
        /\ S(14) = ReadItem(S(13), Field("samples", \h87, {64}))
    BY ItemsInTurn
  <2> HIDE DEF R, S
  <2>2. Follows(ReadItem(R(13), Field("samples", \h87, {64})), ReadItem(S(13), Field("samples", \h87, {64})), c, b)
    BY <1>13, FieldFollows
  <2> QED BY <2>1, <2>2
<1> QED BY <1>14

\* At the start both readers are at the first octet.
LEMMA ReaderFollows ==
  ASSUME NEW c, NEW b, IsCut(c, b)
  PROVE  Follows(Reader(c), Reader(b), c, b)
<1>1. \A x : Reader(x) = Mk(x, 0, <<>>, "none", NoFields)
  BY DEF Reader, Mk, NoFields
<1> DEFINE nil == <<>>
<1>2. 0 \in Nat /\ 0 <= Len(c)
  <2>1. Len(c) \in Nat
    BY DEF IsCut
  <2> QED BY <2>1
<1>3. Reader(c) = Mk(c, 0, nil, "none", NoFields) /\ Reader(b) = Mk(b, 0, nil, "none", NoFields)
  BY <1>1
<1> HIDE DEF nil
<1> QED BY <1>2, <1>3 DEF Follows

\* The header: the ethertype decides which octets follow, the same for both.
LEMMA TypeFollows ==
  ASSUME NEW c, NEW b, IsCut(c, b)
  PROVE  Follows(TypeRead(c), TypeRead(b), c, b)
<1> DEFINE first(x) == Take(Take(Take(Reader(x), 6), 6), 2)
           tagged(x) == Take(Take(first(x), 2), 2)
           u == first(c)
           v == first(b)
<1>n. 2 \in Nat /\ 6 \in Nat
  OBVIOUS
<1>1. Follows(Take(Reader(c), 6), Take(Reader(b), 6), c, b)
  BY <1>n, ReaderFollows, TakeFollows
<1>2. Follows(Take(Take(Reader(c), 6), 6), Take(Take(Reader(b), 6), 6), c, b)
  BY <1>n, <1>1, TakeFollows
<1>3. Follows(u, v, c, b)
  BY <1>n, <1>2, TakeFollows
<1>4. /\ TypeRead(c) = IF u.got = BigEndian(Tpid, 2) THEN Take(Take(u, 2), 2) ELSE u
      /\ TypeRead(b) = IF v.got = BigEndian(Tpid, 2) THEN Take(Take(v, 2), 2) ELSE v
  BY DEF TypeRead
<1> HIDE DEF u, v, first
<1> DEFINE tpid == BigEndian(Tpid, 2)
<1>t. tpid = BigEndian(Tpid, 2)
  OBVIOUS
<1> HIDE DEF tpid
<1>5. Follows(Take(u, 2), Take(v, 2), c, b)
  BY <1>n, <1>3, TakeFollows
<1>6. Follows(Take(Take(u, 2), 2), Take(Take(v, 2), 2), c, b)
  BY <1>n, <1>5, TakeFollows
<1>7. CASE u.err = "none"
  <2>1. v.got = u.got
    BY <1>3, <1>7, FollowsGot
  <2>2. CASE u.got = tpid
    <3>1. TypeRead(c) = Take(Take(u, 2), 2) /\ TypeRead(b) = Take(Take(v, 2), 2)
      BY <1>4, <1>t, <2>1, <2>2
    <3> QED BY <1>6, <3>1
  <2>3. CASE u.got # tpid
    <3>1. TypeRead(c) = u /\ TypeRead(b) = v
      BY <1>4, <1>t, <2>1, <2>3
    <3> QED BY <1>3, <3>1
  <2> QED BY <2>2, <2>3
<1>8. CASE u.err # "none"
  <2>1. Take(u, 2) = u
    BY <1>8, TakeErr
  <2>2. Take(Take(u, 2), 2) = u
    BY <2>1
  <2>3. TypeRead(c) = u
    BY <1>4, <2>2
  <2>4. Follows(u, TypeRead(b), c, b)
    BY <1>3, <1>8, ErrorFollows
  <2> QED BY <2>3, <2>4
<1> QED BY <1>7, <1>8

\* The first n octets of a buffer are a cut of it.
LEMMA PrefixIsCut ==
  ASSUME NEW b, IsBytes(b), NEW n \in Nat, n <= Len(b)
  PROVE  IsCut(SubSeq(b, 1, n), b) /\ Len(SubSeq(b, 1, n)) = n
<1> DEFINE c == SubSeq(b, 1, n)
<1>1. b \in Seq(Byte) /\ Len(b) \in Nat
  BY DEF IsBytes
<1>2. /\ SubSeq(b, 0 + 1, n) \in Seq(Byte) /\ Len(SubSeq(b, 0 + 1, n)) = n - 0
      /\ \A i \in 1 .. (n - 0) : SubSeq(b, 0 + 1, n)[i] = b[0 + i]
  BY <1>1, Slice
<1>3. c \in Seq(Byte) /\ Len(c) = n /\ \A i \in 1 .. n : c[i] = b[i]
  BY <1>2
<1> HIDE DEF c
<1>4. IsCut(c, b)
  <2>1. \A i \in 1 .. Len(c) : c[i] = b[i]
    BY <1>3
  <2> QED BY <1>1, <1>3, <2>1 DEF IsCut
<1> QED BY <1>3, <1>4 DEF c

\* A reader that ends without an error has read no further than it could.
LEMMA EndsWithin ==
  ASSUME NEW r, NEW s, NEW c, NEW b, IsCut(c, b), Follows(r, s, c, b), s.pos = Len(b),
         ~(Len(b) <= Len(c))
  PROVE  r.err # "none"
<1> SUFFICES ASSUME r.err = "none"
             PROVE  FALSE
  OBVIOUS
<1>1. s.pos = r.pos /\ r.pos <= Len(c)
  BY FollowsParts
<1> QED BY <1>1

\* No sample is made of a frame that was cut.
LEMMA CutFrame ==
  ASSUME NEW c, NEW b, IsCut(c, b), ~(Len(b) <= Len(c)), ReadItems(TypeRead(b), 14).pos = Len(b)
  PROVE  DecodeFrame(c) = {}
<1> DEFINE q == TypeRead(c)
           s == ReadItems(q, 14)
<1>1. Follows(s, ReadItems(TypeRead(b), 14), c, b)
  BY TypeFollows, ItemsFollow
<1>2. s.err # "none"
  <2> HIDE DEF s
  <2> QED BY <1>1, EndsWithin
<1>3. DecodeSavPdu(q) = {}
  BY <1>2, DecodeIs
<1>4. DecodeFrame(c) = IF q.err # "none" \/ q.got # BigEndian(Ethertype, 2) THEN {}
                       ELSE DecodeSavPdu(q)
  BY DecodeFrameIs
<1> HIDE DEF q
<1> QED BY <1>3, <1>4

\* If the whole is read to its last octet, a cut of it is refused.
LEMMA CutPayload ==
  ASSUME NEW c, NEW b, IsCut(c, b), ~(Len(b) <= Len(c)), ReadItems(Reader(b), 14).pos = Len(b)
  PROVE  DecodeL2Stripped(c) = {}
<1> DEFINE q == Reader(c)
           s == ReadItems(q, 14)
<1>1. Follows(s, ReadItems(Reader(b), 14), c, b)
  BY ReaderFollows, ItemsFollow
<1>2. s.err # "none"
  <2> HIDE DEF s
  <2> QED BY <1>1, EndsWithin
<1>3. DecodeSavPdu(q) = {}
  BY <1>2, DecodeIs
<1> QED BY <1>3 DEF DecodeL2Stripped

-------------------------------------------------------------------------------
(* The command line. *)

\* The member of a set that has one.
LEMMA OnlyIn ==
  ASSUME NEW s, s # {}
  PROVE  Only(s) \in s
BY DEF Only

\* A set with at most one member is that member's.
LEMMA OnlyOne ==
  ASSUME NEW s, NEW x \in s, AtMostOne(s)
  PROVE  s = {x} /\ Only(s) = x
BY DEF Only, AtMostOne

\* The options are what they are parsed as, and a panic has its cause.
NoDuration(args) ==
  \E i \in DOMAIN args : args[i][1] = "--duration" /\ \E ms \in args[i][2] : ~FitsDuration(ms)
Given(args) == {1, 4800, 60} \cup UNION {args[i][2] : i \in DOMAIN args}
OptsSpace(args) ==
  [frames : Given(args), rate : Nat, frequency : Given(args), duration : SUBSET Given(args),
   vendor : SUBSET Given(args), icd : BOOLEAN, calibration : BOOLEAN,
   end : {"no", "aborted", "done", "failed"}]
VendorOk(vendor) == vendor = {} \/ Only(vendor) \in DOMAIN Presets
NoWord(args) == \E i \in DOMAIN args : Panics(args[i])
ArgsPanic(args) == NoDuration(args) \/ NoWord(args)
OptsOk(o, args) == VendorOk(o.vendor) /\ (o.end = "aborted" => ArgsPanic(args))
OptsSet(args) == {o \in OptsSpace(args) : OptsOk(o, args)}

\* Every vendor preset has 4800 frames per second.
LEMMA PresetRates ==
  \A v \in DOMAIN Presets : Presets[v].rate = 4800
BY DEF Presets, Profile

\* The options before any argument (StreamOpts::default).
LEMMA DefaultOptsOk ==
  ASSUME NEW args
  PROVE  DefaultOpts \in OptsSet(args)
<1>1. 4800 \in Nat /\ 4800 \in Given(args) /\ 60 \in Given(args) /\ 1 \in Given(args)
  BY DEF Given
<1> QED BY <1>1 DEF DefaultOpts, OptsSet, OptsSpace, OptsOk, VendorOk

\* What one turn of the loop over the arguments makes of the options.
Turned(opts, arg) ==
  IF opts.end # "no" THEN opts
  ELSE IF Panics(arg) THEN [opts EXCEPT !.end = "aborted"]
  ELSE IF Refuses(arg) THEN [opts EXCEPT !.end = "failed"]
  ELSE Option(opts, arg)

\* An option takes its value from its argument, and ends the process abnormally only for
\* a duration that no Duration holds.
LEMMA OptionOk ==
  ASSUME NEW args, NEW i \in DOMAIN args, ArgumentOk(args[i]), ~Panics(args[i]),
         ~Refuses(args[i]), NEW o \in OptsSet(args)
  PROVE  Option(o, args[i]) \in OptsSet(args)
<1> DEFINE arg == args[i]
           v == Only(arg[2])
<1>1. v \in arg[2]
  BY OnlyIn DEF Refuses
<1>2. AtMostOne(arg[2]) /\ (arg[1] = "--rate" => arg[2] \subseteq Nat)
  <2>1. NotUnicode \notin arg[2]
    BY DEF Panics, Refuses
  <2>2. AtMostOne(arg[2]) /\ (arg[1] = "--rate" => arg[2] \ {NotUnicode} \subseteq Nat)
    BY DEF Refuses, ArgumentOk
  <2> QED BY <2>1, <2>2
<1>3. v \in Given(args) /\ arg[2] \subseteq Given(args)
  BY <1>1 DEF Given
<1>4. o \in OptsSpace(args) /\ OptsOk(o, args)
  BY DEF OptsSet
<1>5. /\ o.frames \in Given(args) /\ o.rate \in Nat /\ o.frequency \in Given(args)
      /\ o.duration \in SUBSET Given(args) /\ o.vendor \in SUBSET Given(args)
      /\ o.icd \in BOOLEAN /\ o.calibration \in BOOLEAN
      /\ o.end \in {"no", "aborted", "done", "failed"}
      /\ DOMAIN o = {"frames", "rate", "frequency", "duration", "vendor", "icd", "calibration", "end"}
  BY <1>4 DEF OptsSpace
<1>6. VendorOk(o.vendor) /\ (o.end = "aborted" => ArgsPanic(args))
  BY <1>4 DEF OptsOk
<1> DEFINE kind == arg[1]
           r == Option(o, arg)
<1>7. CASE kind = "--frames"
  <2>1. r = [o EXCEPT !.frames = v]
    BY <1>7 DEF Option
  <2> HIDE DEF v
  <2>2. r \in OptsSpace(args) /\ r.vendor = o.vendor /\ r.end = o.end
    BY <1>3, <1>4, <2>1 DEF OptsSpace
  <2> QED BY <1>6, <2>2 DEF OptsSet, OptsOk
<1>8. CASE kind = "--rate"
  <2>1. r = [o EXCEPT !.rate = v]
    BY <1>8 DEF Option
  <2>2. v \in Nat
    BY <1>1, <1>2, <1>8
  <2> HIDE DEF v
  <2>3. r \in OptsSpace(args) /\ r.vendor = o.vendor /\ r.end = o.end
    BY <1>4, <2>1, <2>2 DEF OptsSpace
  <2> QED BY <1>6, <2>3 DEF OptsSet, OptsOk
<1>9. CASE kind = "--frequency"
  <2>1. r = [o EXCEPT !.frequency = v]
    BY <1>9 DEF Option
  <2> HIDE DEF v
  <2>2. r \in OptsSpace(args) /\ r.vendor = o.vendor /\ r.end = o.end
    BY <1>3, <1>4, <2>1 DEF OptsSpace
  <2> QED BY <1>6, <2>2 DEF OptsSet, OptsOk
<1>10. CASE kind = "--duration"
  <2>1. CASE ~FitsDuration(v)
    <3>1. r = [o EXCEPT !.end = "aborted"]
      BY <1>10, <2>1 DEF Option
    <3>2. NoDuration(args)
      BY <1>1, <1>10, <2>1 DEF NoDuration
    <3>3. r \in OptsSpace(args) /\ r.vendor = o.vendor
      BY <1>4, <3>1 DEF OptsSpace
    <3> QED BY <1>6, <3>2, <3>3 DEF OptsSet, OptsOk, ArgsPanic
  <2>2. CASE FitsDuration(v)
    <3>1. r = [o EXCEPT !.duration = arg[2]]
      BY <1>10, <2>2 DEF Option
    <3>2. r \in OptsSpace(args) /\ r.vendor = o.vendor /\ r.end = o.end
      BY <1>3, <1>4, <3>1 DEF OptsSpace
    <3> QED BY <1>6, <3>2 DEF OptsSet, OptsOk
  <2> QED BY <2>1, <2>2
<1>11. CASE kind = "--vendor"
  <2>1. CASE arg[2] = {"list"}
    <3>1. r = [o EXCEPT !.end = "done"]
      BY <1>11, <2>1 DEF Option
    <3>2. r \in OptsSpace(args) /\ r.vendor = o.vendor /\ r.end = "done"
      BY <1>4, <3>1 DEF OptsSpace
    <3> QED BY <1>6, <3>2 DEF OptsSet, OptsOk
  <2>2. CASE arg[2] # {"list"}
    <3>1. v \in DOMAIN Presets
      <4>1. PICK w \in arg[2] : w = "list" \/ w \in DOMAIN Presets
        BY <1>11 DEF Refuses
      <4>2. arg[2] = {w} /\ v = w
        BY <1>2, <4>1, OnlyOne
      <4> QED BY <2>2, <4>1, <4>2
    <3>2. r = [o EXCEPT !.vendor = arg[2], !.rate = Presets[v].rate]
      BY <1>11, <2>2 DEF Option
    <3>3. Presets[v].rate \in Nat
      BY <3>1, PresetRates
    <3>4. VendorOk(arg[2])
      BY <3>1 DEF VendorOk
    <3> DEFINE rate == Presets[v].rate
    <3> HIDE DEF v, rate
    <3>5. r \in OptsSpace(args) /\ r.vendor = arg[2] /\ r.end = o.end
      BY <1>3, <1>4, <3>2, <3>3 DEF OptsSpace, rate
    <3> QED BY <1>6, <3>4, <3>5 DEF OptsSet, OptsOk
  <2> QED BY <2>1, <2>2
<1>12. CASE kind = "--vendor-icd"
  <2>1. r = [o EXCEPT !.icd = TRUE]
    BY <1>12 DEF Option
  <2>2. r \in OptsSpace(args) /\ r.vendor = o.vendor /\ r.end = o.end
    BY <1>4, <2>1 DEF OptsSpace
  <2> QED BY <1>6, <2>2 DEF OptsSet, OptsOk
<1>13. CASE kind = "--calibration-csv"
  <2>1. r = [o EXCEPT !.calibration = TRUE]
    BY <1>13 DEF Option
  <2>2. r \in OptsSpace(args) /\ r.vendor = o.vendor /\ r.end = o.end
    BY <1>4, <2>1 DEF OptsSpace
  <2> QED BY <1>6, <2>2 DEF OptsSet, OptsOk
<1>14. CASE kind \notin {"--frames", "--rate", "--frequency", "--duration", "--vendor", "--vendor-icd",
                        "--calibration-csv"}
  <2>1. r = o
    BY <1>14 DEF Option
  <2> QED BY <2>1
<1> QED BY <1>7, <1>8, <1>9, <1>10, <1>11, <1>12, <1>13, <1>14

\* One argument after the other.
LEMMA TurnOk ==
  ASSUME NEW args, NEW i \in DOMAIN args, ArgumentOk(args[i]), NEW o \in OptsSet(args)
  PROVE  Turned(o, args[i]) \in OptsSet(args)
<1>1. CASE o.end # "no"
  BY <1>1 DEF Turned
<1>4. CASE o.end = "no" /\ Panics(args[i])
  <2>1. Turned(o, args[i]) = [o EXCEPT !.end = "aborted"]
    BY <1>4 DEF Turned
  <2> DEFINE r == Turned(o, args[i])
  <2>2. r \in OptsSpace(args) /\ r.vendor = o.vendor
    BY <2>1 DEF OptsSet, OptsSpace
  <2>3. ArgsPanic(args)
    BY <1>4 DEF ArgsPanic, NoWord
  <2> QED BY <2>2, <2>3 DEF OptsSet, OptsOk
<1>2. CASE o.end = "no" /\ ~Panics(args[i]) /\ Refuses(args[i])
  <2>1. Turned(o, args[i]) = [o EXCEPT !.end = "failed"]
    BY <1>2 DEF Turned
  <2> DEFINE r == Turned(o, args[i])
  <2>2. r \in OptsSpace(args) /\ r.vendor = o.vendor /\ r.end = "failed"
    BY <2>1 DEF OptsSet, OptsSpace
  <2> QED BY <2>2 DEF OptsSet, OptsOk
<1>3. CASE o.end = "no" /\ ~Panics(args[i]) /\ ~Refuses(args[i])
  <2>1. Turned(o, args[i]) = Option(o, args[i])
    BY <1>3 DEF Turned
  <2> QED BY <1>3, <2>1, OptionOk
<1> QED BY <1>1, <1>2, <1>3, <1>4

\* Arguments as InvocationsAssumption has them.
ArgsOk(args) == args \in Seq(Range(args)) /\ \A arg \in Range(args) : ArgumentOk(arg)

\* All the arguments in turn.
LEMMA FoldedOptsOk ==
  ASSUME NEW args, ArgsOk(args)
  PROVE  FoldLeft(LAMBDA opts, arg : IF opts.end # "no" THEN opts
                                     ELSE IF Panics(arg) THEN [opts EXCEPT !.end = "aborted"]
                                     ELSE IF Refuses(arg) THEN [opts EXCEPT !.end = "failed"]
                                     ELSE Option(opts, arg), DefaultOpts, args) \in OptsSet(args)
<1> DEFINE n == Len(args)
           R == Range(args)
           D == OptsSet(args)
           folded == FoldLeft(LAMBDA opts, arg : IF opts.end # "no" THEN opts
                                     ELSE IF Panics(arg) THEN [opts EXCEPT !.end = "aborted"]
                                     ELSE IF Refuses(arg) THEN [opts EXCEPT !.end = "failed"]
                                     ELSE Option(opts, arg), DefaultOpts, args)
           Sum(g) == g = [t \in SUBSET (1 .. n) |->
                            IF t = {} THEN DefaultOpts ELSE Turned(g[t \ {Max(t)}], args[Max(t)])]
           it == CHOOSE g : Sum(g)
<1>n. n \in Nat /\ args \in [1 .. n -> R] /\ DOMAIN args = 1 .. n
  <2>1. args \in Seq(R)
    BY DEF ArgsOk
  <2> HIDE DEF R
  <2> QED BY <2>1
<1>1. folded = it[1 .. n]
  BY <1>n DEF FoldLeft, MapThenFoldSet, Turned
<1> HIDE DEF n
<1>d. DefaultOpts \in D
  BY DefaultOptsOk
<1>r. \A z \in D \X R : Turned(z[1], z[2]) \in D
  <2> TAKE z \in D \X R
  <2>1. z[1] \in D /\ z[2] \in R
    OBVIOUS
  <2>2. PICK i \in DOMAIN args : z[2] = args[i]
    BY <2>1 DEF Range
  <2>3. ArgumentOk(args[i])
    BY <2>1, <2>2 DEF ArgsOk
  <2>4. Turned(z[1], args[i]) \in D
    BY <2>1, <2>3, TurnOk
  <2> QED BY <2>2, <2>4
<1> HIDE DEF R, D
<1>2. \E g : Sum(g) /\ g \in [SUBSET (1 .. n) -> D]
  <2> DEFINE h == [z \in D \X R |-> Turned(z[1], z[2])]
  <2>1. h \in [D \X R -> D]
    BY <1>r
  <2>2. PICK g \in [SUBSET (1 .. n) -> D] : Folds(g, h, DefaultOpts, args, n)
    <3> HIDE DEF h
    <3> QED BY <1>n, <1>d, <2>1, FoldExists
  <2>3. ASSUME NEW t \in SUBSET (1 .. n)
        PROVE  g[t] = IF t = {} THEN DefaultOpts ELSE Turned(g[t \ {Max(t)}], args[Max(t)])
    <3>1. CASE t = {}
      BY <2>2, <3>1 DEF Folds
    <3>2. CASE t # {}
      <4>1. Max(t) \in 1 .. n /\ t \ {Max(t)} \in SUBSET (1 .. n)
        BY <1>n, <3>2, MaxOfBounded
      <4>2. <<g[t \ {Max(t)}], args[Max(t)]>> \in D \X R
        BY <1>n, <4>1
      <4>3. g[t] = h[<<g[t \ {Max(t)}], args[Max(t)]>>]
        <5> HIDE DEF h
        <5> QED BY <2>2, <3>2 DEF Folds
      <4>4. \A z \in D \X R : h[z] = Turned(z[1], z[2])
        OBVIOUS
      <4> HIDE DEF h
      <4>5. g[t] = Turned(g[t \ {Max(t)}], args[Max(t)])
        BY <4>2, <4>3, <4>4
      <4> QED BY <3>2, <4>5
    <3> QED BY <3>1, <3>2
  <2>4. Sum(g)
    BY <2>3
  <2> QED BY <2>4
<1>3. Sum(it)
  BY <1>2
<1>4. \A t \in SUBSET (1 .. n) :
        it[t] = IF t = {} THEN DefaultOpts ELSE Turned(it[t \ {Max(t)}], args[Max(t)])
  BY <1>3
<1> HIDE DEF it
<1> DEFINE Bad == {i \in 0 .. n : it[1 .. i] \notin D}
<1>5. Bad = {}
  <2> SUFFICES ASSUME Bad # {}
               PROVE  FALSE
    OBVIOUS
  <2>1. PICK m \in Bad : \A i \in Bad : m <= i
    <3>1. Bad \in SUBSET Nat
      BY <1>n
    <3> HIDE DEF Bad
    <3> QED BY <3>1, LeastExists
  <2>2. m \in 0 .. n /\ it[1 .. m] \notin D
    OBVIOUS
  <2>3. m # 0
    <3>1. 1 .. 0 = {} /\ {} \in SUBSET (1 .. n)
      OBVIOUS
    <3>2. it[{}] = DefaultOpts
      BY <1>4, <3>1
    <3> QED BY <1>d, <2>2, <3>1, <3>2
  <2>4. m \in 1 .. n /\ m - 1 \in 0 .. n /\ ~(m <= m - 1)
    BY <1>n, <2>2, <2>3
  <2>5. it[1 .. (m - 1)] \in D
    BY <2>1, <2>4
  <2>6. /\ 1 .. m \in SUBSET (1 .. n) /\ 1 .. m # {}
        /\ Max(1 .. m) = m /\ (1 .. m) \ {m} = 1 .. (m - 1)
    BY <1>n, <2>4, MaxOfUpTo
  <2>7. it[1 .. m] = Turned(it[(1 .. m) \ {Max(1 .. m)}], args[Max(1 .. m)])
    BY <1>4, <2>6
  <2>8. it[1 .. m] = Turned(it[1 .. (m - 1)], args[m])
    BY <2>6, <2>7
  <2> DEFINE o == it[1 .. (m - 1)]
             a == args[m]
  <2>9. <<o, a>> \in D \X R /\ <<o, a>>[1] = o /\ <<o, a>>[2] = a
    BY <1>n, <2>4, <2>5
  <2> HIDE DEF o, a
  <2>10. Turned(o, a) \in D
    BY <1>r, <2>9
  <2> QED BY <2>2, <2>8, <2>10 DEF o, a
<1>6. n \in 0 .. n
  BY <1>n
<1> HIDE DEF folded
<1>7. folded \in D
  BY <1>1, <1>5, <1>6
<1> QED BY <1>7 DEF D, folded

\* parse_stream_opts: options of their widths, and a rate of 0 is refused.
LEMMA ParsedOptsOk ==
  ASSUME NEW args, ArgsOk(args)
  PROVE  /\ ParseStreamOpts(args) \in OptsSet(args)
         /\ ParseStreamOpts(args).end = "no" => ParseStreamOpts(args).rate # 0
<1> DEFINE folded == FoldLeft(LAMBDA opts, arg : IF opts.end # "no" THEN opts
                                     ELSE IF Panics(arg) THEN [opts EXCEPT !.end = "aborted"]
                                     ELSE IF Refuses(arg) THEN [opts EXCEPT !.end = "failed"]
                                     ELSE Option(opts, arg), DefaultOpts, args)
           r == Checked(folded)
<1>1. folded \in OptsSet(args)
  BY FoldedOptsOk
<1>2. ParseStreamOpts(args) = r
  BY DEF ParseStreamOpts
<1> HIDE DEF folded
<1>3. CASE folded.end = "no" /\ (folded.rate = 0 \/ folded.frequency <= 0)
  <2>1. r = [folded EXCEPT !.end = "failed"]
    BY <1>3 DEF Checked
  <2>2. r \in OptsSpace(args) /\ r.vendor = folded.vendor /\ r.end = "failed"
    BY <1>1, <2>1 DEF OptsSet, OptsSpace
  <2> HIDE DEF r
  <2>3. r \in OptsSet(args)
    BY <1>1, <2>2 DEF OptsSet, OptsOk
  <2> QED BY <1>2, <2>2, <2>3
<1>4. CASE ~(folded.end = "no" /\ (folded.rate = 0 \/ folded.frequency <= 0))
  <2>1. r = folded
    BY <1>4 DEF Checked
  <2>2. r.end = "no" => r.rate # 0
    BY <1>4, <2>1
  <2> QED BY <1>1, <1>2, <2>1, <2>2
<1> QED BY <1>3, <1>4

-------------------------------------------------------------------------------
(* Identities: the vendor presets and what a file overrides. *)

\* A name of n letters is n octets.
LEMMA TextBytes ==
  ASSUME NEW n \in Nat
  PROVE  Text(n) \in Seq(Byte) /\ Len(Text(n)) = n
<1>1. 65 \in Byte
  BY ByteFacts
<1>2. Text(n) \in [1 .. n -> Byte]
  BY <1>1 DEF Text
<1> QED BY <1>2

\* A name of a template is spelled out; every other octet stays.
Spelled(id, o) == id \o (IF o = NameHere THEN Text(9) ELSE <<o>>)

\* svid_for makes octets of a template, whatever names are in it.
LEMMA SvIdForOk ==
  ASSUME NEW template \in Seq(Byte \cup {NameHere})
  PROVE  SvIdFor(template) \in Seq(Byte)
<1> DEFINE n == Len(template)
           R == Byte \cup {NameHere}
           D == Seq(Byte)
           folded == SvIdFor(template)
           Sum(g) == g = [t \in SUBSET (1 .. n) |->
                            IF t = {} THEN <<>> ELSE Spelled(g[t \ {Max(t)}], template[Max(t)])]
           it == CHOOSE g : Sum(g)
<1>n. n \in Nat /\ template \in [1 .. n -> R] /\ DOMAIN template = 1 .. n
  OBVIOUS
<1>1. folded = it[1 .. n]
  BY <1>n DEF SvIdFor, FoldLeft, MapThenFoldSet, Spelled
<1> HIDE DEF n
<1>d. <<>> \in D
  OBVIOUS
<1>r. \A z \in D \X R : Spelled(z[1], z[2]) \in D
  <2> TAKE z \in D \X R
  <2> DEFINE word == IF z[2] = NameHere THEN Text(9) ELSE <<z[2]>>
  <2>1. z[1] \in Seq(Byte) /\ z[2] \in R
    OBVIOUS
  <2>2. word \in Seq(Byte)
    <3>1. CASE z[2] = NameHere
      BY <3>1, TextBytes
    <3>2. CASE z[2] # NameHere
      <4>1. z[2] \in Byte
        BY <2>1, <3>2
      <4> QED BY <3>2, <4>1
    <3> QED BY <3>1, <3>2
  <2>3. Spelled(z[1], z[2]) = z[1] \o word
    BY DEF Spelled
  <2> HIDE DEF word
  <2> QED BY <2>1, <2>2, <2>3, ConcatProperties
<1> HIDE DEF R, D
<1>2. \E g : Sum(g) /\ g \in [SUBSET (1 .. n) -> D]
  <2> DEFINE h == [z \in D \X R |-> Spelled(z[1], z[2])]
  <2>1. h \in [D \X R -> D]
    BY <1>r
  <2>2. PICK g \in [SUBSET (1 .. n) -> D] : Folds(g, h, <<>>, template, n)
    <3> HIDE DEF h
    <3> QED BY <1>n, <1>d, <2>1, FoldExists
  <2>3. ASSUME NEW t \in SUBSET (1 .. n)
        PROVE  g[t] = IF t = {} THEN <<>> ELSE Spelled(g[t \ {Max(t)}], template[Max(t)])
    <3>1. CASE t = {}
      BY <2>2, <3>1 DEF Folds
    <3>2. CASE t # {}
      <4>1. Max(t) \in 1 .. n /\ t \ {Max(t)} \in SUBSET (1 .. n)
        BY <1>n, <3>2, MaxOfBounded
      <4>2. <<g[t \ {Max(t)}], template[Max(t)]>> \in D \X R
        BY <1>n, <4>1
      <4>3. g[t] = h[<<g[t \ {Max(t)}], template[Max(t)]>>]
        <5> HIDE DEF h
        <5> QED BY <2>2, <3>2 DEF Folds
      <4>4. \A z \in D \X R : h[z] = Spelled(z[1], z[2])
        OBVIOUS
      <4> HIDE DEF h
      <4>5. g[t] = Spelled(g[t \ {Max(t)}], template[Max(t)])
        BY <4>2, <4>3, <4>4
      <4> QED BY <3>2, <4>5
    <3> QED BY <3>1, <3>2
  <2>4. Sum(g)
    BY <2>3
  <2> QED BY <2>4
<1>3. Sum(it)
  BY <1>2
<1>4. \A t \in SUBSET (1 .. n) :
        it[t] = IF t = {} THEN <<>> ELSE Spelled(it[t \ {Max(t)}], template[Max(t)])
  BY <1>3
<1> HIDE DEF it
<1> DEFINE Bad == {i \in 0 .. n : it[1 .. i] \notin D}
<1>5. Bad = {}
  <2> SUFFICES ASSUME Bad # {}
               PROVE  FALSE
    OBVIOUS
  <2>1. PICK m \in Bad : \A i \in Bad : m <= i
    <3>1. Bad \in SUBSET Nat
      BY <1>n
    <3> HIDE DEF Bad
    <3> QED BY <3>1, LeastExists
  <2>2. m \in 0 .. n /\ it[1 .. m] \notin D
    OBVIOUS
  <2>3. m # 0
    <3>1. 1 .. 0 = {} /\ {} \in SUBSET (1 .. n)
      OBVIOUS
    <3>2. it[{}] = <<>>
      BY <1>4, <3>1
    <3> QED BY <1>d, <2>2, <3>1, <3>2
  <2>4. m \in 1 .. n /\ m - 1 \in 0 .. n /\ ~(m <= m - 1)
    BY <1>n, <2>2, <2>3
  <2>5. it[1 .. (m - 1)] \in D
    BY <2>1, <2>4
  <2>6. /\ 1 .. m \in SUBSET (1 .. n) /\ 1 .. m # {}
        /\ Max(1 .. m) = m /\ (1 .. m) \ {m} = 1 .. (m - 1)
    BY <1>n, <2>4, MaxOfUpTo
  <2>7. it[1 .. m] = Spelled(it[(1 .. m) \ {Max(1 .. m)}], template[Max(1 .. m)])
    BY <1>4, <2>6
  <2>8. it[1 .. m] = Spelled(it[1 .. (m - 1)], template[m])
    BY <2>6, <2>7
  <2> DEFINE o == it[1 .. (m - 1)]
             a == template[m]
  <2>9. <<o, a>> \in D \X R /\ <<o, a>>[1] = o /\ <<o, a>>[2] = a
    BY <1>n, <2>4, <2>5
  <2> HIDE DEF o, a
  <2>10. Spelled(o, a) \in D
    BY <1>r, <2>9
  <2> QED BY <2>2, <2>8, <2>10 DEF o, a
<1>6. n \in 0 .. n
  BY <1>n
<1> HIDE DEF folded
<1>7. folded \in D
  BY <1>1, <1>5, <1>6
<1> QED BY <1>7 DEF D, folded

\* The numbers of a VLAN tag.
TagOk(tag) == tag.pcp \in Nat /\ tag.dei \in Nat /\ tag.vid \in Nat

\* The tag control information is a number.
LEMMA TciIsInt ==
  ASSUME NEW tag, TagOk(tag)
  PROVE  Tci(tag) \in Int
<1> DEFINE a == tag.pcp % 8
           b == tag.dei % 2
           c == tag.vid % 2 ^ 12
           k == 2 ^ 13
           l == 2 ^ 12
<1>1. k = 8192 /\ l = 4096
  OBVIOUS
<1>2. a \in Int /\ b \in Int /\ c \in Int
  <2>1. tag.vid % 4096 \in Int
    BY DEF TagOk
  <2> QED BY <1>1, <2>1 DEF TagOk
<1>3. Tci(tag) = a * k + b * l + c
  BY DEF Tci
<1> HIDE DEF a, b, c, k, l
<1> QED BY <1>1, <1>2, <1>3

\* No tag, or one.
VlanTagged(vlan) == vlan = NoVlan \/ \E tag : vlan = {tag} /\ TagOk(tag)

\* A VLAN tag, or none, gives a number.
LEMMA TaggedVlanOk ==
  ASSUME NEW vlan, VlanTagged(vlan)
  PROVE  VlanOk(vlan)
<1>1. CASE vlan = NoVlan
  BY <1>1 DEF VlanOk
<1>2. CASE \E tag : vlan = {tag} /\ TagOk(tag)
  <2>1. PICK tag : vlan = {tag} /\ TagOk(tag)
    BY <1>2
  <2>2. (CHOOSE t \in vlan : TRUE) = tag
    BY <2>1
  <2>3. Tci(tag) \in Int
    BY <2>1, TciIsInt
  <2> QED BY <2>2, <2>3 DEF VlanOk
<1> QED BY <1>1, <1>2 DEF VlanTagged

\* A vendor profile that frames can be made of.
ProfileOk(p) ==
  /\ p = [oui |-> p.oui, mac |-> p.mac, appid |-> p.appid, rate |-> p.rate,
          confRev |-> p.confRev, svId |-> p.svId, vlan |-> p.vlan]
  /\ p.oui \in Seq(Byte) /\ Len(p.oui) = 3 /\ IsMac(p.mac) /\ p.appid \in U16 /\ p.rate \in Nat
  /\ IsU32(p.confRev) /\ p.svId \in Seq(Byte \cup {NameHere}) /\ VlanTagged(p.vlan)

\* Six octets are a MAC address.
LEMMA SixBytes ==
  ASSUME NEW a \in Byte, NEW b \in Byte, NEW c \in Byte, NEW d \in Byte, NEW e \in Byte,
         NEW f \in Byte
  PROVE  IsMac(<<a, b, c, d, e, f>>)
BY DEF IsMac

\* Three octets are an OUI.
LEMMA ThreeBytes ==
  ASSUME NEW a \in Byte, NEW b \in Byte, NEW c \in Byte
  PROVE  <<a, b, c>> \in Seq(Byte) /\ Len(<<a, b, c>>) = 3
OBVIOUS

\* A profile made of numbers of their widths is one that frames can be made of.
LEMMA ProfileIsOk ==
  ASSUME NEW a \in Byte, NEW b \in Byte, NEW c \in Byte, NEW mac \in Byte, NEW appid \in U16,
         NEW n \in Nat, NEW rev, IsU32(rev), NEW vid \in Nat
  PROVE  ProfileOk(Profile(<<a, b, c>>, mac, appid, n, rev, vid))
<1> DEFINE p == Profile(<<a, b, c>>, mac, appid, n, rev, vid)
           tag == [pcp |-> 4, dei |-> 0, vid |-> vid]
<1>1. /\ p = [oui |-> p.oui, mac |-> p.mac, appid |-> p.appid, rate |-> p.rate,
              confRev |-> p.confRev, svId |-> p.svId, vlan |-> p.vlan]
      /\ p.oui = <<a, b, c>> /\ p.mac = <<1, \h0C, \hCD, 4, 0, mac>> /\ p.appid = appid
      /\ p.rate = 4800 /\ p.confRev = rev /\ p.svId = Text(n) /\ p.vlan = {tag}
  BY DEF Profile
<1>2. 1 \in Byte /\ \h0C \in Byte /\ \hCD \in Byte /\ 4 \in Byte /\ 0 \in Byte
  BY DEF Byte
<1>3. IsMac(<<1, \h0C, \hCD, 4, 0, mac>>)
  BY <1>2, SixBytes
<1>4. TagOk(tag)
  BY DEF TagOk
<1> HIDE DEF p, tag
<1>5. VlanTagged(p.vlan)
  BY <1>1, <1>4 DEF VlanTagged
<1>6. p.oui \in Seq(Byte) /\ Len(p.oui) = 3
  BY <1>1, ThreeBytes
<1>7. p.svId \in Seq(Byte \cup {NameHere})
  BY <1>1, TextBytes
<1>8. IsMac(p.mac) /\ p.appid \in U16 /\ p.rate \in Nat /\ IsU32(p.confRev)
  BY <1>1, <1>3
<1>9. p = [oui |-> p.oui, mac |-> p.mac, appid |-> p.appid, rate |-> p.rate,
           confRev |-> p.confRev, svId |-> p.svId, vlan |-> p.vlan]
  BY <1>1
<1>10. ProfileOk(p)
  BY <1>5, <1>6, <1>7, <1>8, <1>9 DEF ProfileOk
<1> QED BY <1>10 DEF p

\* So is every vendor preset.
LEMMA PresetsOk ==
  ASSUME NEW v \in DOMAIN Presets
  PROVE  ProfileOk(Presets[v])
<1>1. /\ 0 \in Byte /\ \h21 \in Byte /\ \hC1 \in Byte /\ \h1F \in Byte /\ \hF8 \in Byte
      /\ \h11 \in Byte /\ \h30 \in Byte /\ \hA7 \in Byte
      /\ 1 \in Byte /\ 2 \in Byte /\ 3 \in Byte /\ 4 \in Byte
  BY DEF Byte
<1>2. \h4000 \in U16 /\ \h4001 \in U16 /\ \h4002 \in U16 /\ \h4003 \in U16
  BY DEF U16, MaxU16
<1>3. IsU32(1) /\ IsU32(10001)
  BY DEF IsU32, MaxU16
<1>4. ProfileOk(Profile(<<0, \h21, \hC1>>, 1, \h4000, 35, 1, 100))
  BY <1>1, <1>2, <1>3, ProfileIsOk
<1>5. ProfileOk(Profile(<<0, \h1F, \hF8>>, 2, \h4001, 17, 10001, 4000))
  BY <1>1, <1>2, <1>3, ProfileIsOk
<1>6. ProfileOk(Profile(<<0, \h11, \h30>>, 3, \h4002, 16, 1, 0))
  BY <1>1, <1>2, <1>3, ProfileIsOk
<1>7. ProfileOk(Profile(<<0, \h30, \hA7>>, 4, \h4003, 15, 1, 0))
  BY <1>1, <1>2, <1>3, ProfileIsOk
<1> QED BY <1>4, <1>5, <1>6, <1>7 DEF Presets

\* The value a file gives, or the one before.
ValueOf(scl, a, default) == IF a \in DOMAIN scl THEN Only(scl[a]) ELSE default

\* What is taken of a file is the value it gives, or the preset's.
LEMMA ValueOfIs ==
  ASSUME NEW scl, Loads(scl), NEW a, NEW default
  PROVE  ValueOf(scl, a, default) = default \/ ValueOf(scl, a, default) \in Attribute(scl, a)
<1>1. CASE a \in DOMAIN scl
  <2>1. scl[a] # {}
    BY <1>1 DEF Loads
  <2>2. Only(scl[a]) \in scl[a]
    BY <2>1, OnlyIn
  <2> QED BY <1>1, <2>2 DEF ValueOf, Attribute
<1>2. CASE a \notin DOMAIN scl
  BY <1>2 DEF ValueOf
<1> QED BY <1>1, <1>2

\* The VLAN tag of a file, and the profile with the file's values in it.
TagGiven(scl, old) ==
  [pcp |-> ValueOf(scl, "VLAN-PRIORITY", old.pcp) % 8, dei |-> 0,
   vid |-> ValueOf(scl, "VLAN-ID", old.vid) % 2 ^ 12]
OldTag(base) == IF base.vlan = NoVlan THEN ProcessBus(0) ELSE Only(base.vlan)
Overridden(scl, base) ==
  [oui |-> base.oui, mac |-> ValueOf(scl, "MAC-Address", base.mac),
   appid |-> ValueOf(scl, "APPID", base.appid), rate |-> ValueOf(scl, "smpRate", base.rate),
   confRev |-> ValueOf(scl, "confRev", base.confRev), svId |-> ValueOf(scl, "smvID", base.svId),
   vlan |-> IF {"VLAN-ID", "VLAN-PRIORITY"} \cap DOMAIN scl = {} THEN base.vlan
            ELSE {TagGiven(scl, OldTag(base))}]

\* load_from_icd_str puts the file's values into the profile, field by field.
LEMMA OverrideIs ==
  ASSUME NEW scl, NEW base, ProfileOk(base)
  PROVE  Override(scl, base) = Overridden(scl, base)
<1> DEFINE svId == ValueOf(scl, "smvID", base.svId)
           confRev == ValueOf(scl, "confRev", base.confRev)
           rate == ValueOf(scl, "smpRate", base.rate)
           appid == ValueOf(scl, "APPID", base.appid)
           mac == ValueOf(scl, "MAC-Address", base.mac)
           tags == {TagGiven(scl, OldTag(base))}
           untagged == {"VLAN-ID", "VLAN-PRIORITY"} \cap DOMAIN scl = {}
           vlan == IF untagged THEN base.vlan ELSE tags
<1>1. Override(scl, base) =
        [base EXCEPT !.svId = svId, !.confRev = confRev, !.rate = rate, !.appid = appid,
                     !.mac = mac, !.vlan = IF ~({"VLAN-ID", "VLAN-PRIORITY"} \cap DOMAIN scl # {}) THEN base.vlan ELSE tags]
  BY DEF Override, ValueOf, TagGiven, OldTag
<1>2. base = [oui |-> base.oui, mac |-> base.mac, appid |-> base.appid, rate |-> base.rate,
              confRev |-> base.confRev, svId |-> base.svId, vlan |-> base.vlan]
  BY DEF ProfileOk
<1> QED BY <1>1, <1>2 DEF Overridden

\* The VLAN tag that a file gives, its bits cut to the tag's widths.
LEMMA TagGivenOk ==
  ASSUME NEW scl, Loads(scl), SclOk(scl), NEW old, TagOk(old)
  PROVE  TagOk(TagGiven(scl, old))
<1> DEFINE p == ValueOf(scl, "VLAN-PRIORITY", old.pcp)
           v == ValueOf(scl, "VLAN-ID", old.vid)
<1>1. p \in Nat
  <2>1. p = old.pcp \/ p \in Attribute(scl, "VLAN-PRIORITY")
    BY ValueOfIs
  <2> QED BY <2>1 DEF TagOk, SclOk
<1>2. v \in Nat
  <2>1. v = old.vid \/ v \in Attribute(scl, "VLAN-ID")
    BY ValueOfIs
  <2> QED BY <2>1 DEF TagOk, SclOk
<1> HIDE DEF p, v
<1>3. p % 8 \in Nat /\ v % 2 ^ 12 \in Nat
  <2>1. 2 ^ 12 = 4096
    OBVIOUS
  <2>2. p % 8 \in Nat /\ v % 4096 \in Nat
    BY <1>1, <1>2
  <2> QED BY <2>1, <2>2
<1> QED BY <1>3 DEF TagOk, TagGiven, p, v

\* A profile with a file's values in it is one that frames can be made of.
LEMMA OverriddenOk ==
  ASSUME NEW scl, Loads(scl), SclOk(scl), NEW base, ProfileOk(base)
  PROVE  ProfileOk(Override(scl, base))
<1> DEFINE p == Overridden(scl, base)
<1>1. /\ base.oui \in Seq(Byte) /\ Len(base.oui) = 3 /\ IsMac(base.mac) /\ base.appid \in U16
      /\ base.rate \in Nat /\ IsU32(base.confRev) /\ base.svId \in Seq(Byte \cup {NameHere})
      /\ VlanTagged(base.vlan)
  BY DEF ProfileOk
<1>2. /\ p.oui = base.oui /\ p.mac = ValueOf(scl, "MAC-Address", base.mac)
      /\ p.appid = ValueOf(scl, "APPID", base.appid) /\ p.rate = ValueOf(scl, "smpRate", base.rate)
      /\ p.confRev = ValueOf(scl, "confRev", base.confRev)
      /\ p.svId = ValueOf(scl, "smvID", base.svId)
      /\ p.vlan = base.vlan \/ p.vlan = {TagGiven(scl, OldTag(base))}
      /\ p = [oui |-> p.oui, mac |-> p.mac, appid |-> p.appid, rate |-> p.rate,
              confRev |-> p.confRev, svId |-> p.svId, vlan |-> p.vlan]
  BY DEF Overridden
<1> HIDE DEF p
<1>3. IsMac(p.mac)
  BY <1>1, <1>2, ValueOfIs DEF SclOk
<1>4. p.appid \in U16
  BY <1>1, <1>2, ValueOfIs DEF SclOk
<1>5. p.rate \in Nat
  BY <1>1, <1>2, ValueOfIs DEF SclOk
<1>6. IsU32(p.confRev)
  BY <1>1, <1>2, ValueOfIs DEF SclOk
<1>7. p.svId \in Seq(Byte \cup {NameHere})
  BY <1>1, <1>2, ValueOfIs DEF SclOk
<1>8. TagOk(OldTag(base))
  <2>1. CASE base.vlan = NoVlan
    BY <2>1 DEF OldTag, ProcessBus, TagOk
  <2>2. CASE base.vlan # NoVlan
    <3>1. PICK tag : base.vlan = {tag} /\ TagOk(tag)
      BY <1>1, <2>2 DEF VlanTagged
    <3>2. OldTag(base) = tag
      BY <2>2, <3>1 DEF OldTag, Only
    <3> QED BY <3>1, <3>2
  <2> QED BY <2>1, <2>2
<1>9. VlanTagged(p.vlan)
  <2>1. TagOk(TagGiven(scl, OldTag(base)))
    BY <1>8, TagGivenOk
  <2> QED BY <1>1, <1>2, <2>1 DEF VlanTagged
<1>10. ProfileOk(p)
  BY <1>1, <1>2, <1>3, <1>4, <1>5, <1>6, <1>7, <1>9 DEF ProfileOk
<1> QED BY <1>10, OverrideIs DEF p

\* A file can make the rate 0 only by saying so.
RateOfFile(scls) == \E scl \in scls : "smpRate" \in DOMAIN scl /\ scl.smpRate = {0}

\* A rate of 0 can only come of the file.
LEMMA ZeroRateGiven ==
  ASSUME NEW scl, Loads(scl), SclOk(scl), NEW base, ProfileOk(base), base.rate # 0,
         Override(scl, base).rate = 0
  PROVE  "smpRate" \in DOMAIN scl /\ scl.smpRate = {0}
<1>1. ValueOf(scl, "smpRate", base.rate) = 0
  BY OverrideIs DEF Overridden
<1>2. "smpRate" \in DOMAIN scl /\ 0 \in scl["smpRate"]
  BY <1>1, ValueOfIs DEF Attribute
<1>3. AtMostOne(scl["smpRate"])
  BY <1>2 DEF SclOk
<1> QED BY <1>2, <1>3, OnlyOne

\* An identity that frames can be made of, whatever the counter and the samples.
IdentityOk(id) ==
  /\ ParamsOk(id.params) /\ id.svId \in Seq(Byte) /\ IsU32(id.confRev) /\ id.rate \in Nat

\* The identity that is used without a vendor.
LEMMA DemoOk ==
  /\ ParamsOk(DemoParams) /\ Text(12) \in Seq(Byte) /\ Len(Text(12)) = 12 /\ IsU32(1)
<1>1. /\ 0 \in Byte /\ 1 \in Byte /\ 2 \in Byte /\ 4 \in Byte /\ \h0C \in Byte /\ \hCD \in Byte
  BY DEF Byte
<1>2. IsMac(<<1, \h0C, \hCD, 4, 0, 1>>) /\ IsMac(<<2, 0, 0, 0, 0, 1>>)
  BY <1>1, SixBytes
<1>3. \h4000 \in U16
  BY DEF U16, MaxU16
<1>4. ParamsOk(DemoParams)
  <2>1. DemoParams.dst = <<1, \h0C, \hCD, 4, 0, 1>> /\ DemoParams.src = <<2, 0, 0, 0, 0, 1>>
        /\ DemoParams.appid = \h4000 /\ DemoParams.vlan = NoVlan
    BY DEF DemoParams
  <2>2. Spans(DemoParams.dst, 6) /\ Spans(DemoParams.src, 6)
    BY <1>2, <2>1 DEF Spans, IsBytes, IsMac
  <2> QED BY <1>3, <2>1, <2>2 DEF ParamsOk, VlanOk
<1>5. IsU32(1)
  BY DEF IsU32, MaxU16
<1> QED BY <1>4, <1>5, TextBytes

\* The frame parameters of a vendor profile.
LEMMA VendorParamsOk ==
  ASSUME NEW p, ProfileOk(p)
  PROVE  ParamsOk(FromVendor(p))
<1> DEFINE z == <<0, 0, 1>>
           q == FromVendor(p)
<1>1. z \in Seq(Byte) /\ Len(z) = 3
  <2>1. 0 \in Byte /\ 1 \in Byte
    BY DEF Byte
  <2> QED BY <2>1, ThreeBytes
<1>2. q.dst = p.mac /\ q.src = p.oui \o z /\ q.appid = p.appid /\ q.vlan = p.vlan
  BY DEF FromVendor
<1> HIDE DEF z, q
<1>3. p.oui \in Seq(Byte) /\ Len(p.oui) = 3
  BY DEF ProfileOk
<1>4. p.oui \o z \in Seq(Byte) /\ Len(p.oui \o z) = Len(p.oui) + Len(z)
  BY <1>1, <1>3, ConcatProperties
<1>5. Spans(q.src, 6)
  BY <1>1, <1>2, <1>3, <1>4 DEF Spans, IsBytes
<1>6. Spans(q.dst, 6)
  BY <1>2 DEF Spans, IsBytes, ProfileOk, IsMac
<1>7. VlanOk(q.vlan)
  BY <1>2, TaggedVlanOk DEF ProfileOk
<1>8. q.appid \in U16
  BY <1>2 DEF ProfileOk
<1>9. ParamsOk(q)
  BY <1>5, <1>6, <1>7, <1>8 DEF ParamsOk
<1> QED BY <1>9 DEF q

\* The identity that the options and the file give is one that frames can be made of,
\* and its rate is 0 only if the file says so.
LEMMA ResolveOk ==
  ASSUME NEW opts, VendorOk(opts.vendor), opts.rate \in Nat, opts.rate # 0,
         NEW scls, AtMostOne(scls), \A scl \in scls : SclOk(scl), Resolves(opts, scls)
  PROVE  /\ IdentityOk(Resolve(opts, scls))
         /\ Resolve(opts, scls).rate = 0 => RateOfFile(scls)
<1> DEFINE base == IF opts.vendor = {} THEN Presets["sel_2240"] ELSE Presets[Only(opts.vendor)]
           profile == IF opts.icd THEN Override(Only(scls), base) ELSE base
           id == Resolve(opts, scls)
<1>1. ProfileOk(base) /\ base.rate = 4800
  <2>1. "sel_2240" \in DOMAIN Presets
    BY DEF Presets
  <2>2. opts.vendor # {} => Only(opts.vendor) \in DOMAIN Presets
    BY DEF VendorOk
  <2> QED BY <2>1, <2>2, PresetsOk, PresetRates
<1> HIDE DEF base
<1>2. ProfileOk(profile) /\ (profile.rate = 0 => RateOfFile(scls))
  <2>1. CASE opts.icd
    <3>1. PICK scl \in scls : Loads(scl)
      BY <2>1 DEF Resolves
    <3>2. Only(scls) = scl
      BY <3>1, OnlyOne
    <3>3. profile = Override(scl, base)
      BY <2>1, <3>2
    <3>4. SclOk(scl)
      BY <3>1
    <3>5. ProfileOk(Override(scl, base))
      BY <1>1, <3>1, <3>4, OverriddenOk
    <3>6. Override(scl, base).rate = 0 => RateOfFile(scls)
      <4>1. base.rate # 0
        BY <1>1
      <4> QED BY <1>1, <3>1, <3>4, <4>1, ZeroRateGiven DEF RateOfFile
    <3> HIDE DEF profile
    <3> QED BY <3>3, <3>5, <3>6
  <2>2. CASE ~opts.icd
    <3>1. profile = base
      BY <2>2
    <3> QED BY <1>1, <3>1
  <2> QED BY <2>1, <2>2
<1>3. CASE opts.vendor = {} /\ ~opts.icd
  <2>1. id = [params |-> DemoParams, svId |-> Text(12), confRev |-> 1, rate |-> opts.rate]
    BY <1>3 DEF Resolve
  <2>2. id.params = DemoParams /\ id.svId = Text(12) /\ id.confRev = 1 /\ id.rate = opts.rate
    BY <2>1
  <2> HIDE DEF id
  <2> QED BY <2>2, DemoOk DEF IdentityOk, id
<1>4. CASE ~(opts.vendor = {} /\ ~opts.icd)
  <2>1. id = [params |-> FromVendor(profile), svId |-> SvIdFor(profile.svId),
              confRev |-> profile.confRev, rate |-> profile.rate]
    BY <1>4 DEF Resolve, base
  <2> HIDE DEF id, profile
  <2>2. /\ id.params = FromVendor(profile) /\ id.svId = SvIdFor(profile.svId)
        /\ id.confRev = profile.confRev /\ id.rate = profile.rate
    BY <2>1
  <2>3. ParamsOk(id.params)
    BY <1>2, <2>2, VendorParamsOk
  <2>4. id.svId \in Seq(Byte) /\ IsU32(id.confRev) /\ id.rate \in Nat
    BY <1>2, <2>2, SvIdForOk DEF ProfileOk
  <2>5. IdentityOk(id) /\ (id.rate = 0 => RateOfFile(scls))
    BY <1>2, <2>2, <2>3, <2>4 DEF IdentityOk
  <2> QED BY <2>5 DEF id
<1> QED BY <1>3, <1>4

-------------------------------------------------------------------------------
(* The samples and their ASDU. *)

\* A remainder is below its divisor.
LEMMA Remainder ==
  ASSUME NEW i \in Nat, NEW n \in Nat \ {0}
  PROVE  i % n \in Nat /\ i % n <= n - 1
OBVIOUS

\* A value of good quality.
LEMMA GoodOk ==
  ASSUME NEW v, IsI32(v)
  PROVE  SampleOk(Good(v))
<1>1. Good(v).value = v /\ Good(v).quality = 0 /\ Good(v) = [value |-> v, quality |-> 0]
  BY DEF Good
<1>2. IsU32(0)
  BY DEF IsU32, MaxU16
<1> QED BY <1>1, <1>2 DEF SampleOk

\* Four in a row.
LEMMA FourOf ==
  ASSUME NEW S, NEW a \in S, NEW b \in S, NEW c \in S, NEW d \in S
  PROVE  <<a, b, c, d>> \in Seq(S) /\ Len(<<a, b, c, d>>) = 4
OBVIOUS

\* Four and four are eight.
LEMMA FourAndFour ==
  ASSUME NEW S, NEW x \in Seq(S), NEW y \in Seq(S), Len(x) = 4, Len(y) = 4
  PROVE  x \o y \in Seq(S) /\ Len(x \o y) = 8
<1>1. x \o y \in Seq(S) /\ Len(x \o y) = Len(x) + Len(y)
  BY ConcatProperties
<1> QED BY <1>1

\* Eight samples of their widths.
LEMMA EightSamples ==
  ASSUME NEW a, NEW b, NEW c, NEW d, NEW e, NEW f, NEW g, NEW h,
         SampleOk(a), SampleOk(b), SampleOk(c), SampleOk(d),
         SampleOk(e), SampleOk(f), SampleOk(g), SampleOk(h)
  PROVE  SamplesOk(<<a, b, c, d>> \o <<e, f, g, h>>)
<1> DEFINE S == {a, b, c, d, e, f, g, h}
           x == <<a, b, c, d>>
           y == <<e, f, g, h>>
           w == x \o y
<1>1. \A s \in S : SampleOk(s)
  OBVIOUS
<1>2. a \in S /\ b \in S /\ c \in S /\ d \in S
  OBVIOUS
<1>0. e \in S /\ f \in S /\ g \in S /\ h \in S
  OBVIOUS
<1> HIDE DEF S
<1>3. x \in Seq(S) /\ Len(x) = 4
  BY <1>2
<1>4. y \in Seq(S) /\ Len(y) = 4
  BY <1>0
<1> HIDE DEF x, y
<1>5. w \in Seq(S) /\ Len(w) = 8
  BY <1>3, <1>4, FourAndFour
<1> HIDE DEF w
<1>6. w = [k \in 1 .. 8 |-> w[k]] /\ \A k \in 1 .. 8 : w[k] \in S
  <2>1. w \in [1 .. Len(w) -> S]
    BY <1>5, LenProperties
  <2>2. w \in [1 .. 8 -> S]
    BY <1>5, <2>1
  <2> QED BY <2>2
<1>7. SamplesOk(w)
  BY <1>1, <1>6 DEF SamplesOk
<1> QED BY <1>7 DEF w, x, y

\* Three phases each with the neutral that balances them.
LEMMA EightOk ==
  ASSUME NEW a, NEW b, NEW c, NEW d, NEW e, NEW f,
         IsI32(a), IsI32(b), IsI32(c), IsI32(-(a + b + c)),
         IsI32(d), IsI32(e), IsI32(f), IsI32(-(d + e + f))
  PROVE  SamplesOk(WithNeutral(a, b, c) \o WithNeutral(d, e, f))
<1> DEFINE m == -(a + b + c)
           n == -(d + e + f)
<1>1. /\ SampleOk(Good(a)) /\ SampleOk(Good(b)) /\ SampleOk(Good(c)) /\ SampleOk(Good(m))
      /\ SampleOk(Good(d)) /\ SampleOk(Good(e)) /\ SampleOk(Good(f)) /\ SampleOk(Good(n))
  BY GoodOk
<1> QED BY <1>1, EightSamples DEF WithNeutral

\* The nominal three-phase samples are i32 (NOMINAL_3PH).
LEMMA NominalOk == SamplesOk(Nominal3ph)
<1>1. /\ IsI32(5000) /\ IsI32(-2500) /\ IsI32(23000) /\ IsI32(-11500)
      /\ IsI32(-(5000 + (-2500) + (-2500))) /\ IsI32(-(23000 + (-11500) + (-11500)))
  BY DEF IsI32
<1> QED BY <1>1, EightOk DEF Nominal3ph

\* The samples of every point of a waveform are i32 (WaveAssumption says so of the sums
\* that the code rounds and negates).
LEMMA WaveformOk ==
  ASSUME NEW i \in Nat
  PROVE  SamplesOk(Waveform(i))
<1> DEFINE n == Len(Wave)
           k == (i % n) + 1
           at == Wave[k]
<1>1. n \in Nat \ {0} /\ \A j \in 1 .. n : Wave[j] \in Range(Wave)
  <2>1. Wave # <<>> /\ Wave \in Seq(Range(Wave))
    BY WaveAssumption
  <2>2. DOMAIN Wave = 1 .. n /\ n \in Nat
    BY <2>1
  <2>3. n # 0
    BY <2>1
  <2> QED BY <2>2, <2>3 DEF Range
<1> HIDE DEF n
<1>2. k \in 1 .. n
  BY <1>1, Remainder
<1> HIDE DEF k
<1>3. at \in Range(Wave)
  BY <1>1, <1>2
<1> HIDE DEF at
<1>4. /\ IsI32(at[1]) /\ IsI32(at[2]) /\ IsI32(at[3]) /\ IsI32(-(at[1] + at[2] + at[3]))
      /\ IsI32(at[4]) /\ IsI32(at[5]) /\ IsI32(at[6]) /\ IsI32(-(at[4] + at[5] + at[6]))
  BY <1>3, WaveAssumption
<1>5. Waveform(i) = WithNeutral(at[1], at[2], at[3]) \o WithNeutral(at[4], at[5], at[6])
  BY DEF Waveform, at, k, n
<1> QED BY <1>4, <1>5, EightOk

\* The ASDU of a tick: its counter is a u16 whatever the sequence number.
LEMMA AsduOfOk ==
  ASSUME NEW id, IdentityOk(id), NEW count \in Nat, NEW samples, SamplesOk(samples)
  PROVE  AsduOk(AsduOf(id, count, samples))
<1> DEFINE asdu == AsduOf(id, count, samples)
<1>1. /\ asdu.svId = id.svId /\ asdu.smpCnt = count % CntMod /\ asdu.confRev = id.confRev
      /\ asdu.smpSynch = 2 /\ asdu.smpRate = ClampSmpRate(id.rate) /\ asdu.samples = samples
      /\ asdu = [svId |-> asdu.svId, smpCnt |-> asdu.smpCnt, confRev |-> asdu.confRev,
                 smpSynch |-> asdu.smpSynch, smpRate |-> asdu.smpRate, samples |-> asdu.samples]
  BY DEF AsduOf
<1> HIDE DEF asdu
<1>2. count % CntMod \in U16
  <2>1. CntMod \in Nat \ {0} /\ CntMod - 1 <= MaxU16 /\ MaxU16 \in Nat
    BY PublisherAssumption DEF MaxU16
  <2> DEFINE r == count % CntMod
  <2>2. r \in Nat /\ r <= CntMod - 1
    BY <2>1, Remainder
  <2> HIDE DEF r
  <2>3. r <= MaxU16
    BY <2>1, <2>2
  <2> QED BY <2>2, <2>3 DEF U16, r
<1>3. 2 \in Byte
  BY DEF Byte
<1>4. ClampSmpRate(id.rate) \in U16
  <2>1. id.rate \in Nat /\ MaxU16 \in Nat
    BY DEF IdentityOk, MaxU16
  <2> QED BY <2>1 DEF ClampSmpRate, U16
<1>5. asdu.svId \in Seq(Byte) /\ IsU32(asdu.confRev)
  BY <1>1 DEF IdentityOk
<1>6. AsduOk(asdu)
  BY <1>1, <1>2, <1>3, <1>4, <1>5 DEF AsduOk
<1> QED BY <1>6 DEF asdu

\* A frame that does not fit the buffer of MAX_FRAME_BYTES is one whose svID is over the
\* budget: nothing else in it grows.
LEMMA OverBudget ==
  ASSUME NEW params, ParamsOk(params), NEW asdu, AsduOk(asdu),
         EncodeFrame(params, asdu, MaxFrameBytes) = {}
  PROVE  Len(asdu.svId) > Budget
<1> DEFINE n == Len(asdu.svId)
           m == Len(IntU16(asdu.smpRate))
           k == Len(AsduFields(asdu))
           p == Len(SavPduBytes(asdu))
           l == LengthOf(asdu)
           h == L2Length(params)
           s == Len(FrameOf(params, asdu))
<1>1. n \in Nat /\ m \in Nat /\ m <= 3
  <2>1. asdu.svId \in Seq(Byte)
    BY FieldBytes
  <2>2. n \in Nat
    BY <2>1
  <2> QED BY <2>2, FieldBytes
<1>2. k = n + (IF n < 128 THEN 2 ELSE 4) + m + 81
  BY FieldsBytes
<1>3. k \in Nat /\ p = k + 15
  BY SavPduSizes
<1>4. l = 8 + p
  BY DEF LengthOf
<1>5. s = h + l
  BY FrameBytes
<1>6. h \in Nat /\ h <= 18
  BY DEF L2Length
<1>7. ~(l <= MaxU16 /\ s <= MaxFrameBytes)
  BY EncodeIs DEF Fits
<1> HIDE DEF n, m, k, p, l, h, s
<1>8. n > 96
  BY <1>1, <1>2, <1>3, <1>4, <1>5, <1>6, <1>7 DEF MaxU16, MaxFrameBytes
<1> QED BY <1>8 DEF Budget, n

-------------------------------------------------------------------------------
(* The invariant of the publisher. *)

\* The bytes are what encode_frame wrote of the ASDU.
IsBuilt(bytes, asdu, params) ==
  AsduOk(asdu) /\ bytes \in EncodeFrame(params, asdu, MaxFrameBytes)

\* The inductive invariant: the identity is one that frames can be made of; the frame
\* that waits to be sent was encoded from the ASDU it is meant to carry; a rate of 0
\* comes from the vendor file; and a panic has its cause.
PubInv ==
  /\ inv \in Invocations /\ IdentityOk(identity) /\ index \in Nat
  /\ pc = "built" => \E asdu \in meant : meant = {asdu} /\ IsBuilt(frame, asdu, identity.params)
  /\ pc = "resolved" /\ identity.rate = 0 => RateOfFile(inv.scl)
  /\ AbortsOnlyWhen

\* The causes of a panic, in the state's own terms.
AbortCause(id, i) ==
  \/ Len(id.svId) > Budget \/ RateOfFile(i.scl) \/ NoDuration(i.args)
  \/ NotUnicode \in {i.program, i.mode} \cup i.target \/ NoWord(i.args) \/ i.refuses # {}

\* AbortsOnlyWhen, in the state's own terms.
LEMMA AbortsMeans ==
  /\ AbortsOnlyWhen <=> (pc = "aborted" => AbortCause(identity, inv))
  /\ AbortsOnlyWhen' <=> (pc' = "aborted" => AbortCause(identity', inv'))
BY DEF AbortsOnlyWhen, AbortCause, RateOfFile, NoDuration, NoWord

\* What InvocationsAssumption says of one invocation.
LEMMA InvocationOk ==
  ASSUME NEW i \in Invocations
  PROVE  ArgsOk(i.args) /\ AtMostOne(i.scl) /\ \A scl \in i.scl : SclOk(scl)
BY InvocationsAssumption DEF ArgsOk

\* The invariant holds before the tool is started.
LEMMA PubInvInit ==
  ASSUME PublisherInit
  PROVE  PubInv
<1>1. inv \in Invocations /\ pc = "start" /\ identity = Nobody /\ index = 0
  BY DEF PublisherInit
<1>2. /\ Nobody.params = DemoParams /\ Nobody.svId = Text(12) /\ Nobody.confRev = 1
      /\ Nobody.rate = 4800
  BY DEF Nobody
<1>3. IdentityOk(Nobody)
  BY <1>2, DemoOk DEF IdentityOk
<1>4. AbortsOnlyWhen
  BY <1>1, AbortsMeans
<1> QED BY <1>1, <1>3, <1>4 DEF PubInv

\* A step that leaves the sent identity alone and neither builds nor aborts.
LEMMA PubInvQuiet ==
  ASSUME PubInv, UNCHANGED <<inv, identity, index>>, pc' \notin {"built", "resolved", "aborted"}
  PROVE  PubInv'
<1>1. inv' \in Invocations /\ IdentityOk(identity') /\ index' \in Nat
  BY DEF PubInv
<1>2. AbortsOnlyWhen'
  BY AbortsMeans
<1> QED BY <1>1, <1>2 DEF PubInv

\* A step that panics for a cause.
LEMMA PubInvAborted ==
  ASSUME PubInv, UNCHANGED <<inv, index>>, IdentityOk(identity'), pc' = "aborted",
         AbortCause(identity', inv)
  PROVE  PubInv'
<1>1. AbortsOnlyWhen'
  <2>1. AbortCause(identity', inv')
    OBVIOUS
  <2> QED BY <2>1, AbortsMeans
<1>2. inv' \in Invocations /\ index' \in Nat
  BY DEF PubInv
<1> QED BY <1>1, <1>2 DEF PubInv

\* A step that prints ends as it should, or in a panic for a stream that may refuse.
LEMMA EndsInIs ==
  ASSUME NEW end, NEW printed, NEW x \in EndsIn(end, printed)
  PROVE  x = end \/ (x = "aborted" /\ inv.refuses # {})
BY DEF EndsIn

\* A step that prints as it ends the run, or goes on.
LEMMA PubInvPrinted ==
  ASSUME PubInv, UNCHANGED <<inv, identity, index>>, NEW end \in {"done", "failed", "ready", "args"},
         NEW printed, pc' \in EndsIn(end, printed)
  PROVE  PubInv'
<1>1. pc' = end \/ (pc' = "aborted" /\ inv.refuses # {})
  BY EndsInIs
<1>2. CASE pc' = end
  BY <1>2, PubInvQuiet
<1>3. CASE pc' = "aborted" /\ inv.refuses # {}
  <2>1. AbortCause(identity', inv) /\ IdentityOk(identity')
    BY <1>3 DEF AbortCause, PubInv
  <2> QED BY <1>3, <2>1, PubInvAborted
<1> QED BY <1>1, <1>2, <1>3

\* Starting keeps the invariant; a word that is no Unicode is a panic.
LEMMA StartInv ==
  ASSUME PubInv, Start
  PROVE  PubInv'
<1>1. UNCHANGED <<inv, identity, index>>
  BY DEF Start
<1>2. IdentityOk(identity')
  BY <1>1 DEF PubInv
<1>3. CASE NotUnicode \in {inv.program, inv.mode}
  <2>1. pc' = "aborted"
    BY <1>3 DEF Start
  <2>2. AbortCause(identity', inv)
    BY <1>3 DEF AbortCause
  <2> QED BY <1>1, <1>2, <2>1, <2>2, PubInvAborted
<1>4. CASE NotUnicode \notin {inv.program, inv.mode}
  <2> DEFINE last == LastWords.failed
  <2>1. pc' \in CASE inv.mode = "help" -> EndsIn("done", {"stdout"})
                 [] inv.mode = "hex" -> {"ready"}
                 [] inv.mode \in {"pcap", "udp"} /\ inv.target # {} ->
                      {IF NotUnicode \in inv.target THEN "aborted" ELSE "args"}
                 [] OTHER -> EndsIn("failed", last)
    BY <1>4 DEF Start
  <2> HIDE DEF last
  <2>2. \/ pc' \in EndsIn("done", {"stdout"}) \/ pc' = "ready" \/ pc' \in EndsIn("failed", last)
        \/ pc' = "args" \/ (pc' = "aborted" /\ NotUnicode \in inv.target)
    BY <2>1
  <2>3. CASE pc' \in EndsIn("done", {"stdout"}) \/ pc' \in EndsIn("failed", last)
    BY <1>1, <2>3, PubInvPrinted
  <2>4. CASE pc' = "ready" \/ pc' = "args"
    BY <1>1, <2>4, PubInvQuiet
  <2>5. CASE pc' = "aborted" /\ NotUnicode \in inv.target
    <3>1. AbortCause(identity', inv)
      BY <2>5 DEF AbortCause
    <3> QED BY <1>1, <1>2, <2>5, <3>1, PubInvAborted
  <2> QED BY <2>2, <2>3, <2>4, <2>5
<1> QED BY <1>3, <1>4

\* Parsing the options and resolving the identity keeps the invariant; it may end in a
\* panic, for a duration that no Duration holds, a word or a stream.
LEMMA ConfigureInv ==
  ASSUME PubInv, Configure
  PROVE  PubInv'
<1> DEFINE opts == ParseStreamOpts(inv.args)
           id == Resolve(opts, inv.scl)
           total == TotalFrames(opts, inv.mode, id.rate)
           found == [params |-> id.params, svId |-> id.svId, confRev |-> id.confRev,
                     rate |-> id.rate, total |-> total]
<1>1. ArgsOk(inv.args) /\ AtMostOne(inv.scl) /\ \A scl \in inv.scl : SclOk(scl)
  BY InvocationOk DEF PubInv
<1>2. opts \in OptsSet(inv.args) /\ (opts.end = "no" => opts.rate # 0)
  BY <1>1, ParsedOptsOk
<1>3. inv' = inv /\ index' = index
  BY DEF Configure
<1> DEFINE last == LastWords[opts.end]
           lastly == Printed([opts EXCEPT !.icd = FALSE]) \cup {"stderr"}
           said == Printed(opts)
<1>4. \/ opts.end # "no" /\ pc' \in EndsIn(opts.end, last) /\ identity' = identity
      \/ opts.end = "no" /\ pc' \in EndsIn("failed", lastly) /\ identity' = identity
      \/ /\ opts.end = "no" /\ Resolves(opts, inv.scl) /\ pc' \in EndsIn("resolved", said)
         /\ identity' = found
  BY DEF Configure
<1> HIDE DEF opts, last, lastly, said
<1>5. /\ opts.end \in {"no", "aborted", "done", "failed"} /\ opts.rate \in Nat
      /\ VendorOk(opts.vendor) /\ (opts.end = "aborted" => ArgsPanic(inv.args))
  BY <1>2 DEF OptsSet, OptsSpace, OptsOk
<1>6. CASE opts.end # "no" /\ pc' \in EndsIn(opts.end, last) /\ identity' = identity
  <2>1. CASE opts.end \in {"done", "failed"}
    BY <1>3, <1>6, <2>1, PubInvPrinted
  <2>2. CASE opts.end = "aborted"
    <3>1. pc' = "aborted"
      BY <1>6, <2>2, EndsInIs
    <3>2. AbortCause(identity', inv) /\ IdentityOk(identity')
      BY <1>5, <1>6, <2>2 DEF AbortCause, ArgsPanic, PubInv
    <3> QED BY <1>3, <3>1, <3>2, PubInvAborted
  <2> QED BY <1>5, <1>6, <2>1, <2>2
<1>7. CASE pc' \in EndsIn("failed", lastly) /\ identity' = identity
  BY <1>3, <1>7, PubInvPrinted
<1>8. CASE /\ opts.end = "no" /\ Resolves(opts, inv.scl) /\ pc' \in EndsIn("resolved", said)
           /\ identity' = found
  <2>1. IdentityOk(id) /\ (id.rate = 0 => RateOfFile(inv.scl))
    BY <1>1, <1>2, <1>5, <1>8, ResolveOk
  <2> HIDE DEF id, total
  <2>2. /\ identity'.params = id.params /\ identity'.svId = id.svId
        /\ identity'.confRev = id.confRev /\ identity'.rate = id.rate
    BY <1>8
  <2>3. IdentityOk(identity')
    BY <2>1, <2>2 DEF IdentityOk
  <2>4. pc' = "resolved" \/ (pc' = "aborted" /\ inv.refuses # {})
    BY <1>8, EndsInIs
  <2>5. CASE pc' = "resolved"
    <3>1. AbortsOnlyWhen'
      BY <2>5, AbortsMeans
    <3>2. identity'.rate = 0 => RateOfFile(inv'.scl)
      BY <1>3, <2>1, <2>2
    <3>3. inv' \in Invocations /\ index' \in Nat
      BY <1>3 DEF PubInv
    <3> QED BY <2>3, <2>5, <3>1, <3>2, <3>3 DEF PubInv
  <2>6. CASE pc' = "aborted" /\ inv.refuses # {}
    <3>1. AbortCause(identity', inv)
      BY <2>6 DEF AbortCause
    <3> QED BY <1>3, <2>3, <2>6, <3>1, PubInvAborted
  <2> QED BY <2>4, <2>5, <2>6
<1> QED BY <1>4, <1>6, <1>7, <1>8

\* Opening the capture or the socket keeps the invariant; it may end in a panic, for a
\* rate of 0 or for the warning.
LEMMA OpenInv ==
  ASSUME PubInv, Open
  PROVE  PubInv'
<1> DEFINE said == IF identity.rate > MaxU16 THEN {"stderr"} ELSE {}
<1>1. /\ pc = "resolved" /\ UNCHANGED <<inv, identity, index>>
      /\ pc' \in IF identity.rate = 0 THEN {"aborted"} ELSE EndsIn("ready", said)
  BY DEF Open
<1> HIDE DEF said
<1>2. CASE identity.rate = 0
  <2>1. AbortCause(identity', inv) /\ IdentityOk(identity')
    BY <1>1, <1>2 DEF PubInv, AbortCause
  <2>2. pc' = "aborted"
    BY <1>1, <1>2
  <2> QED BY <1>1, <2>1, <2>2, PubInvAborted
<1>3. CASE identity.rate # 0
  <2>1. pc' \in EndsIn("ready", said)
    BY <1>1, <1>3
  <2> QED BY <1>1, <2>1, PubInvPrinted
<1> QED BY <1>2, <1>3

\* Building a frame keeps the invariant; it may end in a panic, for an svID over the
\* budget.
LEMMA BuildFrameInv ==
  ASSUME PubInv, BuildFrame
  PROVE  PubInv'
<1> DEFINE samples == IF inv.mode = "hex" THEN Nominal3ph ELSE Waveform(index)
           asdu == AsduOf(identity, index, samples)
           encoded == EncodeFrame(identity.params, asdu, MaxFrameBytes)
<1>1. /\ UNCHANGED <<inv, identity, index>>
      /\ \/ encoded = {} /\ pc' = "aborted" /\ UNCHANGED <<frame, meant>>
         \/ frame' \in encoded /\ pc' = "built" /\ meant' = {asdu}
  BY DEF BuildFrame
<1>2. inv \in Invocations /\ IdentityOk(identity) /\ index \in Nat
  BY DEF PubInv
<1>3. SamplesOk(samples)
  BY <1>2, NominalOk, WaveformOk
<1> HIDE DEF samples
<1>4. AsduOk(asdu)
  BY <1>2, <1>3, AsduOfOk
<1>5. asdu.svId = identity.svId
  BY DEF AsduOf
<1> HIDE DEF asdu
<1>6. CASE encoded = {} /\ pc' = "aborted"
  <2>1. ParamsOk(identity.params)
    BY <1>2 DEF IdentityOk
  <2>2. Len(identity.svId) > Budget
    BY <1>4, <1>5, <1>6, <2>1, OverBudget
  <2>3. AbortCause(identity', inv')
    BY <1>1, <2>2 DEF AbortCause
  <2>4. AbortsOnlyWhen'
    BY <2>3, AbortsMeans
  <2> QED BY <1>1, <1>2, <1>6, <2>4 DEF PubInv
<1>7. CASE frame' \in encoded /\ pc' = "built" /\ meant' = {asdu}
  <2>1. IsBuilt(frame', asdu, identity'.params)
    BY <1>1, <1>4, <1>7 DEF IsBuilt
  <2>2. asdu \in meant' /\ meant' = {asdu}
    BY <1>7
  <2>3. AbortsOnlyWhen'
    BY <1>7, AbortsMeans
  <2> HIDE DEF encoded
  <2> QED BY <1>1, <1>2, <1>7, <2>1, <2>2, <2>3 DEF PubInv
<1> QED BY <1>1, <1>6, <1>7

\* So does every step of the publisher.
LEMMA PublisherStepInv ==
  ASSUME PubInv, PublisherNext
  PROVE  PubInv'
<1>1. CASE Start
  BY <1>1, StartInv
<1>2. CASE Configure
  BY <1>2, ConfigureInv
<1>3. CASE Open
  BY <1>3, OpenInv
<1>4. CASE OpenFails
  BY <1>4, PubInvPrinted DEF OpenFails
<1>5. CASE BuildFrame
  BY <1>5, BuildFrameInv
<1>6. CASE Emit
  <2>1. pc' = "ready" /\ index' = index + 1 /\ inv' = inv /\ identity' = identity
    BY <1>6 DEF Emit
  <2>2. inv' \in Invocations /\ IdentityOk(identity') /\ index' \in Nat
    BY <2>1 DEF PubInv
  <2>3. AbortsOnlyWhen'
    BY <2>1, AbortsMeans
  <2> QED BY <2>1, <2>2, <2>3 DEF PubInv
<1>7. CASE EmitFails
  BY <1>7, PubInvPrinted DEF EmitFails
<1>8. CASE Finish
  BY <1>8, PubInvPrinted DEF Finish
<1> QED BY <1>1, <1>2, <1>3, <1>4, <1>5, <1>6, <1>7, <1>8 DEF PublisherNext

\* And every step of the others.
LEMMA PubInvUnchanged ==
  ASSUME PubInv, UNCHANGED publisherVars
  PROVE  PubInv'
<1>1. UNCHANGED <<inv, pc, identity, index, frame, meant>>
  BY DEF publisherVars
<1>2. AbortsOnlyWhen'
  BY <1>1, AbortsMeans DEF PubInv
<1> QED BY <1>1, <1>2 DEF PubInv

\* In every state the publisher's identity is one that frames can be made of, its frame
\* was encoded from the ASDU it is meant to carry, and a panic has its cause.
THEOREM PublisherInvariant == Spec => []PubInv
<1>1. Init => PubInv
  BY PubInvInit DEF Init
<1>2. PubInv /\ [Next]_vars => PubInv'
  <2> SUFFICES ASSUME PubInv, [Next]_vars
               PROVE  PubInv'
    OBVIOUS
  <2>1. CASE PublisherNext
    BY <2>1, PublisherStepInv
  <2>2. CASE UNCHANGED publisherVars
    BY <2>2, PubInvUnchanged
  <2> QED BY <2>1, <2>2 DEF Next, vars, Receive, Corrupt, Snapshot, PublishLatest
<1> QED BY <1>1, <1>2, PTL DEF Spec

-------------------------------------------------------------------------------
(* The theorems. *)

\* What the invariant says of a frame that was built.
LEMMA BuiltMeans ==
  ASSUME PubInv, pc = "built"
  PROVE  ReadAs(frame, Payload(identity, frame), identity.params, Only(meant))
<1>1. ParamsOk(identity.params)
  BY DEF PubInv, IdentityOk
<1>2. PICK asdu \in meant : meant = {asdu} /\ IsBuilt(frame, asdu, identity.params)
  BY DEF PubInv
<1>3. Only(meant) = asdu
  BY <1>2 DEF Only
<1>4. AsduOk(asdu) /\ frame \in EncodeFrame(identity.params, asdu, MaxFrameBytes)
  BY <1>2 DEF IsBuilt
<1> QED BY <1>1, <1>3, <1>4, FrameDecoded DEF Payload

\* The constructed fields of the layout.
LEMMA OpeningsAre ==
  {k \in DOMAIN SavPduLayout : SavPduLayout[k].kind = "opening"} = {5, 7, 8}
<1>1. DOMAIN SavPduLayout = 1 .. 14
  BY DEF SavPduLayout
<1>2. /\ Octets("appid", 2).kind = "octets" /\ Octets("length", 2).kind = "octets"
      /\ Octets("reserved1", 2).kind = "octets" /\ Octets("reserved2", 2).kind = "octets"
      /\ \A tag : Opening(tag).kind = "opening"
      /\ \A name, tag, sizes : Field(name, tag, sizes).kind = "field"
  BY DEF Octets, Opening, Field
<1>3. \A k \in 1 .. 14 : SavPduLayout[k].kind = "opening" <=> k \in {5, 7, 8}
  BY <1>2, LayoutItems
<1> QED BY <1>1, <1>3

\* They all end where the buffer does.
LEMMA EndsAre ==
  ASSUME NEW b, EndsWith(Reader(b), 5, b), EndsWith(Reader(b), 7, b), EndsWith(Reader(b), 8, b)
  PROVE  Ends(b) = {Len(b)}
<1> DEFINE end(n) == ReadItems(Reader(b), n).pos + ReadItems(Reader(b), n).got
           S == {k \in DOMAIN SavPduLayout : SavPduLayout[k].kind = "opening"}
<1>1. Ends(b) = {end(n) : n \in S}
  BY DEF Ends
<1>2. S = {5, 7, 8}
  BY OpeningsAre
<1>3. end(5) = Len(b) /\ end(7) = Len(b) /\ end(8) = Len(b)
  BY DEF EndsWith
<1> HIDE DEF end, S
<1> QED BY <1>1, <1>2, <1>3

\* A frame that was encoded is decoded as it was meant.
LEMMA BuiltIsDecoded == PubInv => DecodesAsMeant
<1> SUFFICES ASSUME PubInv, pc = "built"
             PROVE  LET payload == Payload(identity, frame)
                        decoded == DecodeFrame(frame)
                    IN  /\ decoded = {[appid |-> identity.params.appid, length |-> Len(payload),
                                       noAsdu |-> 1, asdu |-> Only(meant)]}
                        /\ DecodeL2Stripped(payload) = decoded
                        /\ Ends(payload) = {Len(payload)}
  BY DEF DecodesAsMeant
<1> DEFINE payload == Payload(identity, frame)
<1>1. /\ DecodeFrame(frame) = {Meaning(identity.params.appid, Len(payload), Only(meant))}
      /\ DecodeL2Stripped(payload) = {Meaning(identity.params.appid, Len(payload), Only(meant))}
      /\ EndsWith(Reader(payload), 5, payload) /\ EndsWith(Reader(payload), 7, payload)
      /\ EndsWith(Reader(payload), 8, payload)
  BY BuiltMeans DEF ReadAs
<1> HIDE DEF payload
<1>2. Ends(payload) = {Len(payload)}
  BY <1>1, EndsAre
<1> QED BY <1>1, <1>2 DEF Meaning, payload

\* A frame that was encoded is refused when it is cut.
LEMMA BuiltIsCutSafe == PubInv => CutIsRefused
<1> SUFFICES ASSUME PubInv, pc = "built"
             PROVE  /\ \A n \in 0 .. Len(frame) - 1 : DecodeFrame(SubSeq(frame, 1, n)) = {}
                    /\ \A n \in 0 .. Len(frame) - L2Length(identity.params) - 1 :
                         DecodeL2Stripped(SubSeq(Payload(identity, frame), 1, n)) = {}
  BY DEF CutIsRefused
<1> DEFINE payload == Payload(identity, frame)
           h == L2Length(identity.params)
<1>1. /\ IsBytes(frame) /\ IsBytes(payload) /\ h + Len(payload) = Len(frame)
      /\ ReadItems(TypeRead(frame), 14).pos = Len(frame)
      /\ ReadItems(Reader(payload), 14).pos = Len(payload)
  BY BuiltMeans DEF ReadAs
<1>2. h \in Nat
  BY DEF L2Length
<1> HIDE DEF payload, h
<1>3. Len(frame) \in Nat /\ Len(payload) \in Nat
  BY <1>1, CatBytes
<1>4. \A n \in 0 .. Len(frame) - 1 : n \in Nat /\ n <= Len(frame) /\ ~(Len(frame) <= n)
  BY <1>3
<1>5. \A n \in 0 .. Len(frame) - h - 1 : n \in Nat /\ n <= Len(payload) /\ ~(Len(payload) <= n)
  BY <1>1, <1>2, <1>3
<1>6. ASSUME NEW n \in 0 .. Len(frame) - 1
      PROVE  DecodeFrame(SubSeq(frame, 1, n)) = {}
  <2> DEFINE c == SubSeq(frame, 1, n)
  <2>1. IsCut(c, frame) /\ Len(c) = n
    BY <1>1, <1>4, PrefixIsCut
  <2> HIDE DEF c
  <2>2. ~(Len(frame) <= Len(c))
    BY <1>4, <2>1
  <2>3. DecodeFrame(c) = {}
    BY <1>1, <2>1, <2>2, CutFrame
  <2> QED BY <2>3 DEF c
<1>7. ASSUME NEW n \in 0 .. Len(frame) - h - 1
      PROVE  DecodeL2Stripped(SubSeq(payload, 1, n)) = {}
  <2> DEFINE c == SubSeq(payload, 1, n)
  <2>1. IsCut(c, payload) /\ Len(c) = n
    BY <1>1, <1>5, PrefixIsCut
  <2> HIDE DEF c
  <2>2. ~(Len(payload) <= Len(c))
    BY <1>5, <2>1
  <2>3. DecodeL2Stripped(c) = {}
    BY <1>1, <2>1, <2>2, CutPayload
  <2> QED BY <2>3 DEF c
<1> QED BY <1>6, <1>7 DEF payload, h

\* Every frame the publisher builds, for every invocation and vendor file and every
\* number of ticks, is decoded by svdc-ingress to exactly the ASDU and the parameters it
\* was made of: encode_frame and decode_frame agree on every name, counter, revision,
\* rate, value and quality.
THEOREM FramesDecodeAsMeant == Spec => []DecodesAsMeant
BY PublisherInvariant, BuiltIsDecoded, PTL

\* No proper prefix of a frame, with its Ethernet header or without, is decoded to a
\* tick: a short read is an error and never samples of zeros.
THEOREM CutFramesAreRefused == Spec => []CutIsRefused
BY PublisherInvariant, BuiltIsCutSafe, PTL

\* The publisher panics only for a duration that no Duration holds, for a rate of 0 from
\* a vendor file, for an svID that leaves the frame no room, for a word of its command line
\* that is no Unicode, or for a standard stream that refuses what it prints.
THEOREM AbortsOnlyForCause == Spec => []AbortsOnlyWhen
<1>1. PubInv => AbortsOnlyWhen
  BY DEF PubInv
<1> QED BY <1>1, PublisherInvariant, PTL

-------------------------------------------------------------------------------
(* Paths of names and the cast of an id. *)

\* A sequence with one more element, element by element.
LEMMA AppendedIs ==
  ASSUME NEW S, NEW s \in Seq(S), NEW e \in S, NEW t \in Seq(S), NEW n \in Nat,
         NEW m, m = n + 1, Len(s) = n, Len(t) = m, \A i \in 1 .. n : t[i] = s[i], t[m] = e
  PROVE  Append(s, e) = t
<1>1. /\ Append(s, e) \in Seq(S) /\ Len(Append(s, e)) = Len(s) + 1
      /\ \A i \in 1 .. Len(s) : Append(s, e)[i] = s[i]
      /\ Append(s, e)[Len(s) + 1] = e
  BY AppendProperties
<1>2. Len(Append(s, e)) = Len(t)
  BY <1>1
<1>3. \A i \in 1 .. Len(t) : Append(s, e)[i] = t[i]
  BY <1>1
<1> QED BY <1>1, <1>2, <1>3, SeqEqual

\* A path of two names and one more.
LEMMA Appended2 ==
  ASSUME NEW a, NEW b, NEW c
  PROVE  Append(<<a, b>>, c) = <<a, b, c>>
<1> DEFINE S == {a, b, c}
           s == <<a, b>>
           t == <<a, b, c>>
<1>1. a \in S /\ b \in S /\ c \in S
  OBVIOUS
<1> HIDE DEF S
<1>2. s \in Seq(S) /\ Len(s) = 2 /\ s[1] = a /\ s[2] = b
  BY <1>1
<1>3. t \in Seq(S) /\ Len(t) = 3 /\ t[1] = a /\ t[2] = b /\ t[3] = c
  BY <1>1
<1> HIDE DEF s, t
<1>4. \A i \in 1 .. 2 : i = 1 \/ i = 2
  OBVIOUS
<1>5. \A i \in 1 .. 2 : t[i] = s[i]
  BY <1>2, <1>3, <1>4
<1> DEFINE n == 2
           m == 3
<1>6. /\ n \in Nat /\ m = n + 1 /\ Len(s) = n /\ Len(t) = m /\ t[m] = c
      /\ \A i \in 1 .. n : t[i] = s[i]
  BY <1>2, <1>3, <1>5
<1> HIDE DEF n, m
<1>7. s \in Seq(S) /\ t \in Seq(S) /\ c \in S
  BY <1>1, <1>2, <1>3
<1>8. Append(s, c) = t
  BY <1>6, <1>7, AppendedIs
<1> QED BY <1>8 DEF s, t

\* A path of three names and one more.
LEMMA Appended3 ==
  ASSUME NEW a, NEW b, NEW c, NEW d
  PROVE  Append(<<a, b, c>>, d) = <<a, b, c, d>>
<1> DEFINE S == {a, b, c, d}
           s == <<a, b, c>>
           t == <<a, b, c, d>>
<1>1. a \in S /\ b \in S /\ c \in S /\ d \in S
  OBVIOUS
<1> HIDE DEF S
<1>2. s \in Seq(S) /\ Len(s) = 3 /\ s[1] = a /\ s[2] = b /\ s[3] = c
  BY <1>1
<1>3. t \in Seq(S) /\ Len(t) = 4 /\ t[1] = a /\ t[2] = b /\ t[3] = c /\ t[4] = d
  BY <1>1
<1> HIDE DEF s, t
<1>4. \A i \in 1 .. 3 : i = 1 \/ i = 2 \/ i = 3
  OBVIOUS
<1>5. \A i \in 1 .. 3 : t[i] = s[i]
  BY <1>2, <1>3, <1>4
<1> DEFINE n == 3
           m == 4
<1>6. /\ n \in Nat /\ m = n + 1 /\ Len(s) = n /\ Len(t) = m /\ t[m] = d
      /\ \A i \in 1 .. n : t[i] = s[i]
  BY <1>2, <1>3, <1>5
<1> HIDE DEF n, m
<1>7. s \in Seq(S) /\ t \in Seq(S) /\ d \in S
  BY <1>1, <1>2, <1>3
<1>8. Append(s, d) = t
  BY <1>6, <1>7, AppendedIs
<1> QED BY <1>8 DEF s, t

\* A path of four names and one more.
LEMMA Appended4 ==
  ASSUME NEW a, NEW b, NEW c, NEW d, NEW e
  PROVE  Append(<<a, b, c, d>>, e) = <<a, b, c, d, e>>
<1> DEFINE S == {a, b, c, d, e}
           s == <<a, b, c, d>>
           t == <<a, b, c, d, e>>
<1>1. a \in S /\ b \in S /\ c \in S /\ d \in S /\ e \in S
  OBVIOUS
<1> HIDE DEF S
<1>2. s \in Seq(S) /\ Len(s) = 4 /\ s[1] = a /\ s[2] = b /\ s[3] = c /\ s[4] = d
  BY <1>1
<1>3. t \in Seq(S) /\ Len(t) = 5 /\ t[1] = a /\ t[2] = b /\ t[3] = c /\ t[4] = d /\ t[5] = e
  BY <1>1
<1> HIDE DEF s, t
<1>4. \A i \in 1 .. 4 : i = 1 \/ i = 2 \/ i = 3 \/ i = 4
  OBVIOUS
<1>5. \A i \in 1 .. 4 : t[i] = s[i]
  BY <1>2, <1>3, <1>4
<1> DEFINE n == 4
           m == 5
<1>6. /\ n \in Nat /\ m = n + 1 /\ Len(s) = n /\ Len(t) = m /\ t[m] = e
      /\ \A i \in 1 .. n : t[i] = s[i]
  BY <1>2, <1>3, <1>5
<1> HIDE DEF n, m
<1>7. s \in Seq(S) /\ t \in Seq(S) /\ e \in S
  BY <1>1, <1>2, <1>3
<1>8. Append(s, e) = t
  BY <1>6, <1>7, AppendedIs
<1> QED BY <1>8 DEF s, t

\* A path of five names and one more.
LEMMA Appended5 ==
  ASSUME NEW a, NEW b, NEW c, NEW d, NEW e, NEW f
  PROVE  Append(<<a, b, c, d, e>>, f) = <<a, b, c, d, e, f>>
<1> DEFINE S == {a, b, c, d, e, f}
           s == <<a, b, c, d, e>>
           t == <<a, b, c, d, e, f>>
<1>1. a \in S /\ b \in S /\ c \in S /\ d \in S /\ e \in S /\ f \in S
  OBVIOUS
<1> HIDE DEF S
<1>2. s \in Seq(S) /\ Len(s) = 5 /\ s[1] = a /\ s[2] = b /\ s[3] = c /\ s[4] = d /\ s[5] = e
  BY <1>1
<1>3. t \in Seq(S) /\ Len(t) = 6 /\ t[1] = a /\ t[2] = b /\ t[3] = c /\ t[4] = d /\ t[5] = e /\ t[6] = f
  BY <1>1
<1> HIDE DEF s, t
<1>4. \A i \in 1 .. 5 : i = 1 \/ i = 2 \/ i = 3 \/ i = 4 \/ i = 5
  OBVIOUS
<1>5. \A i \in 1 .. 5 : t[i] = s[i]
  BY <1>2, <1>3, <1>4
<1> DEFINE n == 5
           m == 6
<1>6. /\ n \in Nat /\ m = n + 1 /\ Len(s) = n /\ Len(t) = m /\ t[m] = f
      /\ \A i \in 1 .. n : t[i] = s[i]
  BY <1>2, <1>3, <1>5
<1> HIDE DEF n, m
<1>7. s \in Seq(S) /\ t \in Seq(S) /\ f \in S
  BY <1>1, <1>2, <1>3
<1>8. Append(s, f) = t
  BY <1>6, <1>7, AppendedIs
<1> QED BY <1>8 DEF s, t

\* A path of three names and two more.
LEMMA Joined32 ==
  ASSUME NEW a, NEW b, NEW c, NEW d, NEW e
  PROVE  <<a, b, c>> \o <<d, e>> = <<a, b, c, d, e>>
<1> DEFINE S == {a, b, c, d, e}
           s == <<a, b, c>>
           t == <<d, e>>
           u == <<a, b, c, d, e>>
<1>1. a \in S /\ b \in S /\ c \in S /\ d \in S /\ e \in S
  OBVIOUS
<1> HIDE DEF S
<1>2. s \in Seq(S) /\ Len(s) = 3 /\ s[1] = a /\ s[2] = b /\ s[3] = c
  BY <1>1
<1>3. t \in Seq(S) /\ Len(t) = 2 /\ t[1] = d /\ t[2] = e
  BY <1>1
<1>4. /\ u \in Seq(S) /\ Len(u) = 5
      /\ u[1] = a /\ u[2] = b /\ u[3] = c /\ u[4] = d /\ u[5] = e
  BY <1>1
<1> HIDE DEF s, t, u
<1>5. /\ s \o t \in Seq(S) /\ Len(s \o t) = Len(s) + Len(t)
      /\ \A i \in 1 .. Len(s) + Len(t) :
           (s \o t)[i] = IF i <= Len(s) THEN s[i] ELSE t[i - Len(s)]
  BY <1>2, <1>3, ConcatProperties
<1>6. Len(s \o t) = 5 /\ \A i \in 1 .. 5 : (s \o t)[i] = IF i <= 3 THEN s[i] ELSE t[i - 3]
  BY <1>2, <1>3, <1>5
<1>7. \A i \in 1 .. 5 : i = 1 \/ i = 2 \/ i = 3 \/ i = 4 \/ i = 5
  OBVIOUS
<1>8. \A i \in 1 .. 5 : (s \o t)[i] = u[i]
  BY <1>2, <1>3, <1>4, <1>6, <1>7
<1>9. s \o t = u
  BY <1>4, <1>5, <1>6, <1>8, SeqEqual
<1> QED BY <1>9 DEF s, t, u

\* A multiple of n leaves nothing over.
LEMMA Multiple ==
  ASSUME NEW n \in Nat \ {0}, NEW k \in Int
  PROVE  (n * k) % n = 0
<1> DEFINE x == n * k
           q == x \div n
           r == x % n
<1>1. x \in Int
  OBVIOUS
<1> HIDE DEF x
<1>2. q \in Int /\ r \in Int /\ 0 <= r /\ r <= n - 1 /\ x = n * q + r
  BY <1>1, SMT
<1> HIDE DEF q, r
<1>3. r = n * (k - q)
  BY <1>2, SMT DEF x
<1>4. k - q \in Int
  BY <1>2
<1>5. CASE k - q >= 1
  <2>1. n * (k - q) >= n
    BY <1>4, <1>5, SMT
  <2> QED BY <1>2, <1>3, <2>1
<1>6. CASE k - q <= -1
  <2>1. n * (k - q) <= -n
    BY <1>4, <1>6, SMT
  <2> QED BY <1>2, <1>3, <2>1
<1>7. CASE k - q = 0
  BY <1>3, <1>7 DEF r, x
<1> QED BY <1>4, <1>5, <1>6, <1>7

\* `as i32` keeps an id but for a multiple of 2^32.
LEMMA CastBack ==
  ASSUME NEW v \in Nat
  PROVE  (AsI32(v) - v) % (2 * (MaxI32 + 1)) = 0
<1> DEFINE n == 2 * (MaxI32 + 1)
           w == v + MaxI32 + 1
           q == w \div n
<1>1. n \in Nat \ {0} /\ w \in Int
  BY CastAssumption
<1>2. AsI32(v) - v = (w % n) - w
  <2>1. AsI32(v) = (w % n) - (MaxI32 + 1)
    BY DEF AsI32
  <2> HIDE DEF n
  <2>2. w % n \in Int
    BY <1>1
  <2> QED BY <2>1, <2>2, CastAssumption
<1> HIDE DEF n, w
<1>3. q \in Int /\ w % n \in Int /\ w = n * q + (w % n)
  BY <1>1, SMT
<1> HIDE DEF q
<1>4. (w % n) - w = n * (-q)
  BY <1>1, <1>3, SMT
<1>5. -q \in Int
  BY <1>3
<1>6. (n * (-q)) % n = 0
  BY <1>1, <1>5, Multiple
<1> QED BY <1>2, <1>4, <1>6 DEF n

-------------------------------------------------------------------------------
(* From the sample to the OPC UA client. *)

\* The nodes of the daemon's one unit: a channel's variables and the unit's own.
LeafId(c, leaf) == Append(Channel(c), leaf)
StatusId(leaf) == <<"Substations", "Demo", "SVDC_DEMO_PB_MU", "TickStatus", leaf>>
Ids == {LeafId(c, leaf) : c \in 1 .. Channels, leaf \in ChannelLeaves}
       \cup {StatusId(leaf) : leaf \in StatusLeaves}

\* The daemon serves one unit, with the eight channels of the reference layout.
LEMMA TheUnit ==
  /\ Range(Mus) = {Reference("SVDC_DEMO_PB_MU")}
  /\ Reference("SVDC_DEMO_PB_MU").svId = "SVDC_DEMO_PB_MU"
  /\ Reference("SVDC_DEMO_PB_MU").channels = ReferenceChannels
  /\ DOMAIN ReferenceChannels = 1 .. Channels
<1>1. Range(Mus) = {Reference("SVDC_DEMO_PB_MU")}
  <2>1. \A x : Range(<<x>>) = {x}
    BY DEF Range
  <2> QED BY <2>1 DEF Mus
<1>2. DOMAIN ReferenceChannels = 1 .. Channels
  BY DEF ReferenceChannels, Channels
<1> QED BY <1>1, <1>2 DEF Reference

\* The variables of the address space that build_nodes lists are these and no others.
LEMMA NodeIds == {n.id : n \in {m \in Nodes : m.kind = "variable"}} = Ids
<1> DEFINE mu == Reference("SVDC_DEMO_PB_MU")
           folder == <<"Substations", "Demo">>
           unit == <<"Substations", "Demo", "SVDC_DEMO_PB_MU">>
           registry == <<"Substations", "Demo", "SVDC_DEMO_PB_MU", "ChannelRegistry">>
           status == <<"Substations", "Demo", "SVDC_DEMO_PB_MU", "TickStatus">>
<1>1. /\ Append(folder, "SVDC_DEMO_PB_MU") = unit
      /\ Append(unit, "ChannelRegistry") = registry
      /\ Append(unit, "TickStatus") = status
      /\ \A c : Append(registry, <<c - 1, ReferenceChannels[c]>>) = Channel(c)
      /\ \A leaf : Append(status, leaf) = StatusId(leaf)
  BY Appended2, Appended3, Appended4 DEF Channel, StatusId
<1>2. MuNodes(folder, mu) =
        {Node(unit, "object"), Node(registry, "folder"), Node(status, "folder")}
        \cup ChannelNodes(registry, ReferenceChannels) \cup Variables(status, StatusLeaves)
  BY <1>1, TheUnit DEF MuNodes
<1>3. ChannelNodes(registry, ReferenceChannels) =
        UNION {{Node(Channel(c), "object")} \cup Variables(Channel(c), ChannelLeaves) : c \in 1 .. Channels}
  BY <1>1, TheUnit DEF ChannelNodes
<1>4. Nodes = {Node(<<"Substations">>, "folder"), Node(folder, "folder")} \cup MuNodes(folder, mu)
  BY TheUnit DEF Nodes, BuildNodes
<1>5. \A leaf : Node(Append(status, leaf), "variable") = Node(StatusId(leaf), "variable")
  BY <1>1
<1> HIDE DEF mu, folder, unit, registry, status
<1>6. ASSUME NEW n \in Nodes, n.kind = "variable"
      PROVE  n.id \in Ids
  <2>1. \A id : Node(id, "folder").kind # "variable" /\ Node(id, "object").kind # "variable"
    BY DEF Node
  <2>2. \/ n \in Variables(status, StatusLeaves)
        \/ \E c \in 1 .. Channels : n \in Variables(Channel(c), ChannelLeaves)
    BY <1>2, <1>3, <1>4, <1>6, <2>1
  <2>3. \A id : Node(id, "variable").id = id
    BY DEF Node
  <2>4. CASE n \in Variables(status, StatusLeaves)
    <3>1. PICK leaf \in StatusLeaves : n = Node(Append(status, leaf), "variable")
      BY <2>4 DEF Variables
    <3>2. n.id = StatusId(leaf)
      BY <1>1, <2>3, <3>1
    <3> QED BY <3>2 DEF Ids
  <2>5. ASSUME NEW c \in 1 .. Channels, n \in Variables(Channel(c), ChannelLeaves)
        PROVE  n.id \in Ids
    <3>1. PICK leaf \in ChannelLeaves : n = Node(Append(Channel(c), leaf), "variable")
      BY <2>5 DEF Variables
    <3>2. n.id = LeafId(c, leaf)
      BY <2>3, <3>1 DEF LeafId
    <3> QED BY <3>2 DEF Ids
  <2> QED BY <2>2, <2>4, <2>5
<1>7. ASSUME NEW id \in Ids
      PROVE  \E n \in Nodes : n.kind = "variable" /\ n.id = id
  <2>1. Node(id, "variable").kind = "variable" /\ Node(id, "variable").id = id
    BY DEF Node
  <2>2. Variables(status, StatusLeaves) \subseteq Nodes
    BY <1>2, <1>4
  <2>3. \A c \in 1 .. Channels : Variables(Channel(c), ChannelLeaves) \subseteq Nodes
    BY <1>2, <1>3, <1>4
  <2>4. ASSUME NEW leaf \in StatusLeaves, id = StatusId(leaf)
        PROVE  Node(id, "variable") \in Nodes
    <3>1. Node(Append(status, leaf), "variable") \in Variables(status, StatusLeaves)
      BY DEF Variables
    <3>2. Append(status, leaf) = id
      BY <1>1, <2>4
    <3> QED BY <2>2, <3>1, <3>2
  <2>5. ASSUME NEW c \in 1 .. Channels, NEW leaf \in ChannelLeaves, id = LeafId(c, leaf)
        PROVE  Node(id, "variable") \in Nodes
    <3>1. Node(id, "variable") \in Variables(Channel(c), ChannelLeaves)
      BY <2>5 DEF Variables, LeafId
    <3> QED BY <2>3, <3>1
  <2>6. \/ \E leaf \in StatusLeaves : id = StatusId(leaf)
        \/ \E c \in 1 .. Channels, leaf \in ChannelLeaves : id = LeafId(c, leaf)
    BY DEF Ids
  <2>7. Node(id, "variable") \in Nodes
    BY <2>4, <2>5, <2>6
  <2> QED BY <2>1, <2>7
<1> QED BY <1>6, <1>7

-------------------------------------------------------------------------------
\* What is written for a channel and for the unit.
Sampled(s, c) == IF c \in DOMAIN s.samples THEN s.samples[c] ELSE Missing
Measured(s, c, type, v) ==
  [type |-> type, value |-> v,
   status |-> OriginOverride(BaseStatus(Sampled(s, c).quality), Sampled(s, c).origin),
   source |-> {UaTicks(s.ts)}]
ChannelValue(s, c, leaf) ==
  IF leaf = "instMag.i" THEN Measured(s, c, "Int32", Sampled(s, c).raw)
  ELSE IF leaf = "instMag.f" THEN Measured(s, c, "Float", Sampled(s, c).calibrated)
  ELSE IF leaf = "q" THEN Value("UInt16", Sampled(s, c).quality)
  ELSE IF leaf = "t" THEN Value("DateTime", UaTicks(s.ts))
  ELSE Value("Int32", AsI32(s.tickId))
StatusValue(s, leaf) ==
  IF leaf = "last_tick_id" THEN Value("UInt64", s.tickId)
  ELSE IF leaf = "last_ts_utc_ns" THEN Value("UInt64", s.ts)
  ELSE Value("UInt16", s.nChannels)

\* What the nodes hold once the snapshot s was written to them.
Holds(values, s) ==
  /\ \A c \in 1 .. Channels, leaf \in ChannelLeaves : values[LeafId(c, leaf)] = ChannelValue(s, c, leaf)
  /\ \A leaf \in StatusLeaves : values[StatusId(leaf)] = StatusValue(s, leaf)

\* A record or a snapshot of all the channels.
HasChannels(x) == DOMAIN x.samples = 1 .. Channels
\* The record t, or the snapshot s, says what the sender of h meant.
SentTick(t, h) ==
  /\ t.id = h.id /\ t.ts = h.ts /\ Len(t.samples) = Channels
  /\ \A c \in 1 .. Channels : /\ t.samples[c].value = h.samples[c].value
                              /\ t.samples[c].quality = h.samples[c].quality % 256
SentSnap(s, h) ==
  /\ s.tickId = h.id /\ s.ts = h.ts /\ s.nChannels = Channels
  /\ \A c \in 1 .. Channels : /\ s.samples[c].raw = h.samples[c].value
                              /\ s.samples[c].quality = h.samples[c].quality % 256

\* The inductive invariant of the sample's way: every datagram on the wire says what its
\* sender meant, or nothing; the record, the daemon's snapshot and the snapshot it showed
\* last each are of one tick that was heard, as long as no record was corrupted; and all
\* the nodes show that one snapshot.
ViewInv ==
  /\ nextId \in Nat /\ \A h \in heard : h.id \in Nat
  /\ \A d \in wire : Decoded(d.bytes) \subseteq {d.asdu}
  /\ \A t \in record : record = {t} /\ HasChannels(t) /\ (bent = 0 => \E h \in heard : SentTick(t, h))
  /\ \/ latest = NoSnapshot
     \/ HasChannels(latest) /\ (bent = 0 => \E h \in heard : SentSnap(latest, h))
  /\ DOMAIN ua = Ids
  /\ \A s \in shown : HasChannels(s) /\ Holds(ua, s) /\ (bent = 0 => \E h \in heard : SentSnap(s, h))

\* The values that are written for one channel.
LEMMA ChannelUpdatesAre ==
  ASSUME NEW s, NEW c \in 1 .. Channels
  PROVE  ChannelUpdates(Reference("SVDC_DEMO_PB_MU"), c, s) =
           {Update(LeafId(c, leaf), ChannelValue(s, c, leaf)) : leaf \in ChannelLeaves}
<1> DEFINE mu == Reference("SVDC_DEMO_PB_MU")
           id == Channel(c)
           up(leaf) == Update(Append(id, leaf), ChannelValue(s, c, leaf))
<1>1. UpdatePrefix(mu) \o <<"ChannelRegistry", <<c - 1, mu.channels[c]>>>> = id
  <2> DEFINE name == <<c - 1, ReferenceChannels[c]>>
  <2>1. UpdatePrefix(mu) = <<"Substations", "Demo", "SVDC_DEMO_PB_MU">>
    BY TheUnit DEF UpdatePrefix
  <2>2. <<c - 1, mu.channels[c]>> = name
    BY TheUnit
  <2>3. id = <<"Substations", "Demo", "SVDC_DEMO_PB_MU", "ChannelRegistry", name>>
    BY DEF Channel
  <2> HIDE DEF mu, id, name
  <2>4. <<"Substations", "Demo", "SVDC_DEMO_PB_MU">> \o <<"ChannelRegistry", name>> = id
    BY <2>3, Joined32, Zenon
  <2> QED BY <2>1, <2>2, <2>4, Zenon
<1>2. /\ ChannelValue(s, c, "instMag.i") = Measured(s, c, "Int32", Sampled(s, c).raw)
      /\ ChannelValue(s, c, "instMag.f") = Measured(s, c, "Float", Sampled(s, c).calibrated)
      /\ ChannelValue(s, c, "q") = Value("UInt16", Sampled(s, c).quality)
      /\ ChannelValue(s, c, "t") = Value("DateTime", UaTicks(s.ts))
      /\ ChannelValue(s, c, "tick_id") = Value("Int32", AsI32(s.tickId))
  BY DEF ChannelValue
<1>3. ChannelUpdates(mu, c, s) =
        {Update(Append(id, "instMag.i"), Measured(s, c, "Int32", Sampled(s, c).raw)),
         Update(Append(id, "instMag.f"), Measured(s, c, "Float", Sampled(s, c).calibrated)),
         Update(Append(id, "q"), Value("UInt16", Sampled(s, c).quality)),
         Update(Append(id, "t"), Value("DateTime", UaTicks(s.ts))),
         Update(Append(id, "tick_id"), Value("Int32", AsI32(s.tickId)))}
  BY <1>1, Zenon DEF ChannelUpdates, Measured, Sampled
<1> HIDE DEF mu, id
<1>4. ChannelUpdates(mu, c, s) = {up("instMag.i"), up("instMag.f"), up("q"), up("t"), up("tick_id")}
  BY <1>2, <1>3, Zenon
<1> HIDE DEF up
<1>5. ChannelUpdates(mu, c, s) = {up(leaf) : leaf \in ChannelLeaves}
  BY <1>4 DEF ChannelLeaves
<1> QED BY <1>5 DEF up, id, mu, LeafId

\* And for the unit.
LEMMA StatusUpdatesAre ==
  ASSUME NEW s
  PROVE  StatusUpdates(Reference("SVDC_DEMO_PB_MU"), s) =
           {Update(StatusId(leaf), StatusValue(s, leaf)) : leaf \in StatusLeaves}
<1> DEFINE mu == Reference("SVDC_DEMO_PB_MU")
           status == <<"Substations", "Demo", "SVDC_DEMO_PB_MU", "TickStatus">>
           up(leaf) == Update(StatusId(leaf), StatusValue(s, leaf))
<1>1. Append(UpdatePrefix(mu), "TickStatus") = status
  BY TheUnit, Appended3 DEF UpdatePrefix
<1>2. \A leaf : Append(status, leaf) = StatusId(leaf)
  BY Appended4 DEF StatusId
<1> HIDE DEF mu, status
<1>3. /\ StatusValue(s, "last_tick_id") = Value("UInt64", s.tickId)
      /\ StatusValue(s, "last_ts_utc_ns") = Value("UInt64", s.ts)
      /\ StatusValue(s, "n_channels") = Value("UInt16", s.nChannels)
  BY DEF StatusValue
<1>4. StatusUpdates(mu, s) = {Update(StatusId("last_tick_id"), Value("UInt64", s.tickId)),
                              Update(StatusId("last_ts_utc_ns"), Value("UInt64", s.ts)),
                              Update(StatusId("n_channels"), Value("UInt16", s.nChannels))}
  BY <1>1, <1>2, Zenon DEF StatusUpdates
<1>5. StatusUpdates(mu, s) = {up("last_tick_id"), up("last_ts_utc_ns"), up("n_channels")}
  BY <1>3, <1>4, Zenon
<1> HIDE DEF up
<1>6. StatusUpdates(mu, s) = {up(leaf) : leaf \in StatusLeaves}
  BY <1>5 DEF StatusLeaves
<1> QED BY <1>6 DEF up, mu

\* build_updates writes one value for every node, and for no other id.
LEMMA UpdatesAre ==
  ASSUME NEW s
  PROVE  BuildUpdates(Mus, s) =
           {Update(LeafId(c, leaf), ChannelValue(s, c, leaf)) : c \in 1 .. Channels, leaf \in ChannelLeaves}
           \cup {Update(StatusId(leaf), StatusValue(s, leaf)) : leaf \in StatusLeaves}
<1> DEFINE mu == Reference("SVDC_DEMO_PB_MU")
           channel(c) == {Update(LeafId(c, leaf), ChannelValue(s, c, leaf)) : leaf \in ChannelLeaves}
           status == {Update(StatusId(leaf), StatusValue(s, leaf)) : leaf \in StatusLeaves}
<1>1. \A c \in 1 .. Channels : ChannelUpdates(mu, c, s) = channel(c)
  BY ChannelUpdatesAre
<1>2. StatusUpdates(mu, s) = status
  BY StatusUpdatesAre
<1>3. DOMAIN mu.channels = 1 .. Channels /\ Range(Mus) = {mu}
  BY TheUnit
<1> HIDE DEF mu
<1>4. BuildUpdates(Mus, s) = StatusUpdates(mu, s) \cup UNION {ChannelUpdates(mu, c, s) : c \in 1 .. Channels}
  <2> DEFINE unit(m) == StatusUpdates(m, s) \cup UNION {ChannelUpdates(m, c, s) : c \in DOMAIN m.channels}
  <2>1. BuildUpdates(Mus, s) = UNION {unit(m) : m \in Range(Mus)}
    BY DEF BuildUpdates
  <2>2. unit(mu) = StatusUpdates(mu, s) \cup UNION {ChannelUpdates(mu, c, s) : c \in 1 .. Channels}
    BY <1>3, Zenon
  <2> HIDE DEF unit
  <2>3. BuildUpdates(Mus, s) = unit(mu)
    BY <1>3, <2>1
  <2> QED BY <2>2, <2>3
<1> HIDE DEF status
<1>5. UNION {ChannelUpdates(mu, c, s) : c \in 1 .. Channels} = UNION {channel(c) : c \in 1 .. Channels}
  BY <1>1
<1>6. UNION {channel(c) : c \in 1 .. Channels} =
        {Update(LeafId(c, leaf), ChannelValue(s, c, leaf)) : c \in 1 .. Channels, leaf \in ChannelLeaves}
  OBVIOUS
<1> QED BY <1>2, <1>4, <1>5, <1>6 DEF status

\* The path of a channel's variable.
LEMMA LeafIdIs ==
  ASSUME NEW c, NEW leaf
  PROVE  LeafId(c, leaf) = <<"Substations", "Demo", "SVDC_DEMO_PB_MU", "ChannelRegistry",
                             <<c - 1, ReferenceChannels[c]>>, leaf>>
BY Appended5 DEF LeafId, Channel

\* No two of the nodes share an id.
LEMMA IdsDiffer ==
  /\ \A c, d \in 1 .. Channels, leaf, l \in ChannelLeaves :
       LeafId(c, leaf) = LeafId(d, l) => c = d /\ leaf = l
  /\ \A leaf, l \in StatusLeaves : StatusId(leaf) = StatusId(l) => leaf = l
  /\ \A c \in 1 .. Channels, leaf \in ChannelLeaves, l \in StatusLeaves : LeafId(c, leaf) # StatusId(l)
<1>1. ASSUME NEW c \in 1 .. Channels, NEW d \in 1 .. Channels, NEW leaf, NEW l,
             LeafId(c, leaf) = LeafId(d, l)
      PROVE  c = d /\ leaf = l
  <2>1. <<"Substations", "Demo", "SVDC_DEMO_PB_MU", "ChannelRegistry",
          <<c - 1, ReferenceChannels[c]>>, leaf>> =
        <<"Substations", "Demo", "SVDC_DEMO_PB_MU", "ChannelRegistry",
          <<d - 1, ReferenceChannels[d]>>, l>>
    BY <1>1, LeafIdIs
  <2>2. leaf = l /\ <<c - 1, ReferenceChannels[c]>> = <<d - 1, ReferenceChannels[d]>>
    BY <2>1
  <2>3. c - 1 = d - 1
    BY <2>2
  <2> QED BY <2>2, <2>3 DEF Channels
<1>2. ASSUME NEW leaf, NEW l, StatusId(leaf) = StatusId(l)
      PROVE  leaf = l
  BY <1>2 DEF StatusId
<1>3. ASSUME NEW c, NEW leaf, NEW l
      PROVE  LeafId(c, leaf) # StatusId(l)
  <2>1. Len(LeafId(c, leaf)) = 6 /\ Len(StatusId(l)) = 5
    BY LeafIdIs DEF StatusId
  <2> QED BY <2>1
<1> QED BY <1>1, <1>2, <1>3

\* A value for an id that only one update names is what its node is given.
LEMMA SetValueIs ==
  ASSUME NEW values, NEW updates, NEW id \in DOMAIN values, NEW value,
         Update(id, value) \in updates, \A u \in updates : u.id = id => u.value = value
  PROVE  SetValues(values, updates)[id] = value
<1>1. Update(id, value).id = id
  BY DEF Update
<1>2. \E u \in updates : u.id = id
  BY <1>1
<1>3. (CHOOSE u \in updates : u.id = id) \in updates /\ (CHOOSE u \in updates : u.id = id).id = id
  BY <1>2
<1>4. (CHOOSE u \in updates : u.id = id).value = value
  BY <1>3
<1> QED BY <1>2, <1>4 DEF SetValues

\* Every node there is shows the snapshot that was written.
LEMMA WrittenHolds ==
  ASSUME NEW values, DOMAIN values = Ids, NEW s
  PROVE  /\ DOMAIN SetValues(values, BuildUpdates(Mus, s)) = Ids
         /\ Holds(SetValues(values, BuildUpdates(Mus, s)), s)
<1> DEFINE updates == BuildUpdates(Mus, s)
<1>1. \A u : u \in updates <=>
        \/ \E c \in 1 .. Channels, leaf \in ChannelLeaves : u = Update(LeafId(c, leaf), ChannelValue(s, c, leaf))
        \/ \E leaf \in StatusLeaves : u = Update(StatusId(leaf), StatusValue(s, leaf))
  BY UpdatesAre
<1> HIDE DEF updates
<1>2. \A id, value : Update(id, value).id = id /\ Update(id, value).value = value
  BY DEF Update
<1>3. ASSUME NEW c \in 1 .. Channels, NEW leaf \in ChannelLeaves
      PROVE  SetValues(values, updates)[LeafId(c, leaf)] = ChannelValue(s, c, leaf)
  <2>1. LeafId(c, leaf) \in DOMAIN values
    BY DEF Ids
  <2>2. Update(LeafId(c, leaf), ChannelValue(s, c, leaf)) \in updates
    BY <1>1
  <2>3. ASSUME NEW u \in updates, u.id = LeafId(c, leaf)
        PROVE  u.value = ChannelValue(s, c, leaf)
    <3>1. ASSUME NEW d \in 1 .. Channels, NEW l \in ChannelLeaves,
                 u = Update(LeafId(d, l), ChannelValue(s, d, l))
          PROVE  u.value = ChannelValue(s, c, leaf)
      <4>1. LeafId(d, l) = LeafId(c, leaf)
        BY <1>2, <2>3, <3>1
      <4>2. d = c /\ l = leaf
        BY <4>1, IdsDiffer
      <4> QED BY <1>2, <3>1, <4>2
    <3>2. ASSUME NEW l \in StatusLeaves, u = Update(StatusId(l), StatusValue(s, l))
          PROVE  FALSE
      <4>1. StatusId(l) = LeafId(c, leaf)
        BY <1>2, <2>3, <3>2
      <4> QED BY <4>1, IdsDiffer
    <3> QED BY <1>1, <3>1, <3>2
  <2> QED BY <2>1, <2>2, <2>3, SetValueIs
<1>4. ASSUME NEW leaf \in StatusLeaves
      PROVE  SetValues(values, updates)[StatusId(leaf)] = StatusValue(s, leaf)
  <2>1. StatusId(leaf) \in DOMAIN values
    BY DEF Ids
  <2>2. Update(StatusId(leaf), StatusValue(s, leaf)) \in updates
    BY <1>1
  <2>3. ASSUME NEW u \in updates, u.id = StatusId(leaf)
        PROVE  u.value = StatusValue(s, leaf)
    <3>1. ASSUME NEW d \in 1 .. Channels, NEW l \in ChannelLeaves,
                 u = Update(LeafId(d, l), ChannelValue(s, d, l))
          PROVE  FALSE
      <4>1. LeafId(d, l) = StatusId(leaf)
        BY <1>2, <2>3, <3>1
      <4> QED BY <4>1, IdsDiffer
    <3>2. ASSUME NEW l \in StatusLeaves, u = Update(StatusId(l), StatusValue(s, l))
          PROVE  u.value = StatusValue(s, leaf)
      <4>1. StatusId(l) = StatusId(leaf)
        BY <1>2, <2>3, <3>2
      <4>2. l = leaf
        BY <4>1, IdsDiffer
      <4> QED BY <1>2, <3>2, <4>2
    <3> QED BY <1>1, <3>1, <3>2
  <2> QED BY <2>1, <2>2, <2>3, SetValueIs
<1>5. DOMAIN SetValues(values, updates) = Ids
  BY DEF SetValues
<1> QED BY <1>3, <1>4, <1>5 DEF Holds, updates

-------------------------------------------------------------------------------
\* What a frame that was built says in UDP is what it is meant to say.
LEMMA BuiltSays ==
  ASSUME PubInv, pc = "built"
  PROVE  Decoded(Datagram(frame, Only(meant)).bytes) \subseteq {Datagram(frame, Only(meant)).asdu}
<1> DEFINE payload == Payload(identity, frame)
<1>1. DecodeL2Stripped(payload) = {Meaning(identity.params.appid, Len(payload), Only(meant))}
  BY BuiltMeans DEF ReadAs
<1>2. Meaning(identity.params.appid, Len(payload), Only(meant)).asdu = Only(meant)
  BY DEF Meaning
<1>3. Decoded(payload) = {Only(meant)}
  BY <1>1, <1>2 DEF Decoded
<1> QED BY <1>3 DEF Datagram

\* The invariant holds before anything was sent.
LEMMA ViewInvInit ==
  ASSUME Init
  PROVE  ViewInv
<1>1. nextId = 0 /\ record = {} /\ heard = {} /\ bent = 0 /\ latest = NoSnapshot /\ shown = {}
  BY DEF Init
<1>2. wire = {}
  BY DEF Init, PublisherInit
<1>3. DOMAIN ua = Ids
  <2>1. ua = Populate(Nodes)
    BY DEF Init
  <2>2. DOMAIN Populate(Nodes) = {n.id : n \in {m \in Nodes : m.kind = "variable"}}
    BY DEF Populate
  <2> QED BY <2>1, <2>2, NodeIds
<1> QED BY <1>1, <1>2, <1>3 DEF ViewInv

\* The publisher changes nothing of the daemon's and sends what it means.
LEMMA PublisherView ==
  ASSUME PubInv, ViewInv, PublisherNext, UNCHANGED daemonVars
  PROVE  ViewInv'
<1>1. UNCHANGED <<nextId, record, heard, bent, latest, shown, ua>>
  BY DEF daemonVars
<1>2. ASSUME NEW d \in wire'
      PROVE  Decoded(d.bytes) \subseteq {d.asdu}
  <2>1. CASE d \in wire
    BY <2>1 DEF ViewInv
  <2>2. CASE d \notin wire
    <3>1. Emit
      BY <2>2 DEF PublisherNext, Start, Configure, Open, OpenFails, BuildFrame, EmitFails, Finish
    <3>2. pc = "built" /\ d = Datagram(frame, Only(meant))
      BY <2>2, <3>1 DEF Emit
    <3> QED BY <3>2, BuiltSays
  <2> QED BY <2>1, <2>2
<1> QED BY <1>1, <1>2 DEF ViewInv, Holds, SentTick, SentSnap, HasChannels

\* What the aligner makes of a sample.
LEMMA ProcessedIs ==
  ASSUME NEW id, NEW ts, NEW asdu
  PROVE  /\ ProcessFrame(id, ts, asdu).id = id /\ ProcessFrame(id, ts, asdu).ts = ts
         /\ HasChannels(ProcessFrame(id, ts, asdu))
         /\ SentTick(ProcessFrame(id, ts, asdu), [id |-> id, ts |-> ts, samples |-> asdu.samples])
<1> DEFINE samples == [c \in 1 .. Channels |->
                         Sample(asdu.samples[c].value, asdu.samples[c].quality % 256, Live)]
           tick == [Empty(id, ts) EXCEPT !.flags = {Complete}, !.samples = samples]
           t == ProcessFrame(id, ts, asdu)
           h == [id |-> id, ts |-> ts, samples |-> asdu.samples]
<1>1. tick.id = id /\ tick.ts = ts /\ tick.samples = samples
  BY DEF Empty
<1>2. t = StampCrc(tick)
  BY DEF ProcessFrame
<1>3. DOMAIN samples = 1 .. Channels /\ Len(samples) = Channels
  BY DEF Channels
<1>4. \A c \in 1 .. Channels : /\ samples[c].value = asdu.samples[c].value
                               /\ samples[c].quality = asdu.samples[c].quality % 256
  BY DEF Sample
<1>5. h.id = id /\ h.ts = ts /\ h.samples = asdu.samples
  OBVIOUS
<1> HIDE DEF samples, t, h
<1>6. DOMAIN tick = {"id", "ts", "flags", "crc", "samples"}
  BY DEF Empty
<1> HIDE DEF tick
<1>7. t.id = id /\ t.ts = ts /\ t.samples = samples
  BY <1>1, <1>2, <1>6 DEF StampCrc
<1>8. SentTick(t, h) /\ HasChannels(t)
  BY <1>3, <1>4, <1>5, <1>7 DEF SentTick, HasChannels
<1> QED BY <1>7, <1>8 DEF t, h

\* A datagram that is taken becomes the record of what its sender meant.
LEMMA ReceiveView ==
  ASSUME PubInv, ViewInv, Receive
  PROVE  ViewInv'
<1>1. PICK datagram \in wire \cup inv.others, ts \in Times :
        /\ received < inv.receives
        /\ received' = received + 1
        /\ LET decoded == Decoded(datagram.bytes)
           IN  \/ decoded = {} /\ UNCHANGED <<nextId, record, heard, bent>>
               \/ \E asdu \in decoded : \E tick \in {ProcessFrame(nextId, ts, asdu)} :
                    /\ record' = {tick}
                    /\ heard' = heard \cup {[id |-> nextId, ts |-> ts,
                                             samples |-> datagram.asdu.samples]}
                    /\ nextId' = nextId + 1
                    /\ bent' = IF bent = 0 THEN 0 ELSE 2
        /\ UNCHANGED <<publisherVars, latest, shown, ua>>
  BY Zenon DEF Receive
<1>2. UNCHANGED <<wire, latest, shown, ua>>
  BY <1>1 DEF publisherVars
<1>3. Decoded(datagram.bytes) \subseteq {datagram.asdu}
  <2>1. inv \in Invocations
    BY DEF PubInv
  <2> QED BY <2>1, OthersAssumption DEF ViewInv
<1>4. CASE UNCHANGED <<nextId, record, heard, bent>>
  BY <1>2, <1>4 DEF ViewInv, Holds
<1>5. ASSUME NEW asdu \in Decoded(datagram.bytes), record' = {ProcessFrame(nextId, ts, asdu)},
             heard' = heard \cup {[id |-> nextId, ts |-> ts, samples |-> datagram.asdu.samples]},
             nextId' = nextId + 1, bent' = IF bent = 0 THEN 0 ELSE 2
      PROVE  ViewInv'
  <2> DEFINE t == ProcessFrame(nextId, ts, asdu)
             h == [id |-> nextId, ts |-> ts, samples |-> asdu.samples]
  <2>1. asdu = datagram.asdu
    BY <1>3
  <2>2. HasChannels(t) /\ SentTick(t, h)
    BY ProcessedIs
  <2>3. h.id = nextId
    OBVIOUS
  <2>4. record' = {t} /\ heard' = heard \cup {h}
    BY <1>5, <2>1
  <2> HIDE DEF t, h
  <2>5. nextId' \in Nat /\ \A x \in heard' : x.id \in Nat
    BY <1>5, <2>3, <2>4 DEF ViewInv
  <2>6. \A x \in record' : record' = {x} /\ HasChannels(x) /\ \E y \in heard' : SentTick(x, y)
    BY <2>2, <2>4
  <2>7. bent' = 0 => bent = 0
    BY <1>5
  <2>8. \/ latest = NoSnapshot
        \/ HasChannels(latest) /\ (bent' = 0 => \E y \in heard' : SentSnap(latest, y))
    BY <2>4, <2>7 DEF ViewInv
  <2>9. \A s \in shown : HasChannels(s) /\ Holds(ua, s) /\ (bent' = 0 => \E y \in heard' : SentSnap(s, y))
    BY <2>4, <2>7 DEF ViewInv
  <2>10. \A d \in wire : Decoded(d.bytes) \subseteq {d.asdu}
    BY DEF ViewInv
  <2>11. DOMAIN ua = Ids
    BY DEF ViewInv
  <2> QED BY <1>2, <2>5, <2>6, <2>8, <2>9, <2>10, <2>11 DEF ViewInv, Holds
<1> QED BY <1>1, <1>4, <1>5

\* A bit that flips leaves a record of all the channels.
LEMMA CorruptView ==
  ASSUME ViewInv, Corrupt
  PROVE  ViewInv'
<1>1. PICK burst \in Bursts :
        record' = {[Only(record) EXCEPT
                      !.samples[burst.channel][burst.field] = Flip(@, burst.bits)]}
  BY DEF Corrupt
<1>2. bent' = 1 /\ UNCHANGED <<wire, nextId, heard, latest, shown, ua>>
  BY DEF Corrupt, publisherVars
<1>3. PICK t \in record : record = {t} /\ HasChannels(t)
  BY DEF Corrupt, ViewInv
<1>4. Only(record) = t
  BY <1>3 DEF Only
<1> DEFINE changed == [t EXCEPT !.samples[burst.channel][burst.field] = Flip(@, burst.bits)]
<1>5. record' = {changed}
  BY <1>1, <1>4
<1>6. DOMAIN changed.samples = DOMAIN t.samples
  OBVIOUS
<1> HIDE DEF changed
<1>7. HasChannels(changed)
  BY <1>3, <1>6 DEF HasChannels
<1>8. bent' # 0
  BY <1>2
<1>9. \A x \in record' : record' = {x} /\ HasChannels(x)
  BY <1>5, <1>7
<1> QED BY <1>2, <1>8, <1>9 DEF ViewInv, Holds

\* What the snapshot says is what the record does.
LEMMA SnapshotIs ==
  ASSUME NEW t, HasChannels(t)
  PROVE  /\ HasChannels(BuildSnapshot(t))
         /\ \A h : SentTick(t, h) => SentSnap(BuildSnapshot(t), h)
<1> DEFINE s == BuildSnapshot(t)
<1>1. /\ s.tickId = t.id /\ s.ts = t.ts /\ s.nChannels = Len(t.samples)
      /\ DOMAIN s.samples = DOMAIN t.samples
  BY DEF BuildSnapshot
<1>2. \A c \in DOMAIN t.samples : /\ s.samples[c].raw = t.samples[c].value
                                  /\ s.samples[c].quality = t.samples[c].quality
  BY DEF BuildSnapshot
<1> HIDE DEF s
<1>3. HasChannels(s)
  BY <1>1 DEF HasChannels
<1>4. ASSUME NEW h, SentTick(t, h)
      PROVE  SentSnap(s, h)
  BY <1>1, <1>2, <1>4 DEF SentTick, SentSnap, HasChannels
<1> QED BY <1>3, <1>4 DEF s

\* The daemon's snapshot is of the newest record.
LEMMA SnapshotView ==
  ASSUME ViewInv, Snapshot
  PROVE  ViewInv'
<1>1. UNCHANGED <<wire, nextId, record, heard, bent, shown, ua>>
  BY DEF Snapshot, publisherVars
<1>2. PICK t \in record : record = {t} /\ HasChannels(t) /\ (bent = 0 => \E h \in heard : SentTick(t, h))
  BY DEF Snapshot, ViewInv
<1>3. Only(record) = t
  BY <1>2 DEF Only
<1>4. latest' = BuildSnapshot(t)
  BY <1>3 DEF Snapshot
<1>5. HasChannels(latest') /\ (bent = 0 => \E h \in heard : SentSnap(latest', h))
  BY <1>2, <1>4, SnapshotIs
<1> QED BY <1>1, <1>5 DEF ViewInv, Holds

\* The nodes show the snapshot that is published, all of them.
LEMMA PublishView ==
  ASSUME ViewInv, PublishLatest
  PROVE  ViewInv'
<1>1. UNCHANGED <<wire, nextId, record, heard, bent, latest>>
  BY DEF PublishLatest, publisherVars
<1>2. shown' = {latest} /\ ua' = SetValues(ua, BuildUpdates(Mus, latest))
  BY DEF PublishLatest
<1>3. latest # NoSnapshot
  BY DEF PublishLatest, NoSnapshot
<1>4. DOMAIN ua' = Ids /\ Holds(ua', latest)
  BY <1>2, WrittenHolds DEF ViewInv
<1>5. HasChannels(latest) /\ (bent = 0 => \E h \in heard : SentSnap(latest, h))
  BY <1>3 DEF ViewInv
<1> QED BY <1>1, <1>2, <1>4, <1>5 DEF ViewInv, Holds

\* Every step keeps the invariant.
LEMMA ViewInvStep ==
  ASSUME PubInv, ViewInv, [Next]_vars
  PROVE  ViewInv'
<1>1. CASE PublisherNext /\ UNCHANGED daemonVars
  BY <1>1, PublisherView
<1>2. CASE Receive
  BY <1>2, ReceiveView
<1>3. CASE Corrupt
  BY <1>3, CorruptView
<1>4. CASE Snapshot
  BY <1>4, SnapshotView
<1>5. CASE PublishLatest
  BY <1>5, PublishView
<1>6. CASE UNCHANGED vars
  BY <1>6 DEF vars, publisherVars, daemonVars, ViewInv, Holds
<1> QED BY <1>1, <1>2, <1>3, <1>4, <1>5, <1>6 DEF Next

\* In every state the record, the snapshot and the values shown are of ticks that were
\* sent, and the nodes show one snapshot.
THEOREM ViewInvariant == Spec => []ViewInv
<1>1. Init => ViewInv
  BY ViewInvInit
<1>2. PubInv /\ ViewInv /\ [Next]_vars => ViewInv'
  BY ViewInvStep
<1> QED BY <1>1, <1>2, PublisherInvariant, PTL DEF Spec

\* A node's type is its leaf's, whatever was written.
LEMMA WrittenTypes ==
  ASSUME NEW values, NEW s, Holds(values, s), NEW id \in Ids
  PROVE  values[id].type = Declared(Last(id))
<1>1. ASSUME NEW c \in 1 .. Channels, NEW leaf \in ChannelLeaves, id = LeafId(c, leaf)
      PROVE  values[id].type = Declared(Last(id))
  <2>1. Last(id) = leaf
    BY <1>1, LeafIdIs DEF Last
  <2>2. values[id] = ChannelValue(s, c, leaf)
    BY <1>1 DEF Holds
  <2>3. ChannelValue(s, c, leaf).type = Declared(leaf)
    BY DEF ChannelValue, Measured, Value, Declared, ChannelLeaves
  <2> QED BY <2>1, <2>2, <2>3
<1>2. ASSUME NEW leaf \in StatusLeaves, id = StatusId(leaf)
      PROVE  values[id].type = Declared(Last(id))
  <2>1. Last(id) = leaf
    BY <1>2 DEF StatusId, Last
  <2>2. values[id] = StatusValue(s, leaf)
    BY <1>2 DEF Holds
  <2>3. StatusValue(s, leaf).type = Declared(leaf)
    BY DEF StatusValue, Value, Declared, StatusLeaves
  <2> QED BY <2>1, <2>2, <2>3
<1> QED BY <1>1, <1>2 DEF Ids

\* What a client reads of a channel and of the unit.
LEMMA ClientReads ==
  ASSUME NEW s, Holds(ua, s)
  PROVE  /\ \A c \in 1 .. Channels, leaf \in ChannelLeaves : Shows(c, leaf) = ChannelValue(s, c, leaf)
         /\ \A leaf \in StatusLeaves : Status(leaf) = StatusValue(s, leaf)
BY DEF Holds, Shows, Status, LeafId, StatusId

\* What the invariant says of the values shown.
LEMMA ViewShowsSent == ViewInv => ShownAsSent
<1> SUFFICES ASSUME ViewInv, shown # {}, bent = 0
             PROVE  /\ \A id \in DOMAIN ua : ua[id].type = Declared(Last(id))
                    /\ \E tick \in heard :
                         /\ Status("last_tick_id").value = tick.id
                         /\ Status("last_ts_utc_ns").value = tick.ts
                         /\ Status("n_channels").value = Channels
                         /\ \A c \in 1 .. Channels :
                              /\ Shows(c, "instMag.i").value = tick.samples[c].value
                              /\ Shows(c, "instMag.i").source = {Shows(c, "t").value}
                              /\ Shows(c, "instMag.f").source = {UaTicks(tick.ts)}
                              /\ Shows(c, "q").value = tick.samples[c].quality % 256
                              /\ (Shows(c, "tick_id").value - tick.id) % (2 * (MaxI32 + 1)) = 0
  BY DEF ShownAsSent
<1>1. PICK s \in shown : HasChannels(s) /\ Holds(ua, s) /\ \E h \in heard : SentSnap(s, h)
  BY DEF ViewInv
<1>2. PICK tick \in heard : SentSnap(s, tick) /\ tick.id \in Nat
  BY <1>1 DEF ViewInv
<1>3. \A id \in DOMAIN ua : ua[id].type = Declared(Last(id))
  BY <1>1, WrittenTypes DEF ViewInv
<1>4. /\ Status("last_tick_id").value = tick.id
      /\ Status("last_ts_utc_ns").value = tick.ts
      /\ Status("n_channels").value = Channels
  <2>1. /\ Status("last_tick_id") = StatusValue(s, "last_tick_id")
        /\ Status("last_ts_utc_ns") = StatusValue(s, "last_ts_utc_ns")
        /\ Status("n_channels") = StatusValue(s, "n_channels")
    BY <1>1, ClientReads DEF StatusLeaves
  <2> QED BY <1>2, <2>1 DEF StatusValue, Value, SentSnap
<1>5. ASSUME NEW c \in 1 .. Channels
      PROVE  /\ Shows(c, "instMag.i").value = tick.samples[c].value
             /\ Shows(c, "instMag.i").source = {Shows(c, "t").value}
             /\ Shows(c, "instMag.f").source = {UaTicks(tick.ts)}
             /\ Shows(c, "q").value = tick.samples[c].quality % 256
             /\ (Shows(c, "tick_id").value - tick.id) % (2 * (MaxI32 + 1)) = 0
  <2>1. /\ Shows(c, "instMag.i") = ChannelValue(s, c, "instMag.i")
        /\ Shows(c, "instMag.f") = ChannelValue(s, c, "instMag.f")
        /\ Shows(c, "q") = ChannelValue(s, c, "q")
        /\ Shows(c, "t") = ChannelValue(s, c, "t")
        /\ Shows(c, "tick_id") = ChannelValue(s, c, "tick_id")
    BY <1>1, ClientReads DEF ChannelLeaves
  <2>2. Sampled(s, c) = s.samples[c]
    BY <1>1 DEF Sampled, HasChannels
  <2>3. /\ s.samples[c].raw = tick.samples[c].value
        /\ s.samples[c].quality = tick.samples[c].quality % 256
        /\ s.ts = tick.ts /\ s.tickId = tick.id
    BY <1>2 DEF SentSnap
  <2>4. Shows(c, "instMag.i").value = tick.samples[c].value
    BY <2>1, <2>2, <2>3 DEF ChannelValue, Measured
  <2>5. Shows(c, "instMag.i").source = {Shows(c, "t").value}
    BY <2>1 DEF ChannelValue, Measured, Value
  <2>6. Shows(c, "instMag.f").source = {UaTicks(tick.ts)}
    BY <2>1, <2>3 DEF ChannelValue, Measured
  <2>7. Shows(c, "q").value = tick.samples[c].quality % 256
    BY <2>1, <2>2, <2>3 DEF ChannelValue, Value
  <2>8. Shows(c, "tick_id").value = AsI32(tick.id)
    BY <2>1, <2>3 DEF ChannelValue, Value
  <2>9. (Shows(c, "tick_id").value - tick.id) % (2 * (MaxI32 + 1)) = 0
    BY <1>2, <2>8, CastBack
  <2> QED BY <2>4, <2>5, <2>6, <2>7, <2>9
<1> QED BY <1>3, <1>4, <1>5

\* What a status says of the quality and the origin it was made of.
LEMMA StatusIs ==
  ASSUME NEW q, NEW origin
  PROVE  LET status == OriginOverride(BaseStatus(q), origin)
         IN  /\ BadCause(q) => Severity(status) = 2
             /\ UncertainCause(q, origin) => Severity(status) >= 1
             /\ Bit(q, 7) <=> status = "Bad_NoCommunication"
<1> DEFINE base == BaseStatus(q)
           status == OriginOverride(base, origin)
<1>1. BadCause(q) <=> IsBad(base)
  BY DEF BadCause, BaseStatus, IsBad
<1>2. Bit(q, 7) <=> base = "Bad_NoCommunication"
  BY DEF BaseStatus
<1>3. q % 4 = 3 => IsBad(base) \/ base = "Uncertain_LastUsableValue"
  BY DEF BaseStatus, IsBad
<1> HIDE DEF base
<1>4. IsBad(base) => status = base
  BY DEF OriginOverride
<1>5. ~IsBad(base) /\ origin = 2 => status = "Uncertain_InterpolatedValue"
  BY DEF OriginOverride
<1>6. ~IsBad(base) /\ origin = 3 => status = "Uncertain_LastUsableValue"
  BY DEF OriginOverride
<1>7. origin # 2 /\ origin # 3 => status = base
  BY DEF OriginOverride
<1> HIDE DEF status
<1>8. BadCause(q) => Severity(status) = 2
  BY <1>1, <1>4 DEF Severity
<1>9. UncertainCause(q, origin) => Severity(status) >= 1
  <2>1. CASE IsBad(base)
    BY <2>1, <1>4 DEF Severity
  <2>2. CASE ~IsBad(base) /\ origin \in {2, 3}
    BY <2>2, <1>5, <1>6 DEF Severity, IsBad
  <2>3. CASE ~IsBad(base) /\ q % 4 = 3 /\ origin \notin {2, 3}
    BY <2>3, <1>3, <1>7 DEF Severity, IsBad
  <2> QED BY <2>1, <2>2, <2>3 DEF UncertainCause, Interpolated, QseEstimated
<1>10. Bit(q, 7) <=> status = "Bad_NoCommunication"
  BY <1>2, <1>4, <1>5, <1>6, <1>7 DEF IsBad
<1> QED BY <1>8, <1>9, <1>10 DEF base, status

\* What the invariant says of the statuses shown.
LEMMA ViewNeverBetter == ViewInv => NeverBetterThanSent
<1> SUFFICES ASSUME ViewInv, NEW s \in shown, NEW c \in 1 .. Channels,
                    NEW leaf \in {"instMag.i", "instMag.f"}
             PROVE  /\ BadCause(s.samples[c].quality) => Severity(Shows(c, leaf).status) = 2
                    /\ UncertainCause(s.samples[c].quality, s.samples[c].origin)
                         => Severity(Shows(c, leaf).status) >= 1
                    /\ Bit(s.samples[c].quality, 7)
                         <=> Shows(c, leaf).status = "Bad_NoCommunication"
  BY DEF NeverBetterThanSent
<1> DEFINE q == s.samples[c].quality
           origin == s.samples[c].origin
<1>1. HasChannels(s) /\ Holds(ua, s)
  BY DEF ViewInv
<1>2. Sampled(s, c) = s.samples[c]
  BY <1>1 DEF Sampled, HasChannels
<1>3. Shows(c, leaf) = ChannelValue(s, c, leaf)
  BY <1>1, ClientReads DEF ChannelLeaves
<1>4. Shows(c, leaf).status = OriginOverride(BaseStatus(q), origin)
  BY <1>2, <1>3 DEF ChannelValue, Measured
<1> HIDE DEF q, origin
<1>5. /\ BadCause(q) => Severity(Shows(c, leaf).status) = 2
      /\ UncertainCause(q, origin) => Severity(Shows(c, leaf).status) >= 1
      /\ Bit(q, 7) <=> Shows(c, leaf).status = "Bad_NoCommunication"
  BY <1>4, StatusIs
<1> QED BY <1>5 DEF q, origin

\* What an OPC UA client reads is one tick that some unit sent, whatever datagrams were
\* lost, repeated and reordered: all values, qualities, times and ids are that tick's, in
\* the types of their nodes, as long as no stored record was corrupted.
THEOREM ClientsReadWhatWasSent == Spec => []ShownAsSent
BY ViewInvariant, ViewShowsSent, PTL

\* No value is shown with a better status than its quality octet and its origin allow, of
\* a corrupted record too, and a failed link is told apart from the other bad causes.
THEOREM NothingShownBetterThanSent == Spec => []NeverBetterThanSent
BY ViewInvariant, ViewNeverBetter, PTL

-------------------------------------------------------------------------------
(* The record's CRC (svdc-core's integrity.rs). *)

\* The words of the CRC and the octets it is taken of; two words with the same bits
\* from k up; whether a turn takes the polynomial in.
Words == SUBSET (0 .. 31)
OctetSets == SUBSET (0 .. 7)
Agree(w, v, k) == \A b \in 0 .. 31 : b >= k => (b \in w <=> b \in v)
Carry(w, bit) == (0 \in w) # bit

\* A turn, bit by bit.
LEMMA TurnIs ==
  ASSUME NEW w \in Words, NEW bit \in BOOLEAN
  PROVE  /\ CrcBit(w, bit) \in Words
         /\ \A b \in 0 .. 31 : b \in CrcBit(w, bit) <=> ~(b + 1 \in w <=> (Carry(w, bit) /\ b \in Poly))
<1>1. Shift(w, 1) \in Words /\ \A b \in 0 .. 31 : b \in Shift(w, 1) <=> b + 1 \in w
  <2>1. \A b \in Shift(w, 1) : b \in 0 .. 31 /\ b + 1 \in w
    BY DEF Shift, Words
  <2>2. ASSUME NEW b \in 0 .. 31, b + 1 \in w
        PROVE  b \in Shift(w, 1)
    <3>1. b = (b + 1) - 1 /\ b + 1 >= 1
      OBVIOUS
    <3> QED BY <2>2, <3>1 DEF Shift
  <2> QED BY <2>1, <2>2 DEF Words
<1>2. Poly \in Words
  BY DEF Poly, Words
<1> DEFINE s == Shift(w, 1)
<1> HIDE DEF s
<1>3. CASE Carry(w, bit)
  <2>1. CrcBit(w, bit) = Xor(s, Poly)
    BY <1>3 DEF CrcBit, Carry, s
  <2>2. \A b : b \in Xor(s, Poly) <=> ~(b \in s <=> b \in Poly)
    BY DEF Xor
  <2>3. Xor(s, Poly) \in Words
    BY <1>1, <1>2 DEF Xor, Words, s
  <2> QED BY <1>1, <1>3, <2>1, <2>2, <2>3 DEF s
<1>4. CASE ~Carry(w, bit)
  <2>1. CrcBit(w, bit) = s
    BY <1>4 DEF CrcBit, Carry, s
  <2> QED BY <1>1, <1>4, <2>1 DEF s
<1> QED BY <1>3, <1>4

\* Two turns that end with the same upper bits took the polynomial alike, and began
\* with the same bits above these.
LEMMA TurnBack ==
  ASSUME NEW w \in Words, NEW v \in Words, NEW x \in BOOLEAN, NEW y \in BOOLEAN,
         NEW k \in 0 .. 31, Agree(CrcBit(w, x), CrcBit(v, y), k)
  PROVE  Carry(w, x) = Carry(v, y) /\ Agree(w, v, k + 1)
<1>1. 31 \in CrcBit(w, x) <=> Carry(w, x)
  <2>1. 31 + 1 \notin w /\ 31 \in Poly
    BY DEF Words, Poly
  <2> QED BY <2>1, TurnIs
<1>2. 31 \in CrcBit(v, y) <=> Carry(v, y)
  <2>1. 31 + 1 \notin v /\ 31 \in Poly
    BY DEF Words, Poly
  <2> QED BY <2>1, TurnIs
<1>3. Carry(w, x) <=> Carry(v, y)
  BY <1>1, <1>2 DEF Agree
<1>4. Carry(w, x) = Carry(v, y)
  BY <1>3 DEF Carry
<1>5. ASSUME NEW b \in 0 .. 31, b >= k + 1
      PROVE  b \in w <=> b \in v
  <2> DEFINE a == b - 1
  <2>1. a \in 0 .. 31 /\ a >= k /\ a + 1 = b
    BY <1>5
  <2> HIDE DEF a
  <2>2. a \in CrcBit(w, x) <=> a \in CrcBit(v, y)
    BY <2>1 DEF Agree
  <2>3. /\ a \in CrcBit(w, x) <=> ~(b \in w <=> (Carry(w, x) /\ a \in Poly))
        /\ a \in CrcBit(v, y) <=> ~(b \in v <=> (Carry(v, y) /\ a \in Poly))
    BY <2>1, TurnIs
  <2> QED BY <1>3, <2>2, <2>3
<1> QED BY <1>4, <1>5 DEF Agree

\* Turns that take the polynomial alike in the same word are for the same bit.
LEMMA TurnOnce ==
  ASSUME NEW w \in Words, NEW x \in BOOLEAN, NEW y \in BOOLEAN, Carry(w, x) = Carry(w, y)
  PROVE  x = y
BY DEF Carry

\* What the eight turns of one octet make of nothing, after each of them.
TableTurns(C, byte) ==
  /\ C[0] = {} /\ \A i \in 0 .. 8 : C[i] \in Words
  /\ \A i \in 1 .. 8 : C[i] = CrcBit(C[i - 1], i - 1 \in byte)

\* The table, a turn at a time.
LEMMA TableIs ==
  ASSUME NEW byte \in OctetSets
  PROVE  \E C : TableTurns(C, byte) /\ EightTurns[byte] = C[8]
<1> DEFINE n == 8
           bits == [i \in 1 .. 8 |-> i - 1 \in byte]
           Sum(g) == g = [t \in SUBSET (1 .. n) |->
                            IF t = {} THEN {} ELSE CrcBit(g[t \ {Max(t)}], bits[Max(t)])]
           it == CHOOSE g : Sum(g)
<1>n. n \in Nat /\ bits \in [1 .. n -> BOOLEAN] /\ DOMAIN bits = 1 .. n
  OBVIOUS
<1>b. \A i \in 1 .. 8 : bits[i] = (i - 1 \in byte)
  OBVIOUS
<1> HIDE DEF bits
<1>1. EightTurns[byte] = it[1 .. n]
  <2>1. EightTurns[byte] = FoldLeft(CrcBit, {}, bits)
    BY DEF EightTurns, OctetSets, bits
  <2> HIDE DEF n
  <2>2. FoldLeft(CrcBit, {}, bits) = it[1 .. n]
    BY <1>n DEF FoldLeft, MapThenFoldSet
  <2> QED BY <2>1, <2>2
<1> HIDE DEF n
<1>2. \E g : Sum(g) /\ \A t \in SUBSET (1 .. n) : g[t] \in Words
  <2> DEFINE h == [z \in Words \X BOOLEAN |-> CrcBit(z[1], z[2])]
  <2>1. h \in [Words \X BOOLEAN -> Words]
    <3>1. \A z \in Words \X BOOLEAN : CrcBit(z[1], z[2]) \in Words
      BY TurnIs
    <3> QED BY <3>1
  <2>b. {} \in Words
    BY DEF Words
  <2>2. PICK g \in [SUBSET (1 .. n) -> Words] : Folds(g, h, {}, bits, n)
    <3> HIDE DEF h
    <3> QED BY <1>n, <2>1, <2>b, FoldExists
  <2>3. ASSUME NEW t \in SUBSET (1 .. n)
        PROVE  g[t] = IF t = {} THEN {} ELSE CrcBit(g[t \ {Max(t)}], bits[Max(t)])
    <3>1. CASE t = {}
      BY <2>2, <3>1 DEF Folds
    <3>2. CASE t # {}
      <4>1. Max(t) \in 1 .. n /\ t \ {Max(t)} \in SUBSET (1 .. n)
        BY <1>n, <3>2, MaxOfBounded
      <4>2. <<g[t \ {Max(t)}], bits[Max(t)]>> \in Words \X BOOLEAN
        BY <1>n, <4>1
      <4>3. g[t] = h[<<g[t \ {Max(t)}], bits[Max(t)]>>]
        <5> HIDE DEF h
        <5> QED BY <2>2, <3>2 DEF Folds
      <4>4. \A z \in Words \X BOOLEAN : h[z] = CrcBit(z[1], z[2])
        OBVIOUS
      <4> HIDE DEF h
      <4>5. g[t] = CrcBit(g[t \ {Max(t)}], bits[Max(t)])
        BY <4>2, <4>3, <4>4
      <4> QED BY <3>2, <4>5
    <3> QED BY <3>1, <3>2
  <2>4. Sum(g)
    BY <2>3
  <2>5. \A t \in SUBSET (1 .. n) : g[t] \in Words
    OBVIOUS
  <2> QED BY <2>4, <2>5
<1>3. Sum(it)
  BY <1>2
<1>4. \A t \in SUBSET (1 .. n) :
        it[t] = IF t = {} THEN {} ELSE CrcBit(it[t \ {Max(t)}], bits[Max(t)])
  BY <1>3
<1> HIDE DEF it
<1> DEFINE C == [i \in 0 .. n |-> it[1 .. i]]
<1>5. C[0] = {}
  <2>1. 1 .. 0 = {} /\ {} \in SUBSET (1 .. n) /\ 0 \in 0 .. n
    BY <1>n
  <2> QED BY <1>4, <2>1
<1>6. \A i \in 1 .. n : C[i] = CrcBit(C[i - 1], bits[i])
  <2> TAKE i \in 1 .. n
  <2>1. i \in 0 .. n /\ i - 1 \in 0 .. n
    BY <1>n
  <2>2. it[1 .. i] = CrcBit(it[1 .. (i - 1)], bits[i])
    <3>1. /\ 1 .. i \in SUBSET (1 .. n) /\ 1 .. i # {}
          /\ Max(1 .. i) = i /\ (1 .. i) \ {i} = 1 .. (i - 1)
      BY <1>n, MaxOfUpTo
    <3>2. it[1 .. i] = CrcBit(it[(1 .. i) \ {Max(1 .. i)}], bits[Max(1 .. i)])
      BY <1>4, <3>1
    <3> QED BY <3>1, <3>2
  <2> QED BY <2>1, <2>2
<1>7. C[n] = it[1 .. n]
  BY <1>n
<1> HIDE DEF C
<1>8. C[0] = {} /\ \A i \in 1 .. 8 : C[i] = CrcBit(C[i - 1], i - 1 \in byte)
  BY <1>b, <1>5, <1>6 DEF n
<1>9. \A i \in 1 .. 8 : (i - 1 \in byte) \in BOOLEAN
  OBVIOUS
<1>10. \A i \in 0 .. 8 : C[i] \in Words
  <2>0. {} \in Words
    BY DEF Words
  <2>1. ASSUME NEW i \in 1 .. 8, C[i - 1] \in Words
        PROVE  C[i] \in Words
    <3> DEFINE bit == (i - 1 \in byte)
               w == C[i - 1]
    <3>1. bit \in BOOLEAN /\ w \in Words /\ C[i] = CrcBit(w, bit)
      BY <1>8, <1>9, <2>1
    <3> HIDE DEF bit, w
    <3> QED BY <3>1, TurnIs
  <2>2. /\ C[1 - 1] \in Words => C[1] \in Words
        /\ C[2 - 1] \in Words => C[2] \in Words
        /\ C[3 - 1] \in Words => C[3] \in Words
        /\ C[4 - 1] \in Words => C[4] \in Words
        /\ C[5 - 1] \in Words => C[5] \in Words
        /\ C[6 - 1] \in Words => C[6] \in Words
        /\ C[7 - 1] \in Words => C[7] \in Words
        /\ C[8 - 1] \in Words => C[8] \in Words
    BY <2>1
  <2>3. C[0] \in Words
    BY <1>8, <2>0
  <2>4. /\ C[1] \in Words /\ C[2] \in Words /\ C[3] \in Words /\ C[4] \in Words
        /\ C[5] \in Words /\ C[6] \in Words /\ C[7] \in Words /\ C[8] \in Words
    BY <2>2, <2>3
  <2>5. \A i \in 0 .. 8 : i = 0 \/ i = 1 \/ i = 2 \/ i = 3 \/ i = 4 \/ i = 5 \/ i = 6 \/ i = 7 \/ i = 8
    OBVIOUS
  <2> QED BY <2>3, <2>4, <2>5
<1> QED BY <1>1, <1>7, <1>8, <1>10 DEF n, TableTurns

\* One turn back: above one bit more, and the polynomial was taken alike.
LEMMA TableStep ==
  ASSUME NEW C, NEW D, NEW x \in OctetSets, NEW y \in OctetSets,
         TableTurns(C, x), TableTurns(D, y), NEW i \in 1 .. 8, NEW k \in 0 .. 31,
         Agree(C[i], D[i], k)
  PROVE  /\ Carry(C[i - 1], i - 1 \in x) = Carry(D[i - 1], i - 1 \in y)
         /\ Agree(C[i - 1], D[i - 1], k + 1)
<1> DEFINE a == (i - 1 \in x)
           b == (i - 1 \in y)
           w == C[i - 1]
           v == D[i - 1]
<1>1. i - 1 \in 0 .. 8 /\ a \in BOOLEAN /\ b \in BOOLEAN
  OBVIOUS
<1>2. /\ w \in Words /\ v \in Words
      /\ C[i] = CrcBit(w, a) /\ D[i] = CrcBit(v, b)
  BY <1>1 DEF TableTurns
<1> HIDE DEF a, b, w, v
<1>3. Carry(w, a) = Carry(v, b) /\ Agree(w, v, k + 1)
  BY <1>1, <1>2, TurnBack
<1> QED BY <1>3 DEF a, b, w, v

\* One turn forth: from equal words, for the same bit, to equal words.
LEMMA TableOn ==
  ASSUME NEW C, NEW D, NEW x \in OctetSets, NEW y \in OctetSets,
         TableTurns(C, x), TableTurns(D, y), NEW i \in 1 .. 8, C[i - 1] = D[i - 1],
         Carry(C[i - 1], i - 1 \in x) = Carry(D[i - 1], i - 1 \in y)
  PROVE  (i - 1 \in x <=> i - 1 \in y) /\ C[i] = D[i]
<1> DEFINE a == (i - 1 \in x)
           b == (i - 1 \in y)
           w == C[i - 1]
<1>1. i - 1 \in 0 .. 8 /\ a \in BOOLEAN /\ b \in BOOLEAN
  OBVIOUS
<1>2. /\ w \in Words /\ C[i] = CrcBit(w, a) /\ D[i] = CrcBit(w, b)
      /\ Carry(w, a) = Carry(w, b)
  BY <1>1 DEF TableTurns
<1> HIDE DEF a, b, w
<1>3. a = b
  BY <1>1, <1>2, TurnOnce
<1>4. C[i] = D[i]
  BY <1>2, <1>3
<1> QED BY <1>3, <1>4 DEF a, b

\* The table's words are told apart by their upper octets alone.
LEMMA TableBack ==
  ASSUME NEW x \in OctetSets, NEW y \in OctetSets, Agree(EightTurns[x], EightTurns[y], 24)
  PROVE  x = y
<1>1. PICK C : TableTurns(C, x) /\ EightTurns[x] = C[8]
  BY TableIs
<1>2. PICK D : TableTurns(D, y) /\ EightTurns[y] = D[8]
  BY TableIs
<1> DEFINE Alike(i) == Carry(C[i - 1], i - 1 \in x) = Carry(D[i - 1], i - 1 \in y)
<1>3. \A i \in 1 .. 8, k \in 0 .. 31 : Agree(C[i], D[i], k) => Alike(i) /\ Agree(C[i - 1], D[i - 1], k + 1)
  BY <1>1, <1>2, TableStep
<1>4. \A i \in 1 .. 8 : C[i - 1] = D[i - 1] /\ Alike(i) => (i - 1 \in x <=> i - 1 \in y) /\ C[i] = D[i]
  BY <1>1, <1>2, TableOn
<1> HIDE DEF Alike
<1> DEFINE M(i) == Agree(C[i], D[i], 32 - i)
           E(i) == C[i] = D[i]
<1>5. \A i \in 1 .. 8 : M(i) => Alike(i) /\ M(i - 1)
  <2> TAKE i \in 1 .. 8
  <2> DEFINE k == 32 - i
  <2>1. k \in 0 .. 31 /\ k + 1 = 32 - (i - 1)
    OBVIOUS
  <2> HIDE DEF k
  <2>2. Agree(C[i], D[i], k) => Alike(i) /\ Agree(C[i - 1], D[i - 1], k + 1)
    BY <1>3, <2>1
  <2> QED BY <2>1, <2>2 DEF k
<1>6. M(8)
  BY <1>1, <1>2
<1> HIDE DEF M
<1>7. /\ M(8) => Alike(8) /\ M(8 - 1)
      /\ M(7) => Alike(7) /\ M(7 - 1)
      /\ M(6) => Alike(6) /\ M(6 - 1)
      /\ M(5) => Alike(5) /\ M(5 - 1)
      /\ M(4) => Alike(4) /\ M(4 - 1)
      /\ M(3) => Alike(3) /\ M(3 - 1)
      /\ M(2) => Alike(2) /\ M(2 - 1)
      /\ M(1) => Alike(1)
  BY <1>5
<1>8. 8 - 1 = 7 /\ 7 - 1 = 6 /\ 6 - 1 = 5 /\ 5 - 1 = 4 /\ 4 - 1 = 3 /\ 3 - 1 = 2 /\ 2 - 1 = 1 /\ 1 - 1 = 0
  OBVIOUS
<1>9. /\ Alike(1) /\ Alike(2) /\ Alike(3) /\ Alike(4)
      /\ Alike(5) /\ Alike(6) /\ Alike(7) /\ Alike(8)
  BY <1>6, <1>7, <1>8
<1>10. E(0)
  BY <1>1, <1>2 DEF TableTurns
<1>11. \A i \in 1 .. 8 : E(i - 1) /\ Alike(i) => (i - 1 \in x <=> i - 1 \in y) /\ E(i)
  BY <1>4
<1> HIDE DEF E
<1>12. /\ E(1 - 1) /\ Alike(1) => (1 - 1 \in x <=> 1 - 1 \in y) /\ E(1)
       /\ E(2 - 1) /\ Alike(2) => (2 - 1 \in x <=> 2 - 1 \in y) /\ E(2)
       /\ E(3 - 1) /\ Alike(3) => (3 - 1 \in x <=> 3 - 1 \in y) /\ E(3)
       /\ E(4 - 1) /\ Alike(4) => (4 - 1 \in x <=> 4 - 1 \in y) /\ E(4)
       /\ E(5 - 1) /\ Alike(5) => (5 - 1 \in x <=> 5 - 1 \in y) /\ E(5)
       /\ E(6 - 1) /\ Alike(6) => (6 - 1 \in x <=> 6 - 1 \in y) /\ E(6)
       /\ E(7 - 1) /\ Alike(7) => (7 - 1 \in x <=> 7 - 1 \in y) /\ E(7)
       /\ E(8 - 1) /\ Alike(8) => (8 - 1 \in x <=> 8 - 1 \in y) /\ E(8)
  BY <1>11
<1>13. /\ 0 \in x <=> 0 \in y
       /\ 1 \in x <=> 1 \in y
       /\ 2 \in x <=> 2 \in y
       /\ 3 \in x <=> 3 \in y
       /\ 4 \in x <=> 4 \in y
       /\ 5 \in x <=> 5 \in y
       /\ 6 \in x <=> 6 \in y
       /\ 7 \in x <=> 7 \in y
  BY <1>8, <1>9, <1>10, <1>12
<1>14. \A b \in 0 .. 7 : b = 0 \/ b = 1 \/ b = 2 \/ b = 3 \/ b = 4 \/ b = 5 \/ b = 6 \/ b = 7
  OBVIOUS
<1>15. \A b \in 0 .. 7 : b \in x <=> b \in y
  BY <1>13, <1>14
<1> QED BY <1>15 DEF OctetSets

\* Where in the table an octet is looked up.
Entry(w, x) == Xor(w \cap (0 .. 7), x)

\* An octet's step, bit by bit.
LEMMA ByteIs ==
  ASSUME NEW w \in Words, NEW x \in OctetSets
  PROVE  /\ Entry(w, x) \in OctetSets /\ CrcByte(w, x) \in Words
         /\ \A b \in 0 .. 31 :
              b \in CrcByte(w, x) <=> ~(b + 8 \in w <=> b \in EightTurns[Entry(w, x)])
<1>1. Entry(w, x) \in OctetSets
  BY DEF Entry, Xor, OctetSets
<1> DEFINE s == Shift(w, 8)
           e == EightTurns[Entry(w, x)]
<1>2. e \in Words
  <2>1. PICK C : TableTurns(C, Entry(w, x)) /\ EightTurns[Entry(w, x)] = C[8]
    BY <1>1, TableIs
  <2>2. 8 \in 0 .. 8
    OBVIOUS
  <2> QED BY <2>1, <2>2 DEF TableTurns
<1>3. s \in Words /\ \A b \in 0 .. 31 : b \in s <=> b + 8 \in w
  <2>1. \A b \in Shift(w, 8) : b \in 0 .. 31 /\ b + 8 \in w
    BY DEF Shift, Words
  <2>2. ASSUME NEW b \in 0 .. 31, b + 8 \in w
        PROVE  b \in Shift(w, 8)
    <3>1. b = (b + 8) - 8 /\ b + 8 >= 8
      OBVIOUS
    <3> QED BY <2>2, <3>1 DEF Shift
  <2> QED BY <2>1, <2>2 DEF Words
<1>4. CrcByte(w, x) = Xor(s, e)
  BY DEF CrcByte, Entry
<1> HIDE DEF s, e
<1>5. \A b : b \in Xor(s, e) <=> ~(b \in s <=> b \in e)
  BY DEF Xor
<1>6. Xor(s, e) \in Words
  BY <1>2, <1>3 DEF Xor, Words
<1> QED BY <1>1, <1>3, <1>4, <1>5, <1>6 DEF e

\* Two octets' steps that end with the same upper octet were looked up alike, and began
\* with words that agree an octet further up.
LEMMA ByteBack ==
  ASSUME NEW w \in Words, NEW v \in Words, NEW x \in OctetSets, NEW y \in OctetSets,
         NEW k \in 0 .. 24, Agree(CrcByte(w, x), CrcByte(v, y), k)
  PROVE  Entry(w, x) = Entry(v, y) /\ Agree(w, v, k + 8)
<1> DEFINE d == EightTurns[Entry(w, x)]
           e == EightTurns[Entry(v, y)]
<1>1. /\ \A b \in 0 .. 31 : b \in CrcByte(w, x) <=> ~(b + 8 \in w <=> b \in d)
      /\ \A b \in 0 .. 31 : b \in CrcByte(v, y) <=> ~(b + 8 \in v <=> b \in e)
      /\ Entry(w, x) \in OctetSets /\ Entry(v, y) \in OctetSets
  BY ByteIs
<1>2. Agree(d, e, 24)
  <2> HIDE DEF d, e
  <2> SUFFICES ASSUME NEW b \in 0 .. 31, b >= 24
               PROVE  b \in d <=> b \in e
    BY DEF Agree
  <2>1. b + 8 \notin w /\ b + 8 \notin v /\ b >= k
    BY DEF Words
  <2>2. b \in CrcByte(w, x) <=> b \in CrcByte(v, y)
    BY <2>1 DEF Agree
  <2> QED BY <1>1, <2>1, <2>2
<1>3. Entry(w, x) = Entry(v, y)
  BY <1>1, <1>2, TableBack
<1>4. d = e
  BY <1>3
<1> HIDE DEF d, e
<1>5. ASSUME NEW b \in 0 .. 31, b >= k + 8
      PROVE  b \in w <=> b \in v
  <2> DEFINE a == b - 8
  <2>1. a \in 0 .. 31 /\ a >= k /\ a + 8 = b
    BY <1>5
  <2> HIDE DEF a
  <2>2. a \in CrcByte(w, x) <=> a \in CrcByte(v, y)
    BY <2>1 DEF Agree
  <2>3. /\ a \in CrcByte(w, x) <=> ~(b \in w <=> a \in d)
        /\ a \in CrcByte(v, y) <=> ~(b \in v <=> a \in d)
    BY <1>1, <1>4, <2>1
  <2> QED BY <2>2, <2>3
<1> QED BY <1>3, <1>5 DEF Agree

\* The same octet takes different words to different words.
LEMMA ByteApart ==
  ASSUME NEW w \in Words, NEW v \in Words, NEW x \in OctetSets, CrcByte(w, x) = CrcByte(v, x)
  PROVE  w = v
<1>1. Agree(CrcByte(w, x), CrcByte(v, x), 0)
  BY DEF Agree
<1>2. Entry(w, x) = Entry(v, x) /\ Agree(w, v, 8)
  <2>1. 0 \in 0 .. 24 /\ 0 + 8 = 8
    OBVIOUS
  <2> QED BY <1>1, <2>1, ByteBack
<1>3. \A b \in 0 .. 7 : b \in w <=> b \in v
  BY <1>2 DEF Entry, Xor
<1>4. \A b \in 0 .. 31 : b >= 8 => (b \in w <=> b \in v)
  BY <1>2 DEF Agree
<1>5. \A b \in 0 .. 31 : b >= 8 \/ b \in 0 .. 7
  OBVIOUS
<1>6. \A b \in 0 .. 31 : b \in w <=> b \in v
  BY <1>3, <1>4, <1>5
<1> QED BY <1>6 DEF Words

\* From one word, octets that are looked up alike are alike.
LEMMA EntryApart ==
  ASSUME NEW w \in Words, NEW x \in OctetSets, NEW y \in OctetSets, Entry(w, x) = Entry(w, y)
  PROVE  x = y
<1>1. \A b \in 0 .. 7 : b \in x <=> b \in y
  BY DEF Entry, Xor
<1> QED BY <1>1 DEF OctetSets

\* The word after each octet.
Chain(C, bytes) ==
  /\ C[0] = AllOnes /\ \A i \in 0 .. Len(bytes) : C[i] \in Words
  /\ \A i \in 1 .. Len(bytes) : C[i] = CrcByte(C[i - 1], bytes[i])

\* The CRC, an octet at a time.
LEMMA CrcIs ==
  ASSUME NEW bytes \in Seq(OctetSets)
  PROVE  \E C : Chain(C, bytes) /\ Crc32(bytes) = Xor(AllOnes, C[Len(bytes)])
<1> DEFINE n == Len(bytes)
           State(f) == f = [i \in 0 .. n |->
                              IF i = 0 THEN AllOnes
                              ELSE UNION {CrcByte(word, bytes[i]) : word \in {f[i - 1]}}]
           state == CHOOSE f : State(f)
           h == [z \in Words \X OctetSets |-> CrcByte(z[1], z[2])]
<1>n. n \in Nat /\ bytes \in [1 .. n -> OctetSets]
  OBVIOUS
<1>1. Crc32(bytes) = Xor(AllOnes, state[n])
  BY DEF Crc32
<1> HIDE DEF n, state
<1>2. h \in [Words \X OctetSets -> Words] /\ AllOnes \in Words
  <2>1. \A z \in Words \X OctetSets : CrcByte(z[1], z[2]) \in Words
    BY ByteIs
  <2>2. AllOnes \in Words
    BY DEF AllOnes, Words
  <2> QED BY <2>1, <2>2
<1>h. \A w \in Words, x \in OctetSets : h[<<w, x>>] = CrcByte(w, x)
  OBVIOUS
<1> HIDE DEF h
<1>3. PICK g \in [SUBSET (1 .. n) -> Words] : Folds(g, h, AllOnes, bytes, n)
  BY <1>n, <1>2, FoldExists
<1> DEFINE a == [i \in 0 .. n |-> g[1 .. i]]
<1>4. a[0] = AllOnes
  <2>1. 1 .. 0 = {} /\ {} \in SUBSET (1 .. n) /\ 0 \in 0 .. n
    BY <1>n
  <2> QED BY <1>3, <2>1 DEF Folds
<1>5. \A i \in 0 .. n : a[i] \in Words
  <2> TAKE i \in 0 .. n
  <2>1. 1 .. i \in SUBSET (1 .. n)
    BY <1>n
  <2> QED BY <2>1
<1>6. \A i \in 1 .. n : i - 1 \in 0 .. n /\ i \in 0 .. n /\ i # 0 /\ a[i] = CrcByte(a[i - 1], bytes[i])
  <2> TAKE i \in 1 .. n
  <2>1. i \in 0 .. n /\ i - 1 \in 0 .. n /\ i # 0
    BY <1>n
  <2>2. /\ 1 .. i \in SUBSET (1 .. n) /\ 1 .. i # {}
        /\ Max(1 .. i) = i /\ (1 .. i) \ {i} = 1 .. (i - 1)
    BY <1>n, MaxOfUpTo
  <2>3. g[1 .. i] = h[<<g[1 .. (i - 1)], bytes[i]>>]
    BY <1>3, <2>2 DEF Folds
  <2>4. g[1 .. (i - 1)] \in Words /\ bytes[i] \in OctetSets
    <3>1. 1 .. (i - 1) \in SUBSET (1 .. n)
      BY <2>2
    <3> QED BY <1>n, <3>1
  <2>5. g[1 .. i] = CrcByte(g[1 .. (i - 1)], bytes[i])
    BY <1>h, <2>3, <2>4
  <2> QED BY <2>1, <2>5
<1>7. DOMAIN a = 0 .. n /\ a = [i \in 0 .. n |-> a[i]]
  OBVIOUS
<1> HIDE DEF a
<1>8. \A i \in 0 .. n : a[i] = IF i = 0 THEN AllOnes
                               ELSE UNION {CrcByte(word, bytes[i]) : word \in {a[i - 1]}}
  <2> TAKE i \in 0 .. n
  <2>1. CASE i = 0
    BY <1>4, <2>1
  <2>2. CASE i # 0
    <3>1. i \in 1 .. n
      BY <1>n, <2>2
    <3> DEFINE w == a[i - 1]
               x == bytes[i]
    <3>2. a[i] = CrcByte(w, x)
      BY <1>6, <3>1
    <3> HIDE DEF w, x
    <3>3. UNION {CrcByte(word, x) : word \in {w}} = CrcByte(w, x)
      OBVIOUS
    <3> QED BY <2>2, <3>2, <3>3 DEF w, x
  <2> QED BY <2>1, <2>2
<1>9. State(a)
  BY <1>7, <1>8
<1>10. State(state)
  BY <1>9 DEF state
<1>11. \A i \in 0 .. n : state[i] = IF i = 0 THEN AllOnes
                                    ELSE UNION {CrcByte(word, bytes[i]) : word \in {state[i - 1]}}
  BY <1>10
<1> HIDE DEF State
<1>12. state[0] = AllOnes
  <2>1. 0 \in 0 .. n
    BY <1>n
  <2> QED BY <1>11, <2>1
<1>13. \A i \in 1 .. n : state[i] = CrcByte(state[i - 1], bytes[i])
  <2> TAKE i \in 1 .. n
  <2>1. i \in 0 .. n /\ i # 0
    BY <1>n
  <2> DEFINE w == state[i - 1]
             x == bytes[i]
  <2>2. state[i] = UNION {CrcByte(word, x) : word \in {w}}
    BY <1>11, <2>1
  <2> HIDE DEF w, x
  <2>3. UNION {CrcByte(word, x) : word \in {w}} = CrcByte(w, x)
    OBVIOUS
  <2> QED BY <2>2, <2>3 DEF w, x
<1>14. \A i \in 0 .. n : state[i] \in Words
  <2> DEFINE Bad == {i \in 0 .. n : state[i] \notin Words}
  <2> SUFFICES ASSUME Bad # {}
               PROVE  FALSE
    OBVIOUS
  <2>1. PICK m \in Bad : \A i \in Bad : m <= i
    <3>1. Bad \in SUBSET Nat
      OBVIOUS
    <3> HIDE DEF Bad
    <3> QED BY <3>1, LeastExists
  <2>2. m # 0
    BY <1>2, <1>12
  <2>3. m \in 1 .. n /\ m - 1 \in 0 .. n /\ ~(m <= m - 1)
    BY <1>n, <2>2
  <2>4. state[m - 1] \in Words /\ bytes[m] \in OctetSets
    BY <1>n, <2>1, <2>3
  <2>5. CrcByte(state[m - 1], bytes[m]) \in Words
    BY <2>4, ByteIs
  <2> QED BY <1>13, <2>3, <2>5
<1>15. Chain(state, bytes)
  BY <1>12, <1>13, <1>14 DEF Chain, n
<1> QED BY <1>1, <1>15 DEF n

\* After the same octets the words are the same.
LEMMA ChainsMeet ==
  ASSUME NEW x \in Seq(OctetSets), NEW y \in Seq(OctetSets), NEW C, NEW D,
         Chain(C, x), Chain(D, y), Len(x) = Len(y),
         NEW k \in 0 .. Len(x), \A i \in 1 .. Len(x) : i <= k => x[i] = y[i]
  PROVE  C[k] = D[k]
<1> DEFINE n == Len(x)
           Bad == {i \in 0 .. k : C[i] # D[i]}
<1>1. n \in Nat /\ k \in 0 .. n
  OBVIOUS
<1>2. /\ C[0] = D[0]
      /\ \A i \in 1 .. n : C[i] = CrcByte(C[i - 1], x[i]) /\ D[i] = CrcByte(D[i - 1], y[i])
  BY DEF Chain
<1> HIDE DEF n
<1> SUFFICES ASSUME Bad # {}
             PROVE  FALSE
  BY <1>1
<1>3. PICK m \in Bad : \A i \in Bad : m <= i
  <2>1. Bad \in SUBSET Nat
    BY <1>1
  <2> HIDE DEF Bad
  <2> QED BY <2>1, LeastExists
<1>4. m # 0
  BY <1>2
<1>5. m \in 1 .. n /\ m <= k /\ m - 1 \in 0 .. k /\ ~(m <= m - 1)
  BY <1>1, <1>4
<1>6. C[m - 1] = D[m - 1]
  BY <1>3, <1>5
<1>7. x[m] = y[m]
  BY <1>5 DEF n
<1> QED BY <1>2, <1>5, <1>6, <1>7

\* Words that differ stay different over the same octets.
LEMMA ChainsStayApart ==
  ASSUME NEW x \in Seq(OctetSets), NEW y \in Seq(OctetSets), NEW C, NEW D,
         Chain(C, x), Chain(D, y), Len(x) = Len(y),
         NEW k \in 0 .. Len(x), \A i \in 1 .. Len(x) : i > k => x[i] = y[i], C[k] # D[k]
  PROVE  C[Len(x)] # D[Len(x)]
<1> DEFINE n == Len(x)
           Bad == {i \in k .. n : C[i] = D[i]}
<1>1. n \in Nat /\ k \in 0 .. n
  OBVIOUS
<1>2. /\ \A i \in 1 .. n : C[i] = CrcByte(C[i - 1], x[i]) /\ D[i] = CrcByte(D[i - 1], y[i])
      /\ \A i \in 0 .. n : C[i] \in Words /\ D[i] \in Words
      /\ \A i \in 1 .. n : x[i] \in OctetSets
  BY DEF Chain
<1>x. \A i \in 1 .. n : i > k => x[i] = y[i]
  OBVIOUS
<1> HIDE DEF n
<1> SUFFICES ASSUME Bad # {}
             PROVE  FALSE
  BY <1>1 DEF n
<1>3. PICK m \in Bad : \A i \in Bad : m <= i
  <2>1. Bad \in SUBSET Nat
    BY <1>1
  <2> HIDE DEF Bad
  <2> QED BY <2>1, LeastExists
<1>4. m # k
  OBVIOUS
<1>5. m \in 1 .. n /\ m > k /\ m - 1 \in k .. n /\ m - 1 \in 0 .. n /\ ~(m <= m - 1)
  BY <1>1, <1>4
<1>6. C[m - 1] # D[m - 1]
  BY <1>3, <1>5
<1>7. x[m] = y[m] /\ x[m] \in OctetSets
  BY <1>2, <1>5, <1>x
<1>8. CrcByte(C[m - 1], x[m]) = CrcByte(D[m - 1], x[m])
  BY <1>2, <1>5, <1>7
<1>9. C[m - 1] \in Words /\ D[m - 1] \in Words
  BY <1>2, <1>5
<1> QED BY <1>6, <1>7, <1>8, <1>9, ByteApart

\* Octets that differ within four in a row, and nowhere else, have different CRCs: four
\* octets from one word to one word are the same four, as many bits as the word has.
LEMMA CrcApart ==
  ASSUME NEW x \in Seq(OctetSets), NEW y \in Seq(OctetSets), Len(x) = Len(y),
         NEW k \in Nat, k + 4 <= Len(x),
         \A i \in 1 .. Len(x) : i <= k \/ i > k + 4 => x[i] = y[i],
         Crc32(x) = Crc32(y)
  PROVE  \A j \in 1 .. 4 : x[k + j] = y[k + j]
<1> DEFINE n == Len(x)
<1>n. n \in Nat /\ k \in 0 .. n /\ k + 4 \in 0 .. n
  OBVIOUS
<1>1. PICK C : Chain(C, x) /\ Crc32(x) = Xor(AllOnes, C[n])
  BY CrcIs
<1>2. PICK D : Chain(D, y) /\ Crc32(y) = Xor(AllOnes, D[n])
  BY CrcIs
<1>3. C[n] = D[n]
  <2>1. C[n] \in Words /\ D[n] \in Words
    <3>1. n \in 0 .. Len(x) /\ n \in 0 .. Len(y)
      OBVIOUS
    <3> HIDE DEF n
    <3> QED BY <1>1, <1>2, <3>1 DEF Chain
  <2>2. Xor(AllOnes, C[n]) = Xor(AllOnes, D[n])
    BY <1>1, <1>2
  <2> HIDE DEF n
  <2>3. \A b : ~(b \in AllOnes <=> b \in C[n]) <=> ~(b \in AllOnes <=> b \in D[n])
    BY <2>2 DEF Xor
  <2>4. \A b : b \in C[n] <=> b \in D[n]
    BY <2>3
  <2> QED BY <2>1, <2>4 DEF Words
<1>4. C[k] = D[k]
  <2>1. \A i \in 1 .. Len(x) : i <= k => x[i] = y[i]
    OBVIOUS
  <2> QED BY <1>1, <1>2, <1>n, <2>1, ChainsMeet
<1>5. C[k + 4] = D[k + 4]
  <2> DEFINE m == k + 4
  <2>1. m \in 0 .. Len(x) /\ \A i \in 1 .. Len(x) : i > m => x[i] = y[i]
    BY <1>n
  <2> HIDE DEF m
  <2>2. C[m] # D[m] => C[n] # D[n]
    BY <1>1, <1>2, <2>1, ChainsStayApart
  <2> QED BY <1>3, <2>2 DEF m
<1>6. /\ C[k + 1] = CrcByte(C[k], x[k + 1]) /\ D[k + 1] = CrcByte(D[k], y[k + 1])
      /\ C[k + 2] = CrcByte(C[k + 1], x[k + 2]) /\ D[k + 2] = CrcByte(D[k + 1], y[k + 2])
      /\ C[k + 3] = CrcByte(C[k + 2], x[k + 3]) /\ D[k + 3] = CrcByte(D[k + 2], y[k + 3])
      /\ C[k + 4] = CrcByte(C[k + 3], x[k + 4]) /\ D[k + 4] = CrcByte(D[k + 3], y[k + 4])
  <2>1. /\ k + 1 \in 1 .. n /\ k + 2 \in 1 .. n /\ k + 3 \in 1 .. n /\ k + 4 \in 1 .. n
        /\ (k + 1) - 1 = k /\ (k + 2) - 1 = k + 1 /\ (k + 3) - 1 = k + 2 /\ (k + 4) - 1 = k + 3
    BY <1>n
  <2>2. \A i \in 1 .. n : C[i] = CrcByte(C[i - 1], x[i]) /\ D[i] = CrcByte(D[i - 1], y[i])
    BY <1>1, <1>2 DEF Chain
  <2> HIDE DEF n
  <2> QED BY <2>1, <2>2
<1>7. \A j \in 1 .. 4 : x[k + j] \in OctetSets /\ y[k + j] \in OctetSets
  <2> TAKE j \in 1 .. 4
  <2>1. k + j \in 1 .. Len(x) /\ k + j \in 1 .. Len(y)
    BY <1>n
  <2> QED BY <2>1
<1>8. /\ x[k + 1] \in OctetSets /\ x[k + 2] \in OctetSets /\ x[k + 3] \in OctetSets /\ x[k + 4] \in OctetSets
      /\ y[k + 1] \in OctetSets /\ y[k + 2] \in OctetSets /\ y[k + 3] \in OctetSets /\ y[k + 4] \in OctetSets
  BY <1>7
<1>9. C[k] \in Words
  BY <1>1, <1>n DEF Chain
<1>10. x[k + 1] = y[k + 1] /\ x[k + 2] = y[k + 2] /\ x[k + 3] = y[k + 3] /\ x[k + 4] = y[k + 4]
  <2> DEFINE w == C[k]
             w1 == C[k + 1]
             w2 == C[k + 2]
             w3 == C[k + 3]
             v1 == D[k + 1]
             v2 == D[k + 2]
             v3 == D[k + 3]
             x1 == x[k + 1]
             x2 == x[k + 2]
             x3 == x[k + 3]
             x4 == x[k + 4]
             y1 == y[k + 1]
             y2 == y[k + 2]
             y3 == y[k + 3]
             y4 == y[k + 4]
  <2>1. /\ x1 \in OctetSets /\ x2 \in OctetSets /\ x3 \in OctetSets /\ x4 \in OctetSets
        /\ y1 \in OctetSets /\ y2 \in OctetSets /\ y3 \in OctetSets /\ y4 \in OctetSets
        /\ w \in Words
    BY <1>8, <1>9
  <2>2. /\ w1 = CrcByte(w, x1) /\ w2 = CrcByte(w1, x2) /\ w3 = CrcByte(w2, x3)
        /\ v1 = CrcByte(w, y1) /\ v2 = CrcByte(v1, y2) /\ v3 = CrcByte(v2, y3)
    BY <1>4, <1>6
  <2>3. CrcByte(w3, x4) = CrcByte(v3, y4)
    BY <1>5, <1>6
  <2> HIDE DEF w, w1, w2, w3, v1, v2, v3, x1, x2, x3, x4, y1, y2, y3, y4
  <2>4. /\ w1 \in Words /\ w2 \in Words /\ w3 \in Words
        /\ v1 \in Words /\ v2 \in Words /\ v3 \in Words
    BY <2>1, <2>2, ByteIs
  <2>5. /\ 0 \in 0 .. 24 /\ 8 \in 0 .. 24 /\ 16 \in 0 .. 24 /\ 24 \in 0 .. 24
        /\ 0 + 8 = 8 /\ 8 + 8 = 16 /\ 16 + 8 = 24
    OBVIOUS
  <2>6. Agree(CrcByte(w3, x4), CrcByte(v3, y4), 0)
    BY <2>3 DEF Agree
  <2>7. Entry(w3, x4) = Entry(v3, y4) /\ Agree(w3, v3, 8)
    <3>1. w3 \in Words /\ v3 \in Words /\ x4 \in OctetSets /\ y4 \in OctetSets
      BY <2>1, <2>4
    <3> QED BY <2>5, <2>6, <3>1, ByteBack
  <2>8. Entry(w2, x3) = Entry(v2, y3) /\ Agree(w2, v2, 16)
    <3>1. Agree(CrcByte(w2, x3), CrcByte(v2, y3), 8)
      BY <2>2, <2>7
    <3>2. w2 \in Words /\ v2 \in Words /\ x3 \in OctetSets /\ y3 \in OctetSets
      BY <2>1, <2>4
    <3> QED BY <2>5, <3>1, <3>2, ByteBack
  <2>9. Entry(w1, x2) = Entry(v1, y2) /\ Agree(w1, v1, 24)
    <3>1. Agree(CrcByte(w1, x2), CrcByte(v1, y2), 16)
      BY <2>2, <2>8
    <3>2. w1 \in Words /\ v1 \in Words /\ x2 \in OctetSets /\ y2 \in OctetSets
      BY <2>1, <2>4
    <3> QED BY <2>5, <3>1, <3>2, ByteBack
  <2>10. Entry(w, x1) = Entry(w, y1)
    <3>1. Agree(CrcByte(w, x1), CrcByte(w, y1), 24)
      BY <2>2, <2>9
    <3> QED BY <2>1, <2>5, <3>1, ByteBack
  <2>11. x1 = y1 /\ w1 = v1
    BY <2>1, <2>2, <2>10, EntryApart
  <2>12. x2 = y2 /\ w2 = v2
    BY <2>1, <2>2, <2>4, <2>9, <2>11, EntryApart
  <2>13. x3 = y3 /\ w3 = v3
    BY <2>1, <2>2, <2>4, <2>8, <2>12, EntryApart
  <2>14. x4 = y4
    BY <2>1, <2>4, <2>7, <2>13, EntryApart
  <2> QED BY <2>11, <2>12, <2>13, <2>14 DEF x1, x2, x3, x4, y1, y2, y3, y4
<1>11. \A j \in 1 .. 4 : j = 1 \/ j = 2 \/ j = 3 \/ j = 4
  OBVIOUS
<1> QED BY <1>10, <1>11

-------------------------------------------------------------------------------
(* The bits of a number, and what Flip does to them. *)

\* The powers of two of a 32-bit field, each twice the one before.
LEMMA Doubles ==
  /\ \A b \in 0 .. 31 : 2 ^ b \in Nat \ {0}
  /\ \A b \in 1 .. 31 : 2 ^ b = 2 * 2 ^ (b - 1)
<1> DEFINE P(b) == 2 ^ b \in Nat \ {0} /\ (b # 0 => 2 ^ b = 2 * 2 ^ (b - 1))
<1>1. P(0) /\ P(1) /\ P(2) /\ P(3) /\ P(4) /\ P(5) /\ P(6) /\ P(7)
  OBVIOUS
<1>2. P(8) /\ P(9) /\ P(10) /\ P(11) /\ P(12) /\ P(13) /\ P(14) /\ P(15)
  OBVIOUS
<1>3. P(16) /\ P(17) /\ P(18) /\ P(19) /\ P(20) /\ P(21) /\ P(22) /\ P(23)
  OBVIOUS
<1>4. P(24) /\ P(25) /\ P(26) /\ P(27) /\ P(28) /\ P(29) /\ P(30) /\ P(31)
  OBVIOUS
<1>5. \A b \in 0 .. 31 :
        \/ b = 0 \/ b = 1 \/ b = 2 \/ b = 3 \/ b = 4 \/ b = 5 \/ b = 6 \/ b = 7
        \/ b = 8 \/ b = 9 \/ b = 10 \/ b = 11 \/ b = 12 \/ b = 13 \/ b = 14 \/ b = 15
        \/ b = 16 \/ b = 17 \/ b = 18 \/ b = 19 \/ b = 20 \/ b = 21 \/ b = 22 \/ b = 23
        \/ b = 24 \/ b = 25 \/ b = 26 \/ b = 27 \/ b = 28 \/ b = 29 \/ b = 30 \/ b = 31
  OBVIOUS
<1> HIDE DEF P
<1>6. \A b \in 0 .. 31 : P(b)
  BY <1>1, <1>2, <1>3, <1>4, <1>5
<1>7. \A b \in 1 .. 31 : b \in 0 .. 31 /\ b # 0
  OBVIOUS
<1>8. ASSUME NEW b \in 0 .. 31
      PROVE  2 ^ b \in Nat \ {0}
  BY <1>6 DEF P
<1>9. ASSUME NEW b \in 1 .. 31
      PROVE  2 ^ b = 2 * 2 ^ (b - 1)
  BY <1>6, <1>7 DEF P
<1> QED BY <1>8, <1>9

\* A higher power of two is an even multiple of a lower one.
LEMMA PowerOver ==
  ASSUME NEW a \in 0 .. 31, NEW b \in 0 .. 31, a < b
  PROVE  \E k \in Nat : 2 ^ b = 2 ^ a * (2 * k)
<1> DEFINE Over(c) == \E k \in Nat : 2 ^ c = 2 ^ a * (2 * k)
           Bad == {c \in 0 .. 31 : a < c /\ ~Over(c)}
<1> SUFFICES ASSUME Bad # {}
             PROVE  FALSE
  BY DEF Bad
<1>1. PICK m \in Bad : \A c \in Bad : m <= c
  <2>1. Bad \in SUBSET Nat
    OBVIOUS
  <2> HIDE DEF Bad
  <2> QED BY <2>1, LeastExists
<1>2. m \in 1 .. 31 /\ a < m /\ ~Over(m)
  OBVIOUS
<1>3. 2 ^ m = 2 * 2 ^ (m - 1) /\ 2 ^ a \in Nat
  BY <1>2, Doubles
<1>4. CASE m - 1 = a
  <2>1. 2 ^ m = 2 ^ a * (2 * 1)
    BY <1>3, <1>4
  <2> QED BY <1>2, <2>1
<1>5. CASE m - 1 # a
  <2>1. m - 1 \in 0 .. 31 /\ a < m - 1 /\ ~(m <= m - 1)
    BY <1>2, <1>5
  <2>2. Over(m - 1)
    <3> HIDE DEF Over
    <3> QED BY <1>1, <2>1
  <2>3. PICK k \in Nat : 2 ^ (m - 1) = 2 ^ a * (2 * k)
    BY <2>2
  <2> DEFINE p == 2 ^ a
             q == 2 ^ (m - 1)
             r == 2 ^ m
  <2>4. p \in Nat /\ q = p * (2 * k) /\ r = 2 * q
    BY <1>3, <2>3
  <2> HIDE DEF p, q, r
  <2>5. r = p * (2 * (2 * k)) /\ 2 * k \in Nat
    BY <2>4
  <2> QED BY <1>2, <2>5 DEF p, r
<1> QED BY <1>4, <1>5

\* Multiples of a divisor pass through a division.
LEMMA MultipleOver ==
  ASSUME NEW v \in Int, NEW n \in Nat \ {0}, NEW k \in Int
  PROVE  (v + n * k) \div n = v \div n + k
<1> DEFINE x == v + n * k
           q == x \div n
           r == x % n
           s == v \div n
           t == v % n
           d == s + k - q
<1>1. x \in Int
  OBVIOUS
<1>2. s \in Int /\ t \in Int /\ 0 <= t /\ t <= n - 1 /\ v = n * s + t
  BY SMT
<1> HIDE DEF x
<1>3. q \in Int /\ r \in Int /\ 0 <= r /\ r <= n - 1 /\ x = n * q + r
  BY <1>1, SMT
<1> HIDE DEF q, r, s, t
<1>4. r - t = n * d
  BY <1>2, <1>3, SMT DEF x
<1>5. d \in Int
  BY <1>2, <1>3
<1> HIDE DEF d
<1>6. CASE d >= 1
  <2>1. n * d >= n
    BY <1>5, <1>6, SMT
  <2> QED BY <1>2, <1>3, <1>4, <2>1
<1>7. CASE d <= -1
  <2>1. n * d <= -n
    BY <1>5, <1>7, SMT
  <2> QED BY <1>2, <1>3, <1>4, <2>1
<1>8. CASE d = 0
  BY <1>2, <1>3, <1>8 DEF d, q, x, s
<1> QED BY <1>5, <1>6, <1>7, <1>8

\* One bit turned over.
TurnedOver(v, b) == IF Bit(v, b) THEN v - 2 ^ b ELSE v + 2 ^ b

\* Turning a bit over changes that bit and none below it.
LEMMA OneTurn ==
  ASSUME NEW v \in Int, NEW b \in 0 .. 31
  PROVE  /\ TurnedOver(v, b) \in Int
         /\ ~(Bit(TurnedOver(v, b), b) <=> Bit(v, b))
         /\ \A a \in 0 .. 31 : a < b => (Bit(TurnedOver(v, b), a) <=> Bit(v, a))
<1>1. 2 ^ b \in Nat \ {0}
  BY Doubles
<1> DEFINE w == TurnedOver(v, b)
<1>2. PICK e \in {-1, 1} : w = v + e * 2 ^ b
  <2> DEFINE p == 2 ^ b
  <2>1. p \in Nat /\ (w = v - p \/ w = v + p)
    BY <1>1 DEF TurnedOver
  <2> HIDE DEF p, w
  <2>2. w = v + (-1) * p \/ w = v + 1 * p
    BY <2>1
  <2> QED BY <2>2 DEF p
<1> HIDE DEF w
<1>3. w \in Int
  BY <1>1, <1>2
<1>4. ~(Bit(w, b) <=> Bit(v, b))
  <2> DEFINE n == 2 ^ b
  <2>1. n \in Nat \ {0} /\ w = v + n * e /\ e \in Int
    BY <1>1, <1>2
  <2> HIDE DEF n
  <2>2. w \div n = v \div n + e
    BY <2>1, MultipleOver
  <2> DEFINE q == v \div n
  <2>3. q \in Int
    BY <2>1
  <2>4. w \div n = q + e
    BY <2>2
  <2> HIDE DEF q
  <2>5. ~((q + e) % 2 = 1 <=> q % 2 = 1)
    BY <2>3
  <2> QED BY <2>4, <2>5 DEF Bit, n, q
<1>5. ASSUME NEW a \in 0 .. 31, a < b
      PROVE  Bit(w, a) <=> Bit(v, a)
  <2>1. PICK k \in Nat : 2 ^ b = 2 ^ a * (2 * k)
    BY <1>5, PowerOver
  <2>2. PICK h \in Int : h = e * k
    <3>1. e = 1 \/ e = -1
      OBVIOUS
    <3>2. CASE e = 1
      BY <3>2
    <3>3. CASE e = -1
      <4>1. -k \in Int /\ (-1) * k = -k
        OBVIOUS
      <4> QED BY <3>3, <4>1
    <3> QED BY <3>1, <3>2, <3>3
  <2> DEFINE n == 2 ^ a
             p == 2 ^ b
             q == v \div n
  <2>3. n \in Nat \ {0}
    BY Doubles
  <2>4. p = n * (2 * k) /\ w = v + e * p /\ p \in Nat
    BY <1>1, <1>2, <2>1
  <2> HIDE DEF n, p
  <2>5. w = v + n * (2 * h)
    BY <2>2, <2>3, <2>4, SMT
  <2>6. w \div n = q + 2 * h
    BY <2>3, <2>5, MultipleOver
  <2>7. q \in Int
    BY <2>3
  <2> HIDE DEF q
  <2>8. (q + 2 * h) % 2 = q % 2
    BY <2>7
  <2> QED BY <2>6, <2>8 DEF Bit, n, q
<1> QED BY <1>3, <1>4, <1>5 DEF w

\* Where a field's bits are.
Places == 0 .. 31

\* The number after each bit that Flip turns over.
FlipTurns(C, v, bits) ==
  /\ C[0] = v /\ \A i \in 0 .. Len(bits) : C[i] \in Int
  /\ \A i \in 1 .. Len(bits) : C[i] = TurnedOver(C[i - 1], bits[i])

\* Flip, a bit at a time.
LEMMA FlipIs ==
  ASSUME NEW v \in Int, NEW bits \in Seq(Places)
  PROVE  \E C : FlipTurns(C, v, bits) /\ Flip(v, bits) = C[Len(bits)]
<1> DEFINE n == Len(bits)
           R == Places
           Sum(g) == g = [t \in SUBSET (1 .. n) |->
                            IF t = {} THEN v
                            ELSE IF Bit(g[t \ {Max(t)}], bits[Max(t)])
                                 THEN g[t \ {Max(t)}] - 2 ^ bits[Max(t)]
                                 ELSE g[t \ {Max(t)}] + 2 ^ bits[Max(t)]]
           it == CHOOSE g : Sum(g)
<1>n. n \in Nat /\ bits \in [1 .. n -> R]
  OBVIOUS
<1>1. Flip(v, bits) = it[1 .. n]
  <2>1. DOMAIN bits = 1 .. n
    OBVIOUS
  <2> QED BY <2>1 DEF Flip, FoldLeft, MapThenFoldSet
<1> HIDE DEF n
<1>2. \E g : Sum(g) /\ \A t \in SUBSET (1 .. n) : g[t] \in Int
  <2> DEFINE h == [z \in Int \X R |-> TurnedOver(z[1], z[2])]
  <2>1. h \in [Int \X R -> Int]
    <3>1. \A z \in Int \X R : TurnedOver(z[1], z[2]) \in Int
      BY OneTurn DEF Places
    <3> QED BY <3>1
  <2>2. PICK g \in [SUBSET (1 .. n) -> Int] : Folds(g, h, v, bits, n)
    <3> HIDE DEF h, R
    <3> QED BY <1>n, <2>1, FoldExists
  <2>4. \A z \in Int \X R : h[z] = TurnedOver(z[1], z[2])
    OBVIOUS
  <2> HIDE DEF h, R
  <2>3. ASSUME NEW t \in SUBSET (1 .. n)
        PROVE  g[t] = IF t = {} THEN v ELSE TurnedOver(g[t \ {Max(t)}], bits[Max(t)])
    <3>1. CASE t = {}
      BY <2>2, <3>1 DEF Folds
    <3>2. CASE t # {}
      <4>1. Max(t) \in 1 .. n /\ t \ {Max(t)} \in SUBSET (1 .. n)
        BY <1>n, <3>2, MaxOfBounded
      <4>2. <<g[t \ {Max(t)}], bits[Max(t)]>> \in Int \X R
        BY <1>n, <4>1
      <4>3. g[t] = h[<<g[t \ {Max(t)}], bits[Max(t)]>>]
        BY <2>2, <3>2 DEF Folds
      <4>5. g[t] = TurnedOver(g[t \ {Max(t)}], bits[Max(t)])
        BY <2>4, <4>2, <4>3
      <4> QED BY <3>2, <4>5
    <3> QED BY <3>1, <3>2
  <2>5. Sum(g)
    BY <2>3 DEF TurnedOver
  <2>6. \A t \in SUBSET (1 .. n) : g[t] \in Int
    BY Zenon
  <2> QED BY <2>5, <2>6
<1>3. Sum(it)
  BY <1>2, Zenon
<1>4. \A t \in SUBSET (1 .. n) :
        it[t] = IF t = {} THEN v ELSE TurnedOver(it[t \ {Max(t)}], bits[Max(t)])
  BY <1>3 DEF TurnedOver
<1> HIDE DEF it
<1> DEFINE C == [i \in 0 .. n |-> it[1 .. i]]
<1>5. C[0] = v
  <2>1. 1 .. 0 = {} /\ {} \in SUBSET (1 .. n) /\ 0 \in 0 .. n
    BY <1>n
  <2> QED BY <1>4, <2>1
<1>6. \A i \in 1 .. n : C[i] = TurnedOver(C[i - 1], bits[i])
  <2> TAKE i \in 1 .. n
  <2>1. i \in 0 .. n /\ i - 1 \in 0 .. n
    BY <1>n
  <2>2. it[1 .. i] = TurnedOver(it[1 .. (i - 1)], bits[i])
    <3>1. /\ 1 .. i \in SUBSET (1 .. n) /\ 1 .. i # {}
          /\ Max(1 .. i) = i /\ (1 .. i) \ {i} = 1 .. (i - 1)
      BY <1>n, MaxOfUpTo
    <3>2. it[1 .. i] = TurnedOver(it[(1 .. i) \ {Max(1 .. i)}], bits[Max(1 .. i)])
      BY <1>4, <3>1
    <3> QED BY <3>1, <3>2
  <2> QED BY <2>1, <2>2
<1>7. C[n] = it[1 .. n]
  BY <1>n
<1> HIDE DEF C
<1>8. \A i \in 0 .. n : C[i] \in Int
  <2> DEFINE Bad == {i \in 0 .. n : C[i] \notin Int}
  <2> SUFFICES ASSUME Bad # {}
               PROVE  FALSE
    OBVIOUS
  <2>1. PICK m \in Bad : \A i \in Bad : m <= i
    <3>1. Bad \in SUBSET Nat
      OBVIOUS
    <3> HIDE DEF Bad
    <3> QED BY <3>1, LeastExists
  <2>2. m # 0
    BY <1>5
  <2>3. m \in 1 .. n /\ m - 1 \in 0 .. n /\ ~(m <= m - 1)
    BY <1>n, <2>2
  <2>4. C[m - 1] \in Int /\ bits[m] \in Places
    BY <1>n, <2>1, <2>3
  <2>5. TurnedOver(C[m - 1], bits[m]) \in Int
    BY <2>4, OneTurn DEF Places
  <2> QED BY <1>6, <2>3, <2>5
<1>9. FlipTurns(C, v, bits)
  BY <1>5, <1>6, <1>8 DEF FlipTurns, n
<1> QED BY <1>1, <1>7, <1>9 DEF n

\* Flipped bits in ascending order leave the lowest of them flipped.
LEMMA FlipFlips ==
  ASSUME NEW v \in Int, NEW bits \in Seq(Places), Len(bits) > 0,
         \A i \in 2 .. Len(bits) : bits[1] < bits[i]
  PROVE  Flip(v, bits) \in Int /\ ~(Bit(Flip(v, bits), bits[1]) <=> Bit(v, bits[1]))
<1> DEFINE n == Len(bits)
           a == bits[1]
<1>n. n \in Nat /\ n > 0 /\ a \in Places
  OBVIOUS
<1>1. PICK C : FlipTurns(C, v, bits) /\ Flip(v, bits) = C[n]
  BY FlipIs
<1>2. /\ C[0] = v /\ \A i \in 0 .. n : C[i] \in Int
      /\ \A i \in 1 .. n : C[i] = TurnedOver(C[i - 1], bits[i])
  BY <1>1 DEF FlipTurns
<1>3. \A i \in 2 .. n : a < bits[i] /\ bits[i] \in Places
  OBVIOUS
<1>4. C[1] = TurnedOver(v, a)
  <2>1. 1 \in 1 .. n /\ 1 - 1 = 0
    BY <1>n
  <2> QED BY <1>2, <2>1
<1> HIDE DEF n, a
<1> DEFINE Same(x) == Bit(x, a) <=> Bit(v, a)
           Bad == {i \in 1 .. n : Same(C[i])}
<1>5. ~Same(C[1])
  BY <1>n, <1>4, OneTurn DEF Places
<1>6. Bad = {}
  <2> SUFFICES ASSUME Bad # {}
               PROVE  FALSE
    OBVIOUS
  <2> HIDE DEF Same
  <2>1. PICK m \in Bad : \A i \in Bad : m <= i
    <3>1. Bad \in SUBSET Nat
      BY <1>n
    <3> HIDE DEF Bad
    <3> QED BY <3>1, LeastExists
  <2>2. m # 1
    BY <1>5
  <2>3. m \in 2 .. n /\ m \in 1 .. n /\ m - 1 \in 1 .. n /\ m - 1 \in 0 .. n /\ ~(m <= m - 1)
    BY <1>n, <2>2
  <2>4. ~Same(C[m - 1]) /\ Same(C[m])
    BY <2>1, <2>3
  <2> DEFINE w == C[m - 1]
             b == bits[m]
  <2>5. w \in Int /\ b \in Places /\ a < b /\ C[m] = TurnedOver(w, b)
    BY <1>2, <1>3, <2>3
  <2> HIDE DEF w, b
  <2>6. Bit(TurnedOver(w, b), a) <=> Bit(w, a)
    BY <1>n, <2>5, OneTurn DEF Places
  <2> QED BY <2>4, <2>5, <2>6 DEF Same, w
<1>7. n \in 1 .. n /\ n \in 0 .. n
  BY <1>n
<1>8. C[n] \in Int /\ ~Same(C[n])
  <2> HIDE DEF Same
  <2> QED BY <1>2, <1>6, <1>7
<1> QED BY <1>1, <1>8 DEF a

-------------------------------------------------------------------------------
(* The octets of a sample. *)

\* What is above bit b of the octet k of a number is what is above a bit of the number.
Above(v, k, b) == (v \div 256 ^ k) \div 2 ^ b = v \div 2 ^ (8 * k + b)

\* A bit of an octet of a number is that bit of the number.
LEMMA BitOfOctet ==
  ASSUME NEW v \in Int, NEW k \in 0 .. 3, NEW b \in 0 .. 7
  PROVE  Above(v, k, b)
<1> DEFINE P(i, j) == Above(v, i, j)
<1>1. P(0, 0) /\ P(0, 1) /\ P(0, 2) /\ P(0, 3) /\ P(0, 4) /\ P(0, 5) /\ P(0, 6) /\ P(0, 7)
  BY DEF Above
<1>2. P(1, 0) /\ P(1, 1) /\ P(1, 2) /\ P(1, 3) /\ P(1, 4) /\ P(1, 5) /\ P(1, 6) /\ P(1, 7)
  BY DEF Above
<1>3. P(2, 0) /\ P(2, 1) /\ P(2, 2) /\ P(2, 3) /\ P(2, 4) /\ P(2, 5) /\ P(2, 6) /\ P(2, 7)
  BY DEF Above
<1>4. P(3, 0) /\ P(3, 1) /\ P(3, 2) /\ P(3, 3) /\ P(3, 4) /\ P(3, 5) /\ P(3, 6) /\ P(3, 7)
  BY DEF Above
<1>5. /\ k = 0 \/ k = 1 \/ k = 2 \/ k = 3
      /\ b = 0 \/ b = 1 \/ b = 2 \/ b = 3 \/ b = 4 \/ b = 5 \/ b = 6 \/ b = 7
  OBVIOUS
<1> HIDE DEF P
<1>6. P(k, b)
  BY <1>1, <1>2, <1>3, <1>4, <1>5
<1> QED BY <1>6 DEF P

\* The octets of a number.
LEMMA OctetsOf ==
  ASSUME NEW v \in Int, NEW n \in 1 .. 4
  PROVE  LittleEndian(v, n) \in Seq(OctetSets) /\ Len(LittleEndian(v, n)) = n
BY DEF LittleEndian, OctetSets

\* Numbers that differ in a bit have octets that differ.
LEMMA OctetsApart ==
  ASSUME NEW v \in Int, NEW w \in Int, NEW n \in 1 .. 4,
         NEW j \in Nat, j < 8 * n, ~(Bit(v, j) <=> Bit(w, j))
  PROVE  \E i \in 1 .. n : LittleEndian(v, n)[i] # LittleEndian(w, n)[i]
<1>1. PICK k \in 0 .. 3, b \in 0 .. 7 : j = 8 * k + b /\ k + 1 <= n
  <2> DEFINE k == j \div 8
             b == j % 8
  <2>1. k \in 0 .. 3 /\ b \in 0 .. 7 /\ j = 8 * k + b /\ k + 1 <= n
    OBVIOUS
  <2> QED BY <2>1
<1> DEFINE i == k + 1
<1>2. i \in 1 .. n /\ i - 1 = k
  BY <1>1
<1>3. \A x \in Int : b \in LittleEndian(x, n)[i] <=> Bit(x, j)
  <2> TAKE x \in Int
  <2>1. LittleEndian(x, n)[i] = {c \in 0 .. 7 : ((x \div 256 ^ k) \div 2 ^ c) % 2 = 1}
    <3> HIDE DEF i
    <3> QED BY <1>2 DEF LittleEndian
  <2>2. (x \div 256 ^ k) \div 2 ^ b = x \div 2 ^ (8 * k + b)
    <3>1. Above(x, k, b)
      BY BitOfOctet
    <3> QED BY <3>1 DEF Above
  <2> HIDE DEF i
  <2> QED BY <1>1, <2>1, <2>2 DEF Bit
<1> HIDE DEF i
<1>4. ~(b \in LittleEndian(v, n)[i] <=> b \in LittleEndian(w, n)[i])
  BY <1>3
<1> QED BY <1>2, <1>4


\* What a stored sample is: four whole numbers.
FieldNames == {"value", "quality", "origin", "reserved"}
WholeSample(s) == DOMAIN s = FieldNames /\ \A f \in FieldNames : s[f] \in Int

\* So many octets in a row.
OctetRun(x, n) == x \in Seq(OctetSets) /\ Len(x) = n

\* What is appended follows what was there.
LEMMA Appending ==
  ASSUME NEW x, NEW y, NEW m \in Nat, NEW n \in Nat, OctetRun(x, m), OctetRun(y, n)
  PROVE  /\ OctetRun(Cat(x, y), m + n)
         /\ \A j \in 1 .. m : Cat(x, y)[j] = x[j]
         /\ \A j \in 1 .. n : Cat(x, y)[m + j] = y[j]
<1>1. /\ x \o y \in Seq(OctetSets) /\ Len(x \o y) = m + n
      /\ \A i \in 1 .. m + n : (x \o y)[i] = IF i <= m THEN x[i] ELSE y[i - m]
  BY ConcatProperties DEF OctetRun
<1>3. ASSUME NEW j \in 1 .. m
      PROVE  (x \o y)[j] = x[j]
  <2>1. j \in 1 .. m + n /\ j <= m
    OBVIOUS
  <2> QED BY <1>1, <2>1
<1>4. ASSUME NEW j \in 1 .. n
      PROVE  (x \o y)[m + j] = y[j]
  <2>1. m + j \in 1 .. m + n /\ ~(m + j <= m) /\ (m + j) - m = j
    OBVIOUS
  <2> QED BY <1>1, <2>1
<1> QED BY <1>1, <1>3, <1>4 DEF OctetRun, Cat

\* The eight octets of a sample, field by field.
LEMMA SampleIs ==
  ASSUME NEW s, WholeSample(s)
  PROVE  /\ SampleBytes(s) \in Seq(OctetSets) /\ Len(SampleBytes(s)) = 8
         /\ \A j \in 1 .. 4 : SampleBytes(s)[j] = LittleEndian(s.value, 4)[j]
         /\ SampleBytes(s)[5] = LittleEndian(s.quality, 1)[1]
         /\ SampleBytes(s)[6] = LittleEndian(s.origin, 1)[1]
         /\ \A j \in 1 .. 2 : SampleBytes(s)[6 + j] = LittleEndian(s.reserved, 2)[j]
<1> DEFINE p == LittleEndian(s.value, 4)
           q == LittleEndian(s.quality, 1)
           r == LittleEndian(s.origin, 1)
           t == LittleEndian(s.reserved, 2)
           u == Cat(p, q)
           w == Cat(u, r)
           z == Cat(w, t)
<1>1. OctetRun(p, 4) /\ OctetRun(q, 1) /\ OctetRun(r, 1) /\ OctetRun(t, 2)
  <2>1. s.value \in Int /\ s.quality \in Int /\ s.origin \in Int /\ s.reserved \in Int
    BY DEF WholeSample, FieldNames
  <2>2. 4 \in 1 .. 4 /\ 1 \in 1 .. 4 /\ 2 \in 1 .. 4
    OBVIOUS
  <2> QED BY <2>1, <2>2, OctetsOf DEF OctetRun
<1>2. SampleBytes(s) = z
  BY DEF SampleBytes, Cat
<1> HIDE DEF p, q, r, t
<1>3. /\ OctetRun(u, 4 + 1) /\ \A j \in 1 .. 4 : u[j] = p[j]
      /\ \A j \in 1 .. 1 : u[4 + j] = q[j]
  BY <1>1, Appending
<1>4. OctetRun(u, 5) /\ u[5] = q[1] /\ \A j \in 1 .. 4 : u[j] = p[j]
  <2> HIDE DEF u
  <2>1. 1 \in 1 .. 1 /\ 4 + 1 = 5
    OBVIOUS
  <2> QED BY <1>3, <2>1
<1> HIDE DEF u
<1>5. /\ OctetRun(w, 5 + 1) /\ \A j \in 1 .. 5 : w[j] = u[j]
      /\ \A j \in 1 .. 1 : w[5 + j] = r[j]
  BY <1>1, <1>4, Appending
<1>6. OctetRun(w, 6) /\ w[6] = r[1] /\ \A j \in 1 .. 5 : w[j] = u[j]
  <2> HIDE DEF w
  <2>1. 1 \in 1 .. 1 /\ 5 + 1 = 6
    OBVIOUS
  <2> QED BY <1>5, <2>1
<1> HIDE DEF w
<1>7. /\ OctetRun(z, 6 + 2) /\ \A j \in 1 .. 6 : z[j] = w[j]
      /\ \A j \in 1 .. 2 : z[6 + j] = t[j]
  BY <1>1, <1>6, Appending
<1> HIDE DEF z
<1>8. OctetRun(z, 8)
  <2>1. 6 + 2 = 8
    OBVIOUS
  <2> QED BY <1>7, <2>1
<1>9. \A j \in 1 .. 4 : z[j] = p[j]
  <2>1. \A j \in 1 .. 4 : j \in 1 .. 5 /\ j \in 1 .. 6
    OBVIOUS
  <2> QED BY <1>4, <1>6, <1>7, <2>1
<1>10. z[5] = q[1] /\ z[6] = r[1]
  <2>1. 5 \in 1 .. 5 /\ 5 \in 1 .. 6 /\ 6 \in 1 .. 6
    OBVIOUS
  <2> QED BY <1>4, <1>6, <1>7, <2>1
<1> QED BY <1>2, <1>7, <1>8, <1>9, <1>10 DEF p, q, r, t, OctetRun

\* What may flip of a stored sample: bits of one field, each once.
BurstOk(field, bits) ==
  /\ field \in FieldNames /\ bits \in Seq(Places) /\ Len(bits) > 0
  /\ \A i \in 2 .. Len(bits) : bits[1] < bits[i]
  /\ field = "value" => bits[1] < 32
  /\ field = "quality" => bits[1] < 8
  /\ field = "origin" => bits[1] < 8
  /\ field = "reserved" => bits[1] < 16

\* Of the octets x and y, only some of the four after the first o differ, and one does.
ApartWithin(x, y, o) ==
  /\ \A j \in 1 .. 8 : j <= o \/ j > o + 4 => x[j] = y[j]
  /\ \E j \in 1 .. 4 : x[o + j] # y[o + j]

\* Flipped bits of a field change one of its octets, and those of no other field.
LEMMA FlippedApart ==
  ASSUME NEW s, WholeSample(s), NEW field, NEW bits, BurstOk(field, bits),
         NEW t, t = [s EXCEPT ![field] = Flip(s[field], bits)]
  PROVE  /\ WholeSample(t)
         /\ \E o \in {0, 4} : ApartWithin(SampleBytes(s), SampleBytes(t), o)
<1> DEFINE v == s[field]
           w == Flip(v, bits)
           a == bits[1]
           x == SampleBytes(s)
           y == SampleBytes(t)
<1>1. v \in Int /\ field \in FieldNames /\ a \in Nat
  <2>1. bits[1] \in Places
    BY DEF BurstOk
  <2>2. a \in Nat
    BY <2>1 DEF Places
  <2> QED BY <2>2 DEF WholeSample, BurstOk
<1>2. w \in Int /\ ~(Bit(v, a) <=> Bit(w, a))
  <2>1. Flip(v, bits) \in Int /\ ~(Bit(Flip(v, bits), bits[1]) <=> Bit(v, bits[1]))
    <3> HIDE DEF v
    <3> QED BY <1>1, FlipFlips DEF BurstOk
  <2> QED BY <2>1
<1>3. DOMAIN t = FieldNames /\ t[field] = w /\ \A f \in FieldNames \ {field} : t[f] = s[f]
  <2> HIDE DEF w
  <2> QED BY <1>1 DEF WholeSample, w
<1>4. WholeSample(t)
  <2> HIDE DEF w
  <2> QED BY <1>2, <1>3 DEF WholeSample
<1>5. /\ \A j \in 1 .. 4 : x[j] = LittleEndian(s.value, 4)[j]
      /\ x[5] = LittleEndian(s.quality, 1)[1] /\ x[6] = LittleEndian(s.origin, 1)[1]
      /\ \A j \in 1 .. 2 : x[6 + j] = LittleEndian(s.reserved, 2)[j]
  BY SampleIs
<1>6. /\ \A j \in 1 .. 4 : y[j] = LittleEndian(t.value, 4)[j]
      /\ y[5] = LittleEndian(t.quality, 1)[1] /\ y[6] = LittleEndian(t.origin, 1)[1]
      /\ \A j \in 1 .. 2 : y[6 + j] = LittleEndian(t.reserved, 2)[j]
  BY <1>4, SampleIs
<1>7. \A n \in 1 .. 4 : a < 8 * n => \E i \in 1 .. n : LittleEndian(v, n)[i] # LittleEndian(w, n)[i]
  <2> HIDE DEF a, v, w
  <2> QED BY <1>1, <1>2, OctetsApart
<1>8. \A j \in 1 .. 8 : \/ j \in 1 .. 4 \/ j = 5 \/ j = 6
                        \/ \E i \in 1 .. 2 : j = 6 + i
  <2> TAKE j \in 1 .. 8
  <2>1. j = 7 => j = 6 + 1
    OBVIOUS
  <2>2. j = 8 => j = 6 + 2
    OBVIOUS
  <2>3. j \in 1 .. 4 \/ j = 5 \/ j = 6 \/ j = 7 \/ j = 8
    OBVIOUS
  <2>4. 1 \in 1 .. 2 /\ 2 \in 1 .. 2
    OBVIOUS
  <2> QED BY <2>1, <2>2, <2>3, <2>4
<1>9. /\ field = "value" => a < 32
      /\ field = "quality" => a < 8
      /\ field = "origin" => a < 8
      /\ field = "reserved" => a < 16
  BY DEF BurstOk
<1> HIDE DEF v, w, a, x, y
<1>10. CASE field = "value"
  <2>1. t.quality = s.quality /\ t.origin = s.origin /\ t.reserved = s.reserved
    BY <1>3, <1>10 DEF FieldNames
  <2>2. \A j \in 1 .. 8 : j <= 0 \/ j > 0 + 4 => x[j] = y[j]
    BY <1>5, <1>6, <1>8, <2>1
  <2>3. PICK i \in 1 .. 4 : LittleEndian(v, 4)[i] # LittleEndian(w, 4)[i]
    BY <1>7, <1>9, <1>10
  <2>4. x[i] # y[i] /\ 0 + i = i
    BY <1>3, <1>5, <1>6, <1>10, <2>3 DEF v
  <2> QED BY <1>4, <2>2, <2>4 DEF ApartWithin, x, y
<1>11. CASE field = "quality"
  <2>1. t.value = s.value /\ t.origin = s.origin /\ t.reserved = s.reserved
    BY <1>3, <1>11 DEF FieldNames
  <2>2. \A j \in 1 .. 8 : j <= 4 \/ j > 4 + 4 => x[j] = y[j]
    BY <1>5, <1>6, <2>1
  <2>3. PICK i \in 1 .. 1 : LittleEndian(v, 1)[i] # LittleEndian(w, 1)[i]
    BY <1>7, <1>9, <1>11
  <2>4. x[5] # y[5] /\ 4 + 1 = 5 /\ 1 \in 1 .. 4
    BY <1>3, <1>5, <1>6, <1>11, <2>3 DEF v
  <2> QED BY <1>4, <2>2, <2>4 DEF ApartWithin, x, y
<1>12. CASE field = "origin"
  <2>1. t.value = s.value /\ t.quality = s.quality /\ t.reserved = s.reserved
    BY <1>3, <1>12 DEF FieldNames
  <2>2. \A j \in 1 .. 8 : j <= 4 \/ j > 4 + 4 => x[j] = y[j]
    BY <1>5, <1>6, <2>1
  <2>3. PICK i \in 1 .. 1 : LittleEndian(v, 1)[i] # LittleEndian(w, 1)[i]
    BY <1>7, <1>9, <1>12
  <2>4. x[6] # y[6] /\ 4 + 2 = 6 /\ 2 \in 1 .. 4
    BY <1>3, <1>5, <1>6, <1>12, <2>3 DEF v
  <2> QED BY <1>4, <2>2, <2>4 DEF ApartWithin, x, y
<1>13. CASE field = "reserved"
  <2>1. t.value = s.value /\ t.quality = s.quality /\ t.origin = s.origin
    BY <1>3, <1>13 DEF FieldNames
  <2>2. \A j \in 1 .. 8 : j <= 4 \/ j > 4 + 4 => x[j] = y[j]
    BY <1>5, <1>6, <2>1
  <2>3. PICK i \in 1 .. 2 : LittleEndian(v, 2)[i] # LittleEndian(w, 2)[i]
    BY <1>7, <1>9, <1>13
  <2>4. x[6 + i] # y[6 + i] /\ 4 + (2 + i) = 6 + i /\ 2 + i \in 1 .. 4
    BY <1>3, <1>5, <1>6, <1>13, <2>3 DEF v
  <2>5. \E j \in 1 .. 4 : x[4 + j] # y[4 + j]
    BY <2>4
  <2> QED BY <1>4, <2>2, <2>5 DEF ApartWithin, x, y
<1> QED BY <1>1, <1>10, <1>11, <1>12, <1>13 DEF FieldNames

-------------------------------------------------------------------------------
(* A stored record that changes in one field fails its CRC. *)

\* What may flip of a stored record, in the proof's own terms.
LEMMA BurstIsOk ==
  ASSUME NEW burst \in Bursts
  PROVE  burst.channel \in 1 .. 8 /\ BurstOk(burst.field, burst.bits)
<1> DEFINE width == FieldWidth[burst.field]
           S == 0 .. width - 1
           bits == burst.bits
           field == burst.field
<1>1. /\ burst.channel \in 1 .. 8 /\ field \in DOMAIN FieldWidth
      /\ bits \in Seq(S) /\ bits # <<>>
      /\ \A i, j \in DOMAIN bits : i < j => bits[i] < bits[j]
  BY BurstsAssumption DEF Channels
<1>2. DOMAIN FieldWidth = FieldNames /\ field \in FieldNames
  BY <1>1 DEF FieldWidth, FieldNames
<1>3. /\ field = "value" => width = 32
      /\ field = "quality" => width = 8
      /\ field = "origin" => width = 8
      /\ field = "reserved" => width = 16
  BY DEF FieldWidth
<1>4. width \in {8, 16, 32}
  BY <1>2, <1>3 DEF FieldNames
<1> HIDE DEF width, field, bits
<1>5. \A b \in S : b \in Places /\ b < width
  BY <1>4 DEF Places
<1> DEFINE n == Len(bits)
<1> HIDE DEF S
<1>6. n \in Nat /\ n > 0 /\ DOMAIN bits = 1 .. n /\ \A i \in 1 .. n : bits[i] \in S
  BY <1>1
<1>7. bits \in Seq(Places)
  <2>1. bits \in [1 .. n -> Places]
    BY <1>1, <1>5, <1>6
  <2> QED BY <1>6, <2>1
<1>8. bits[1] < width /\ \A i \in 2 .. n : bits[1] < bits[i]
  <2>1. 1 \in 1 .. n /\ \A i \in 2 .. n : i \in 1 .. n /\ 1 < i
    BY <1>6
  <2>2. \A i, j \in 1 .. n : i < j => bits[i] < bits[j]
    BY <1>1, <1>6
  <2>3. bits[1] < width
    BY <1>5, <1>6, <2>1
  <2> HIDE DEF n
  <2> QED BY <2>1, <2>2, <2>3
<1>9. BurstOk(field, bits)
  BY <1>2, <1>3, <1>6, <1>7, <1>8 DEF BurstOk
<1> QED BY <1>1, <1>9 DEF field, bits

\* The samples of a record of all the channels.
WholeSamples(samples) ==
  DOMAIN samples = 1 .. Channels /\ \A c \in 1 .. Channels : WholeSample(samples[c])

\* What the CRC of a record is taken of.
RecordBytes(samples) == FlattenSeq([c \in DOMAIN samples |-> SampleBytes(samples[c])])

\* The octets of a record, sample by sample.
LEMMA RecordIs ==
  ASSUME NEW samples, WholeSamples(samples)
  PROVE  /\ OctetRun(RecordBytes(samples), 64)
         /\ \A i \in 1 .. 8, j \in 1 .. 8 :
              RecordBytes(samples)[8 * (i - 1) + j] = SampleBytes(samples[i])[j]
<1> DEFINE seqs == [c \in DOMAIN samples |-> SampleBytes(samples[c])]
<1>1. DOMAIN samples = 1 .. 8 /\ \A c \in 1 .. 8 : WholeSample(samples[c])
  BY DEF WholeSamples, Channels
<1>2. \A c \in 1 .. 8 : SampleBytes(samples[c]) \in Seq(OctetSets) /\ Len(SampleBytes(samples[c])) = 8
  BY <1>1, SampleIs
<1>3. \A c \in 1 .. 8 : seqs[c] = SampleBytes(samples[c])
  BY <1>1
<1>4. seqs \in Seq(Seq(OctetSets)) /\ Len(seqs) = 8
  BY <1>1, <1>2
<1>5. RecordBytes(samples) = FlattenSeq(seqs)
  BY DEF RecordBytes
<1> HIDE DEF seqs
<1>6. Len(seqs) > 0 /\ \A i \in 1 .. Len(seqs) : Len(seqs[i]) = 8
  BY <1>2, <1>3, <1>4
<1>7. /\ FlattenSeq(seqs) \in Seq(OctetSets) /\ Len(FlattenSeq(seqs)) = 8 * Len(seqs)
      /\ \A i \in 1 .. Len(seqs), j \in 1 .. 8 : FlattenSeq(seqs)[8 * (i - 1) + j] = seqs[i][j]
  BY <1>4, <1>6, FlattenEights
<1>8. ASSUME NEW i \in 1 .. 8, NEW j \in 1 .. 8
      PROVE  RecordBytes(samples)[8 * (i - 1) + j] = SampleBytes(samples[i])[j]
  <2>1. i \in 1 .. Len(seqs)
    BY <1>4
  <2>2. FlattenSeq(seqs)[8 * (i - 1) + j] = seqs[i][j]
    BY <1>7, <2>1
  <2> QED BY <1>3, <1>5, <2>2
<1>9. OctetRun(RecordBytes(samples), 64)
  BY <1>4, <1>5, <1>7 DEF OctetRun
<1> QED BY <1>8, <1>9

\* Octets of two records that differ within one sample, and there within four.
LEMMA ChangedWithin ==
  ASSUME NEW a, WholeSamples(a), NEW b, WholeSamples(b), NEW c \in 1 .. 8, NEW o \in {0, 4},
         \A i \in 1 .. 8 : i # c => a[i] = b[i],
         ApartWithin(SampleBytes(a[c]), SampleBytes(b[c]), o)
  PROVE  Crc32(RecordBytes(a)) # Crc32(RecordBytes(b))
<1> DEFINE x == RecordBytes(a)
           y == RecordBytes(b)
           k == 8 * (c - 1) + o
<1>1. /\ x \in Seq(OctetSets) /\ Len(x) = 64 /\ y \in Seq(OctetSets) /\ Len(y) = 64
      /\ \A i \in 1 .. 8, j \in 1 .. 8 : /\ x[8 * (i - 1) + j] = SampleBytes(a[i])[j]
                                         /\ y[8 * (i - 1) + j] = SampleBytes(b[i])[j]
  BY RecordIs DEF OctetRun
<1> HIDE DEF x, y
<1>2. k \in Nat /\ k + 4 <= 64
  OBVIOUS
<1>3. ASSUME NEW p \in 1 .. 64, p <= k \/ p > k + 4
      PROVE  x[p] = y[p]
  <2>1. PICK i \in 1 .. 8, j \in 1 .. 8 : p = 8 * (i - 1) + j
    <3> DEFINE i == ((p - 1) \div 8) + 1
               j == ((p - 1) % 8) + 1
    <3>1. i \in 1 .. 8 /\ j \in 1 .. 8 /\ p = 8 * (i - 1) + j
      OBVIOUS
    <3> QED BY <3>1
  <2>2. CASE i # c
    <3>1. a[i] = b[i]
      BY <2>2
    <3>2. /\ x[8 * (i - 1) + j] = SampleBytes(a[i])[j]
          /\ y[8 * (i - 1) + j] = SampleBytes(b[i])[j]
      BY <1>1
    <3> QED BY <2>1, <3>1, <3>2
  <2>3. CASE i = c
    <3>1. j <= o \/ j > o + 4
      BY <1>3, <2>1, <2>3
    <3>2. SampleBytes(a[c])[j] = SampleBytes(b[c])[j]
      BY <3>1 DEF ApartWithin
    <3>3. /\ x[8 * (i - 1) + j] = SampleBytes(a[i])[j]
          /\ y[8 * (i - 1) + j] = SampleBytes(b[i])[j]
      BY <1>1
    <3> QED BY <2>1, <2>3, <3>2, <3>3
  <2> QED BY <2>2, <2>3
<1>4. PICK j \in 1 .. 4 : x[k + j] # y[k + j]
  <2>1. PICK j \in 1 .. 4 : SampleBytes(a[c])[o + j] # SampleBytes(b[c])[o + j]
    BY DEF ApartWithin
  <2>2. o + j \in 1 .. 8 /\ k + j = 8 * (c - 1) + (o + j)
    OBVIOUS
  <2>3. x[8 * (c - 1) + (o + j)] # y[8 * (c - 1) + (o + j)]
    BY <1>1, <2>1, <2>2
  <2> QED BY <2>2, <2>3
<1> HIDE DEF k
<1>5. \A p \in 1 .. Len(x) : p <= k \/ p > k + 4 => x[p] = y[p]
  BY <1>1, <1>3
<1>6. Len(x) = Len(y) /\ k + 4 <= Len(x)
  BY <1>1, <1>2
<1>7. Crc32(x) = Crc32(y) => \A i \in 1 .. 4 : x[k + i] = y[k + i]
  <2>1. /\ x \in Seq(OctetSets) /\ y \in Seq(OctetSets) /\ Len(x) = Len(y)
        /\ k \in Nat /\ k + 4 <= Len(x)
    BY <1>1, <1>2, <1>6
  <2> QED BY <1>5, <2>1, CrcApart
<1> QED BY <1>4, <1>7 DEF x, y

\* A record whose channels' samples are whole, and the same after a burst.
WholeRecord(t) == {"samples", "crc"} \subseteq DOMAIN t /\ WholeSamples(t.samples)

\* A burst leaves a record that fails the CRC it had.
LEMMA BurstFails ==
  ASSUME NEW t, WholeRecord(t), Verifies(t), NEW burst \in Bursts,
         NEW u, u = [t EXCEPT !.samples[burst.channel][burst.field] = Flip(@, burst.bits)]
  PROVE  WholeRecord(u) /\ ~Verifies(u)
<1> DEFINE c == burst.channel
           field == burst.field
           bits == burst.bits
           a == t.samples
           s == a[c]
           z == [s EXCEPT ![field] = Flip(s[field], bits)]
           b == [a EXCEPT ![c] = z]
<1>1. c \in 1 .. 8 /\ BurstOk(field, bits)
  BY BurstIsOk
<1>2. DOMAIN a = 1 .. 8 /\ \A i \in 1 .. 8 : WholeSample(a[i])
  BY DEF WholeRecord, WholeSamples, Channels
<1>3. u.samples = b /\ u.crc = t.crc /\ DOMAIN u = DOMAIN t
  BY DEF WholeRecord
<1> HIDE DEF c, field, bits, a
<1>4. PICK o \in {0, 4} : WholeSample(z) /\ ApartWithin(SampleBytes(s), SampleBytes(z), o)
  BY <1>1, <1>2, FlippedApart
<1> HIDE DEF z
<1>5. DOMAIN b = 1 .. 8 /\ b[c] = z /\ \A i \in 1 .. 8 : i # c => b[i] = a[i]
  BY <1>1, <1>2
<1> HIDE DEF b
<1>6. WholeSamples(b) /\ WholeSamples(a)
  BY <1>2, <1>4, <1>5 DEF WholeSamples, Channels
<1>7. Crc32(RecordBytes(a)) # Crc32(RecordBytes(b))
  BY <1>1, <1>4, <1>5, <1>6, ChangedWithin
<1>8. WholeRecord(u)
  BY <1>3, <1>6 DEF WholeRecord
<1>9. Crc32(RecordBytes(a)) = t.crc
  BY DEF Verifies, ComputeCrc, RecordBytes, a
<1>10. Verifies(u) <=> Crc32(RecordBytes(b)) = t.crc
  BY <1>3 DEF Verifies, ComputeCrc, RecordBytes
<1> QED BY <1>7, <1>8, <1>9, <1>10

-------------------------------------------------------------------------------
(* The invariant of the stored record. *)

\* The inductive invariant: what a sender means is numbers; the record's samples are
\* whole, so that their octets say all of them; and it verifies unless it is the one
\* that was corrupted.
CrcInv ==
  /\ \A d \in wire : Numbers(d.asdu)
  /\ \A t \in record : WholeRecord(t)
  /\ CorruptionCaught

\* A record is stamped over what it holds.
LEMMA ProcessedVerifies ==
  ASSUME NEW id, NEW ts, NEW asdu, Numbers(asdu)
  PROVE  WholeRecord(ProcessFrame(id, ts, asdu)) /\ Verifies(ProcessFrame(id, ts, asdu))
<1> DEFINE samples == [c \in 1 .. Channels |->
                         Sample(asdu.samples[c].value, asdu.samples[c].quality % 256, Live)]
           tick == [Empty(id, ts) EXCEPT !.flags = {Complete}, !.samples = samples]
           t == ProcessFrame(id, ts, asdu)
<1>1. t = StampCrc(tick)
  BY DEF ProcessFrame
<1>2. \A v, q, o : /\ DOMAIN Sample(v, q, o) = FieldNames
                   /\ Sample(v, q, o).value = v /\ Sample(v, q, o).quality = q
                   /\ Sample(v, q, o).origin = o /\ Sample(v, q, o).reserved = 0
  BY DEF Sample, FieldNames
<1>3. \A v, q, o \in Int : WholeSample(Sample(v, q, o))
  BY <1>2 DEF WholeSample, FieldNames
<1>4. \A c \in 1 .. Channels : /\ asdu.samples[c].value \in Int
                               /\ asdu.samples[c].quality % 256 \in Int /\ Live \in Int
  BY DEF Numbers, Live
<1>5. WholeSamples(samples)
  BY <1>3, <1>4 DEF WholeSamples
<1>6. tick.samples = samples /\ DOMAIN tick = {"id", "ts", "flags", "crc", "samples"}
  BY DEF Empty
<1> HIDE DEF samples, tick, t
<1>7. t.samples = tick.samples /\ t.crc = ComputeCrc(tick) /\ DOMAIN t = DOMAIN tick
  BY <1>1, <1>6 DEF StampCrc
<1>8. ComputeCrc(t) = ComputeCrc(tick)
  BY <1>7 DEF ComputeCrc
<1>9. WholeRecord(t)
  BY <1>5, <1>6, <1>7 DEF WholeRecord
<1> QED BY <1>7, <1>8, <1>9 DEF Verifies, t

\* Nothing is stored before anything was sent.
LEMMA CrcInvInit ==
  ASSUME Init
  PROVE  CrcInv
BY DEF Init, PublisherInit, CrcInv, CorruptionCaught

\* The publisher sends numbers.
LEMMA PublisherCrc ==
  ASSUME PubInv, CrcInv, PublisherNext, UNCHANGED daemonVars
  PROVE  CrcInv'
<1>1. UNCHANGED <<record, bent>>
  BY DEF daemonVars
<1>2. ASSUME NEW d \in wire'
      PROVE  Numbers(d.asdu)
  <2>1. CASE d \in wire
    BY <2>1 DEF CrcInv
  <2>2. CASE d \notin wire
    <3>1. Emit
      BY <2>2 DEF PublisherNext, Start, Configure, Open, OpenFails, BuildFrame, EmitFails, Finish
    <3>2. pc = "built" /\ d = Datagram(frame, Only(meant))
      BY <2>2, <3>1 DEF Emit
    <3>3. PICK asdu \in meant : meant = {asdu} /\ IsBuilt(frame, asdu, identity.params)
      BY <3>2 DEF PubInv
    <3>4. Only(meant) = asdu
      BY <3>3 DEF Only
    <3>5. d.asdu = asdu
      BY <3>2, <3>4 DEF Datagram
    <3>6. SamplesOk(asdu.samples)
      BY <3>3 DEF IsBuilt, AsduOk
    <3>7. \A c \in 1 .. 8 : asdu.samples[c].value \in Int /\ asdu.samples[c].quality \in Int
      BY <3>6 DEF SamplesOk, SampleOk, IsI32, IsU32
    <3> QED BY <3>5, <3>7 DEF Numbers, Channels
  <2> QED BY <2>1, <2>2
<1> QED BY <1>1, <1>2 DEF CrcInv, CorruptionCaught

\* A datagram that is taken becomes a record that verifies.
LEMMA ReceiveCrc ==
  ASSUME PubInv, ViewInv, CrcInv, Receive
  PROVE  CrcInv'
<1>1. PICK datagram \in wire \cup inv.others, ts \in Times :
        /\ received < inv.receives
        /\ received' = received + 1
        /\ LET decoded == Decoded(datagram.bytes)
           IN  \/ decoded = {} /\ UNCHANGED <<nextId, record, heard, bent>>
               \/ \E asdu \in decoded : \E tick \in {ProcessFrame(nextId, ts, asdu)} :
                    /\ record' = {tick}
                    /\ heard' = heard \cup {[id |-> nextId, ts |-> ts,
                                             samples |-> datagram.asdu.samples]}
                    /\ nextId' = nextId + 1
                    /\ bent' = IF bent = 0 THEN 0 ELSE 2
        /\ UNCHANGED <<publisherVars, latest, shown, ua>>
  BY Zenon DEF Receive
<1>2. wire' = wire
  BY <1>1 DEF publisherVars
<1>3. Decoded(datagram.bytes) \subseteq {datagram.asdu} /\ Numbers(datagram.asdu)
  <2>1. inv \in Invocations
    BY DEF PubInv
  <2> QED BY <2>1, OthersAssumption DEF ViewInv, CrcInv
<1>4. CASE UNCHANGED <<nextId, record, heard, bent>>
  BY <1>2, <1>4 DEF CrcInv, CorruptionCaught
<1>5. ASSUME NEW asdu \in Decoded(datagram.bytes), record' = {ProcessFrame(nextId, ts, asdu)},
             bent' = IF bent = 0 THEN 0 ELSE 2
      PROVE  CrcInv'
  <2> DEFINE t == ProcessFrame(nextId, ts, asdu)
  <2>1. Numbers(asdu)
    BY <1>3
  <2>2. WholeRecord(t) /\ Verifies(t)
    BY <2>1, ProcessedVerifies
  <2>3. record' = {t} /\ bent' # 1
    BY <1>5
  <2> HIDE DEF t
  <2> QED BY <1>2, <2>2, <2>3 DEF CrcInv, CorruptionCaught
<1> QED BY <1>1, <1>4, <1>5

\* A burst in the record makes it fail.
LEMMA CorruptCrc ==
  ASSUME ViewInv, CrcInv, Corrupt
  PROVE  CrcInv'
<1>1. PICK burst \in Bursts :
        record' = {[Only(record) EXCEPT
                      !.samples[burst.channel][burst.field] = Flip(@, burst.bits)]}
  BY DEF Corrupt
<1>2. bent = 0 /\ bent' = 1 /\ wire' = wire
  BY DEF Corrupt, publisherVars
<1>3. PICK t \in record : record = {t}
  BY DEF Corrupt, ViewInv
<1>4. Only(record) = t
  BY <1>3 DEF Only
<1>5. WholeRecord(t) /\ Verifies(t)
  BY <1>2, <1>3 DEF CrcInv, CorruptionCaught
<1> DEFINE u == [t EXCEPT !.samples[burst.channel][burst.field] = Flip(@, burst.bits)]
<1>6. record' = {u}
  BY <1>1, <1>4
<1>7. WholeRecord(u) /\ ~Verifies(u)
  BY <1>5, BurstFails
<1> HIDE DEF u
<1> QED BY <1>2, <1>6, <1>7 DEF CrcInv, CorruptionCaught

\* Every step keeps the invariant.
LEMMA CrcInvStep ==
  ASSUME PubInv, ViewInv, CrcInv, [Next]_vars
  PROVE  CrcInv'
<1>1. CASE PublisherNext /\ UNCHANGED daemonVars
  BY <1>1, PublisherCrc
<1>2. CASE Receive
  BY <1>2, ReceiveCrc
<1>3. CASE Corrupt
  BY <1>3, CorruptCrc
<1>4. CASE Snapshot \/ PublishLatest \/ UNCHANGED vars
  <2>1. UNCHANGED <<wire, record, bent>>
    BY <1>4 DEF Snapshot, PublishLatest, vars, publisherVars, daemonVars
  <2> QED BY <2>1 DEF CrcInv, CorruptionCaught
<1> QED BY <1>1, <1>2, <1>3, <1>4 DEF Next

\* Whatever bits of whichever field of the newest record flip, the record fails its CRC,
\* and no record fails it for any other reason: for every channel, every field and every
\* set of its bits.
THEOREM CorruptedRecordsFail == Spec => []CorruptionCaught
<1>1. Init => CrcInv
  BY CrcInvInit
<1>2. PubInv /\ ViewInv /\ CrcInv /\ [Next]_vars => CrcInv'
  BY CrcInvStep
<1>3. CrcInv => CorruptionCaught
  BY DEF CrcInv
<1> QED BY <1>1, <1>2, <1>3, PublisherInvariant, ViewInvariant, PTL DEF Spec
===============================================================================
