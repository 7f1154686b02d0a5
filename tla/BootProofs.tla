------------------------------ MODULE BootProofs ------------------------------
(***************************************************************************)
(* Proofs about the daemon's start-up, for every set of command lines and  *)
(* environments: what the argument loop makes of a line of any length is   *)
(* what the line says read without a loop, and main keeps to it.  And      *)
(* about the audit log that main opens before it serves a request.         *)
(***************************************************************************)
EXTENDS Boot, AuditLog, FiniteSetTheorems, WellFoundedInduction, TLAPS

(* A set of naturals has a least element, ...                              *)
LEMMA LeastExists ==
  ASSUME NEW S \in SUBSET Nat, S # {}
  PROVE  \E m \in S : \A n \in S : m <= n
<1>1. PICK m \in S : \A n \in S : ~ (<<n, m>> \in OpToRel(<, Nat))
  BY WFMin, NatLessThanWellFounded
<1>2. \A n \in S : ~ (n < m)
  BY <1>1 DEF OpToRel
<1>3. m \in Nat /\ \A n \in S : n \in Nat
  OBVIOUS
<1> QED BY <1>2, <1>3

(* ... and, if no element is above n, a greatest one.                      *)
LEMMA MaxOfBounded ==
  ASSUME NEW n \in Nat, NEW S \in SUBSET (1 .. n), S # {}
  PROVE  Max(S) \in S /\ \A m \in S : m <= Max(S)
<1> DEFINE Above == {u \in Nat : \A m \in S : m <= u}
<1>1. n \in Above
  OBVIOUS
<1>2. PICK u \in Above : \A v \in Above : u <= v
  BY <1>1, LeastExists
<1>3. u \in S
  <2> SUFFICES ASSUME u \notin S
               PROVE  FALSE
    OBVIOUS
  <2>1. \A m \in S : m <= u - 1 /\ m >= 1
    <3> TAKE m \in S
    <3>1. m \in 1 .. n /\ m <= u /\ m # u /\ u \in Nat
      OBVIOUS
    <3> QED BY <3>1
  <2>2. u - 1 \in Nat
    <3>1. PICK m \in S : TRUE
      OBVIOUS
    <3>2. m <= u - 1 /\ m >= 1 /\ m \in Nat /\ u \in Nat
      BY <2>1, <3>1
    <3> QED BY <3>2
  <2>3. u - 1 \in Above
    BY <2>1, <2>2
  <2> QED BY <1>2, <2>2, <2>3
<1>4. u \in S /\ \A m \in S : u >= m
  BY <1>2, <1>3
<1> HIDE DEF Above
<1>5. Max(S) \in S /\ \A m \in S : Max(S) >= m
  BY <1>4 DEF Max
<1>6. \A m \in S : m \in Nat
  OBVIOUS
<1> QED BY <1>5, <1>6

-------------------------------------------------------------------------------
(* The argument loop.  FoldLeft folds over sets of positions; what it      *)
(* gives for all of them is what a turn for each gives, one by one.        *)

Folded(g, args, n) ==
  g = [s \in SUBSET (1 .. n) |->
         IF s = {} THEN NoArguments ELSE Argument(g[s \ {Max(s)}], args[Max(s)])]

\* The fold over sets of positions that FoldLeft chooses exists.
LEMMA FoldExists ==
  ASSUME NEW args, NEW n \in Nat
  PROVE  \E g : Folded(g, args, n)
<1> DEFINE Bad == {k \in Nat : ~ \E g : Folded(g, args, k)}
<1> SUFFICES ASSUME Bad # {}
             PROVE  FALSE
  OBVIOUS
<1>1. PICK m \in Bad : \A k \in Bad : m <= k
  BY LeastExists
<1>2. m \in Nat /\ ~ \E g : Folded(g, args, m)
  OBVIOUS
<1>3. CASE m = 0
  <2> DEFINE g == [s \in {{}} |-> NoArguments]
  <2>1. SUBSET (1 .. 0) = {{}}
    OBVIOUS
  <2>2. Folded(g, args, 0)
    BY <2>1 DEF Folded
  <2> QED BY <1>2, <1>3, <2>2
<1>4. CASE m # 0
  <2>1. m - 1 \in Nat /\ m - 1 \notin Bad
    BY <1>1, <1>2, <1>4
  <2>2. PICK g : Folded(g, args, m - 1)
    BY <2>1
  <2> DEFINE h == [s \in SUBSET (1 .. m) |->
                     IF m \in s THEN Argument(g[s \ {m}], args[m]) ELSE g[s]]
  <2>3. ASSUME NEW s \in SUBSET (1 .. m), s # {}
        PROVE  h[s] = Argument(h[s \ {Max(s)}], args[Max(s)])
    <3>1. Max(s) \in s /\ \A k \in s : k <= Max(s)
      BY <1>2, <2>3, MaxOfBounded
    <3>2. CASE m \in s
      <4>1. Max(s) = m
        <5>1. Max(s) \in 1 .. m /\ m <= Max(s)
          BY <3>1, <3>2
        <5> QED BY <1>2, <5>1
      <4>2. s \ {m} \in SUBSET (1 .. m) /\ m \notin s \ {m}
        OBVIOUS
      <4>3. h[s \ {m}] = g[s \ {m}]
        BY <4>2
      <4>4. h[s] = Argument(g[s \ {m}], args[m])
        BY <3>2
      <4> QED BY <4>1, <4>3, <4>4
    <3>3. CASE m \notin s
      <4>1. s \in SUBSET (1 .. (m - 1)) /\ s \ {Max(s)} \in SUBSET (1 .. m)
        <5>1. \A k \in 1 .. m : k # m => k \in 1 .. (m - 1)
          BY <1>2
        <5>2. \A k \in s : k \in 1 .. (m - 1)
          BY <3>3, <5>1
        <5> QED BY <5>2
      <4>2. g[s] = Argument(g[s \ {Max(s)}], args[Max(s)])
        BY <2>2, <2>3, <4>1 DEF Folded
      <4>3. h[s] = g[s] /\ h[s \ {Max(s)}] = g[s \ {Max(s)}]
        BY <3>3, <4>1
      <4> QED BY <4>2, <4>3
    <3> QED BY <3>2, <3>3
  <2>4. h[{}] = NoArguments
    <3>1. {} \in SUBSET (1 .. (m - 1))
      OBVIOUS
    <3>2. g[{}] = NoArguments
      BY <2>2, <3>1 DEF Folded
    <3> QED BY <3>2
  <2>5. h = [s \in SUBSET (1 .. m) |->
               IF s = {} THEN NoArguments ELSE Argument(h[s \ {Max(s)}], args[Max(s)])]
    <3> DEFINE k == [s \in SUBSET (1 .. m) |->
               IF s = {} THEN NoArguments ELSE Argument(h[s \ {Max(s)}], args[Max(s)])]
    <3>1. \A s \in SUBSET (1 .. m) : h[s] = k[s]
      BY <2>3, <2>4
    <3> QED BY <3>1
  <2> HIDE DEF h
  <2>6. Folded(h, args, m)
    BY <2>5 DEF Folded
  <2> QED BY <1>2, <2>6
<1> QED BY <1>3, <1>4

\* The options after each turn.
Turns(C, args) ==
  /\ C[0] = NoArguments
  /\ \A i \in 1 .. Len(args) : C[i] = Argument(C[i - 1], args[i])

\* The loop over a line is a turn for each argument, in order.
LEMMA ArgumentsTurnByTurn ==
  ASSUME NEW args \in Seq(STRING)
  PROVE  \E C : Turns(C, args) /\ Arguments(args) = C[Len(args)]
<1> DEFINE n == Len(args)
           it == CHOOSE g : g = [s \in SUBSET (1 .. n) |->
                   IF s = {} THEN NoArguments ELSE Argument(g[s \ {Max(s)}], args[Max(s)])]
<1>1. Arguments(args) = it[1 .. n]
  <2>1. DOMAIN args = 1 .. n
    OBVIOUS
  <2> QED BY <2>1 DEF Arguments, FoldLeft, MapThenFoldSet
<1>2. it = CHOOSE g : Folded(g, args, n)
  BY DEF Folded
<1>n. n \in Nat
  OBVIOUS
<1> HIDE DEF it, n
<1>3. Folded(it, args, n)
  BY <1>2, <1>n, FoldExists
<1> DEFINE C == [i \in 0 .. n |-> it[1 .. i]]
<1>4. C[0] = NoArguments
  <2>1. C[0] = it[{}]
    BY <1>n
  <2>2. {} \in SUBSET (1 .. n)
    OBVIOUS
  <2> QED BY <1>3, <2>1, <2>2 DEF Folded
<1>5. ASSUME NEW i \in 1 .. n
      PROVE  C[i] = Argument(C[i - 1], args[i])
  <2> DEFINE s == 1 .. i
  <2>1. s \in SUBSET (1 .. n) /\ s # {} /\ i \in Nat /\ i - 1 \in 0 .. n /\ i \in 0 .. n
    <3>1. i \in Nat /\ 1 <= i /\ i <= n
      BY <1>n
    <3>2. i \in s /\ \A k \in s : k \in 1 .. n
      BY <1>n, <3>1
    <3>3. i - 1 \in 0 .. n /\ i \in 0 .. n
      BY <1>n, <3>1
    <3> HIDE DEF s
    <3> QED BY <3>1, <3>2, <3>3
  <2>2. Max(s) \in s /\ \A m \in s : m <= Max(s)
    BY <1>n, <2>1, MaxOfBounded
  <2>3. Max(s) = i
    BY <2>1, <2>2
  <2>4. s \ {i} = 1 .. (i - 1)
    BY <2>1
  <2>5. it[s] = Argument(it[s \ {Max(s)}], args[Max(s)])
    <3> HIDE DEF s
    <3> QED BY <1>3, <2>1 DEF Folded
  <2> QED BY <2>1, <2>3, <2>4, <2>5
<1>6. C[n] = it[1 .. n]
  BY <1>n
<1> HIDE DEF C
<1>7. Turns(C, args)
  BY <1>4, <1>5 DEF Turns, n
<1> QED BY <1>1, <1>6, <1>7 DEF n

-------------------------------------------------------------------------------
(* Which arguments are values, read without the loop.                      *)

Asking == ValueOptions \cup {"--enable-opcua"}

\* An argument b after a is its value, if a is an option.
Follows(a, b) == a \in ValueOptions \/ (a = "--enable-opcua" /\ b \in AddressLike)

Valued(v, args, n) ==
  v = [i \in 0 .. n |-> i > 1 /\ ~v[i - 1] /\ Follows(args[i - 1], args[i])]

\* The recursion of IsValue has a solution on every line.
LEMMA ValueExists ==
  ASSUME NEW args, NEW n \in Nat
  PROVE  \E v : Valued(v, args, n)
<1> DEFINE Bad == {k \in Nat : ~ \E v : Valued(v, args, k)}
<1> SUFFICES ASSUME Bad # {}
             PROVE  FALSE
  OBVIOUS
<1>1. PICK m \in Bad : \A k \in Bad : m <= k
  BY LeastExists
<1>2. m \in Nat /\ ~ \E v : Valued(v, args, m)
  OBVIOUS
<1>3. CASE m = 0
  <2> DEFINE v == [i \in 0 .. 0 |-> FALSE]
  <2>1. \A i \in 0 .. 0 : v[i] = (i > 1 /\ ~v[i - 1] /\ Follows(args[i - 1], args[i]))
    <3> TAKE i \in 0 .. 0
    <3>1. v[i] = FALSE
      OBVIOUS
    <3>2. ~(i > 1)
      OBVIOUS
    <3> QED BY <3>1, <3>2
  <2>2. v = [i \in 0 .. 0 |-> i > 1 /\ ~v[i - 1] /\ Follows(args[i - 1], args[i])]
    BY <2>1
  <2> HIDE DEF v
  <2>3. Valued(v, args, 0)
    BY <2>2 DEF Valued
  <2> QED BY <1>2, <1>3, <2>3
<1>4. CASE m # 0
  <2>1. m - 1 \in Nat /\ m - 1 \notin Bad
    BY <1>1, <1>2, <1>4
  <2>2. PICK u : Valued(u, args, m - 1)
    BY <2>1
  <2> DEFINE v == [i \in 0 .. m |->
                     IF i = m THEN m > 1 /\ ~u[m - 1] /\ Follows(args[m - 1], args[m]) ELSE u[i]]
             w == [i \in 0 .. m |-> i > 1 /\ ~v[i - 1] /\ Follows(args[i - 1], args[i])]
  <2>3. ASSUME NEW i \in 0 .. m
        PROVE  v[i] = w[i]
    <3>1. CASE i = m
      <4>1. v[i - 1] = u[i - 1]
        BY <1>2, <1>4, <3>1
      <4> QED BY <3>1, <4>1
    <3>2. CASE i # m
      <4>1. i \in 0 .. (m - 1)
        BY <1>2, <3>2
      <4>2. u[i] = (i > 1 /\ ~u[i - 1] /\ Follows(args[i - 1], args[i]))
        BY <2>2, <4>1 DEF Valued
      <4>3. i > 1 => v[i - 1] = u[i - 1]
        BY <1>2, <4>1
      <4>4. v[i] = u[i]
        BY <3>2
      <4> QED BY <4>2, <4>3, <4>4
    <3> QED BY <3>1, <3>2
  <2>4. v = w
    BY <2>3
  <2> HIDE DEF v
  <2>5. Valued(v, args, m)
    BY <2>4 DEF Valued
  <2> QED BY <1>2, <2>5
<1> QED BY <1>3, <1>4

\* IsValue is one: an argument is a value if the one before asks for it and is none.
LEMMA ValuesOfTheLine ==
  ASSUME start.args \in Seq(STRING)
  PROVE  \A i \in 0 .. Len(start.args) :
           IsValue[i] = (i > 1 /\ ~IsValue[i - 1] /\ Follows(start.args[i - 1], start.args[i]))
<1> DEFINE n == Len(start.args)
<1>1. IsValue = CHOOSE v : Valued(v, start.args, n)
  BY DEF IsValue, Valued, Follows
<1>n. n \in Nat
  OBVIOUS
<1> HIDE DEF n
<1>2. Valued(IsValue, start.args, n)
  BY <1>1, <1>n, ValueExists
<1> QED BY <1>2 DEF Valued, n

-------------------------------------------------------------------------------
(* What one turn of the argument loop does.                                *)

Cli == [refused : BOOLEAN, wants : SUBSET STRING, values : [ValueOptions -> SUBSET STRING],
        ui : SUBSET STRING, opcua : SUBSET (SUBSET STRING), flags : SUBSET STRING]

\* What d has of the values, the address of the OPC UA server and the flags.
Has(d, w, v, q, f) == d \in Cli /\ d.wants = w /\ d.values = v /\ d.opcua = q /\ d.flags = f

\* What setting what is waited for, or adding a flag, leaves alone.
LEMMA Excepts ==
  ASSUME NEW c \in Cli, NEW x \in SUBSET STRING
  PROVE  /\ Has([c EXCEPT !.wants = x], x, c.values, c.opcua, c.flags)
         /\ [c EXCEPT !.wants = x].refused = c.refused
         /\ Has([c EXCEPT !.flags = @ \cup x], c.wants, c.values, c.opcua, c.flags \cup x)
<1>1. Has([c EXCEPT !.wants = x], x, c.values, c.opcua, c.flags)
  BY DEF Cli, Has
<1>2. [c EXCEPT !.wants = x].refused = c.refused
  BY DEF Cli
<1>3. Has([c EXCEPT !.flags = @ \cup x], c.wants, c.values, c.opcua, c.flags \cup x)
  BY DEF Cli, Has
<1> QED BY <1>1, <1>2, <1>3

\* The two-field moves, as names the provers need not look into.
OpcuaMove(c, q, x) == [c EXCEPT !.opcua = q, !.wants = x]
UiMove(c, u, b) == [c EXCEPT !.ui = u, !.refused = b]

\* What setting the address of the OPC UA server leaves alone.
LEMMA OpcuaExcept ==
  ASSUME NEW c \in Cli, NEW x \in SUBSET STRING, NEW q \in SUBSET (SUBSET STRING)
  PROVE  Has(OpcuaMove(c, q, x), x, c.values, q, c.flags)
BY DEF Cli, Has, OpcuaMove

\* What --ui, --no-ui and a refusal leave alone.
LEMMA RefusedExcept ==
  ASSUME NEW c \in Cli, NEW u \in SUBSET STRING, NEW b \in BOOLEAN
  PROVE  /\ Has(UiMove(c, u, b), c.wants, c.values, c.opcua, c.flags)
         /\ Has([c EXCEPT !.refused = TRUE], c.wants, c.values, c.opcua, c.flags)
<1>1. Has(UiMove(c, u, b), c.wants, c.values, c.opcua, c.flags)
  BY DEF Cli, Has, UiMove
<1>2. Has([c EXCEPT !.refused = TRUE], c.wants, c.values, c.opcua, c.flags)
  BY DEF Cli, Has
<1> QED BY <1>1, <1>2

\* What setting an option's value leaves alone.
LEMMA ValueExcept ==
  ASSUME NEW c \in Cli, NEW o \in ValueOptions, NEW a \in STRING
  PROVE  Has([c EXCEPT !.values[o] = {a}, !.wants = {}],
             {}, [c.values EXCEPT ![o] = {a}], c.opcua, c.flags)
BY DEF Cli, Has

\* The loop begins with nothing read.
LEMMA NoArgumentsIsCli == NoArguments \in Cli
BY DEF NoArguments, Cli

\* An option's value.
LEMMA TurnOfValue ==
  ASSUME NEW cli \in Cli, NEW a \in STRING, ~cli.refused,
         NEW o \in ValueOptions, cli.wants = {o}
  PROVE  Has(Argument(cli, a), {}, [cli.values EXCEPT ![o] = {a}], cli.opcua, cli.flags)
<1>1. (CHOOSE p \in cli.wants : TRUE) = o
  OBVIOUS
<1>2. cli.wants \cap ValueOptions # {} /\ cli.wants # {"--enable-opcua"}
  BY DEF ValueOptions
<1> DEFINE e(p) == [cli EXCEPT !.values[p] = {a}, !.wants = {}]
<1>3. Argument(cli, a) = e(CHOOSE p \in cli.wants : TRUE)
  <2> HIDE <1>1
  <2> QED BY <1>2, ZenonT(30) DEF Argument
<1>4. Argument(cli, a) = e(o)
  BY <1>1, <1>3
<1> QED BY <1>4, ValueExcept

\* The address of --enable-opcua.
LEMMA TurnOfAddress ==
  ASSUME NEW cli \in Cli, NEW a \in STRING, ~cli.refused,
         cli.wants = {"--enable-opcua"}, a \in AddressLike
  PROVE  Has(Argument(cli, a), {}, cli.values, {{a}}, cli.flags)
<1>1. cli.wants \cap ValueOptions = {}
  BY DEF ValueOptions
<1>2. Argument(cli, a) = OpcuaMove(cli, {{a}}, {})
  BY <1>1 DEF Argument, OpcuaMove
<1>3. {{a}} \in SUBSET (SUBSET STRING) /\ {} \in SUBSET STRING
  OBVIOUS
<1> QED BY <1>2, <1>3, OpcuaExcept

\* Anything else is an option or is refused.
LEMMA OptionEffect ==
  ASSUME NEW c \in Cli, NEW a \in STRING, ~c.refused, c.wants = {}
  PROVE  LET d == Option(c, a)
         IN  \E w : /\ Has(d, w, c.values, IF a = "--enable-opcua" THEN {{}} ELSE c.opcua,
                           IF a \in Flags THEN c.flags \cup {a} ELSE c.flags)
                    /\ ~d.refused => w = IF a \in Asking THEN {a} ELSE {}
<1> DEFINE d == Option(c, a)
<1>0. "--enable-opcua" \notin ValueOptions \cup Flags /\ ValueOptions \cap Flags = {}
      /\ {"--ui", "--no-ui"} \cap (ValueOptions \cup Flags \cup {"--enable-opcua"}) = {}
  BY DEF ValueOptions, Flags
<1>1. CASE a \in ValueOptions
  <2>1. d = [c EXCEPT !.wants = {a}]
    BY <1>0, <1>1 DEF Option
  <2>2. Has(d, {a}, c.values, c.opcua, c.flags)
    <3>1. {a} \in SUBSET STRING
      OBVIOUS
    <3>2. Has([c EXCEPT !.wants = {a}], {a}, c.values, c.opcua, c.flags)
      BY <3>1, Excepts, ZenonT(30)
    <3> HIDE DEF d
    <3> QED BY <2>1, <3>2
  <2> QED BY <1>0, <1>1, <2>2 DEF Asking
<1>2. CASE a = "--enable-opcua"
  <2>1. d = OpcuaMove(c, {{}}, {a})
    BY <1>0, <1>2 DEF Option, OpcuaMove
  <2>3. {{}} \in SUBSET (SUBSET STRING) /\ {a} \in SUBSET STRING
    OBVIOUS
  <2>2. Has(d, {a}, c.values, {{}}, c.flags)
    BY <2>1, <2>3, OpcuaExcept
  <2> QED BY <1>0, <1>2, <2>2 DEF Asking
<1>3. CASE a \in Flags
  <2>1. d = [c EXCEPT !.flags = @ \cup {a}]
    BY <1>0, <1>3 DEF Option
  <2>2. Has(d, {}, c.values, c.opcua, c.flags \cup {a})
    BY <2>1, Excepts
  <2> QED BY <1>0, <1>3, <2>2 DEF Asking
<1>4. CASE a \in {"--ui", "--no-ui"}
  <2> DEFINE b == c.ui \notin {{}, {a}}
  <2>1. d = UiMove(c, {a}, b)
    BY <1>0, <1>4 DEF Option, UiMove
  <2>2. b \in BOOLEAN
    OBVIOUS
  <2> HIDE DEF b
  <2>3. Has(d, {}, c.values, c.opcua, c.flags)
    BY <2>1, <2>2, RefusedExcept
  <2> QED BY <1>0, <1>4, <2>3 DEF Asking
<1>5. CASE a \notin Asking \cup Flags \cup {"--ui", "--no-ui"}
  <2>1. d = [c EXCEPT !.refused = TRUE]
    BY <1>5 DEF Option, Asking
  <2>2. Has(d, {}, c.values, c.opcua, c.flags)
    BY <2>1, RefusedExcept
  <2> QED BY <1>5, <2>2 DEF Asking
<1> QED BY <1>1, <1>2, <1>3, <1>4, <1>5 DEF Asking

\* A turn that waits for nothing, or for an address it does not get, reads an option.
LEMMA TurnOfOption ==
  ASSUME NEW cli \in Cli, NEW a \in STRING, ~cli.refused,
         cli.wants = {} \/ (cli.wants = {"--enable-opcua"} /\ a \notin AddressLike)
  PROVE  LET d == Argument(cli, a)
         IN  \E w : /\ Has(d, w, cli.values, IF a = "--enable-opcua" THEN {{}} ELSE cli.opcua,
                           IF a \in Flags THEN cli.flags \cup {a} ELSE cli.flags)
                    /\ ~d.refused => w = IF a \in Asking THEN {a} ELSE {}
<1> DEFINE c == [cli EXCEPT !.wants = {}]
<1>1. cli.wants \cap ValueOptions = {} /\ ~(cli.wants = {"--enable-opcua"} /\ a \in AddressLike)
  BY DEF ValueOptions
<1>2. Argument(cli, a) = Option(c, a)
  BY <1>1 DEF Argument
<1>3. Has(c, {}, cli.values, cli.opcua, cli.flags) /\ ~c.refused
  BY Excepts
<1> HIDE DEF c
<1> DEFINE d == Option(c, a)
<1>4. c \in Cli /\ c.wants = {} /\ c.values = cli.values /\ c.opcua = cli.opcua
      /\ c.flags = cli.flags
  BY <1>3 DEF Has
<1>5. PICK w : /\ Has(d, w, c.values, IF a = "--enable-opcua" THEN {{}} ELSE c.opcua,
                      IF a \in Flags THEN c.flags \cup {a} ELSE c.flags)
               /\ ~d.refused => w = IF a \in Asking THEN {a} ELSE {}
  BY <1>3, <1>4, OptionEffect
<1> HIDE DEF d
<1>6. Has(d, w, cli.values, IF a = "--enable-opcua" THEN {{}} ELSE cli.opcua,
          IF a \in Flags THEN cli.flags \cup {a} ELSE cli.flags)
  BY <1>4, <1>5
<1> QED BY <1>2, <1>5, <1>6 DEF d

-------------------------------------------------------------------------------
(* The loop over a whole line.                                             *)

\* What holds before the first turn, and after each if before it, holds after all.
LEMMA Stepwise ==
  ASSUME NEW n \in Nat, NEW P, 0 \in P, \A i \in 1 .. n : i - 1 \in P => i \in P
  PROVE  \A i \in 0 .. n : i \in P
<1> DEFINE Bad == {i \in Nat : i <= n /\ i \notin P}
<1> SUFFICES ASSUME Bad # {}
             PROVE  FALSE
  OBVIOUS
<1>1. PICK m \in Bad : \A k \in Bad : m <= k
  BY LeastExists
<1>2. m \in Nat /\ m <= n /\ m \notin P /\ m # 0
  OBVIOUS
<1>3. m - 1 \in Nat /\ m - 1 \notin Bad
  BY <1>1, <1>2
<1>4. m - 1 \in P /\ m \in 1 .. n
  BY <1>2, <1>3
<1> QED BY <1>2, <1>4

\* Which of the arguments are values.
Marks(v, args) ==
  \A i \in 0 .. Len(args) :
    v[i] = (i > 1 /\ ~v[i - 1] /\ Follows(args[i - 1], args[i]))

WantsAfter(args, v, i) == IF i > 0 /\ ~v[i] /\ args[i] \in Asking THEN {args[i]} ELSE {}

TookValue(c, d, o, a) ==
  /\ d.values = IF o \in ValueOptions THEN [c.values EXCEPT ![o] = {a}] ELSE c.values
  /\ d.opcua = IF o = "--enable-opcua" THEN {{a}} ELSE c.opcua
  /\ d.flags = c.flags

TookOption(c, d, a) ==
  /\ d.values = c.values
  /\ d.opcua = IF a = "--enable-opcua" THEN {{}} ELSE c.opcua
  /\ d.flags = IF a \in Flags THEN c.flags \cup {a} ELSE c.flags

Turn(c, d, args, v, i) ==
  /\ v[i] => i > 1 /\ TookValue(c, d, args[i - 1], args[i])
  /\ ~v[i] => TookOption(c, d, args[i])

\* One turn, from what the line has said so far.
LEMMA OneTurn ==
  ASSUME NEW args \in Seq(STRING), NEW v, Marks(v, args), NEW i \in 1 .. Len(args),
         NEW c \in Cli, ~c.refused, c.wants = WantsAfter(args, v, i - 1)
  PROVE  LET d == Argument(c, args[i])
         IN  /\ d \in Cli
             /\ ~d.refused => d.wants = WantsAfter(args, v, i)
             /\ Turn(c, d, args, v, i)
<1> DEFINE a == args[i]
           o == args[i - 1]
           d == Argument(c, a)
<1>n. i \in Nat /\ i > 0 /\ i \in 0 .. Len(args) /\ i - 1 \in 0 .. Len(args) /\ a \in STRING
  OBVIOUS
<1>v. v[i] = (i > 1 /\ ~v[i - 1] /\ Follows(o, a))
  BY <1>n DEF Marks
<1>e. "--enable-opcua" \notin ValueOptions
  BY DEF ValueOptions
<1> HIDE DEF d
<1>1. CASE v[i]
  <2>1. i > 1 /\ ~v[i - 1] /\ Follows(o, a)
    BY <1>v, <1>1
  <2>2. i - 1 > 0 /\ o \in Asking /\ o \in STRING
    BY <1>n, <2>1 DEF Follows, Asking
  <2>3. c.wants = {o}
    BY <2>1, <2>2 DEF WantsAfter
  <2>4. WantsAfter(args, v, i) = {}
    BY <1>1 DEF WantsAfter
  <2>5. CASE o \in ValueOptions
    <3>1. Has(d, {}, [c.values EXCEPT ![o] = {a}], c.opcua, c.flags)
      BY <1>n, <2>3, <2>5, TurnOfValue DEF d
    <3>2. TookValue(c, d, o, a)
      BY <1>e, <2>5, <3>1 DEF Has, TookValue
    <3> QED BY <1>1, <2>1, <2>4, <3>1, <3>2 DEF Has, Turn, d
  <2>6. CASE o = "--enable-opcua" /\ a \in AddressLike
    <3>1. Has(d, {}, c.values, {{a}}, c.flags)
      BY <1>n, <2>3, <2>6, TurnOfAddress DEF d
    <3>2. TookValue(c, d, o, a)
      BY <1>e, <2>6, <3>1 DEF Has, TookValue
    <3> QED BY <1>1, <2>1, <2>4, <3>1, <3>2 DEF Has, Turn, d
  <2> QED BY <2>1, <2>5, <2>6 DEF Follows
<1>2. CASE ~v[i]
  <2>1. c.wants = {} \/ (c.wants = {"--enable-opcua"} /\ a \notin AddressLike)
    <3>1. CASE i - 1 > 0 /\ ~v[i - 1] /\ o \in Asking
      <4>1. c.wants = {o}
        BY <3>1 DEF WantsAfter
      <4>2. ~(i > 1 /\ ~v[i - 1] /\ Follows(o, a))
        BY <1>v, <1>2
      <4>3. i > 1
        BY <1>n, <3>1
      <4> QED BY <3>1, <4>1, <4>2, <4>3 DEF Follows, Asking
    <3>2. CASE ~(i - 1 > 0 /\ ~v[i - 1] /\ o \in Asking)
      BY <3>2 DEF WantsAfter
    <3> QED BY <3>1, <3>2
  <2>2. PICK w : /\ Has(d, w, c.values, IF a = "--enable-opcua" THEN {{}} ELSE c.opcua,
                        IF a \in Flags THEN c.flags \cup {a} ELSE c.flags)
                 /\ ~d.refused => w = IF a \in Asking THEN {a} ELSE {}
    BY <1>n, <2>1, TurnOfOption DEF d
  <2>3. WantsAfter(args, v, i) = IF a \in Asking THEN {a} ELSE {}
    BY <1>n, <1>2 DEF WantsAfter
  <2>4. TookOption(c, d, a)
    BY <2>2 DEF Has, TookOption
  <2>5. d \in Cli /\ d.wants = w
    BY <2>2 DEF Has
  <2>6. Turn(c, d, args, v, i)
    BY <1>2, <2>4 DEF Turn
  <2> QED BY <2>2, <2>3, <2>5, <2>6 DEF d
<1> QED BY <1>1, <1>2

\* A line that was not refused was read turn by turn.
LEMMA LineIsRead ==
  ASSUME NEW args \in Seq(STRING), NEW v, Marks(v, args),
         NEW C, Turns(C, args), ~C[Len(args)].refused
  PROVE  /\ \A i \in 0 .. Len(args) :
              C[i] \in Cli /\ C[i].wants = WantsAfter(args, v, i)
         /\ \A i \in 1 .. Len(args) : Turn(C[i - 1], C[i], args, v, i)
<1> DEFINE n == Len(args)
<1>n. n \in Nat
  OBVIOUS
<1>c. C[0] = NoArguments /\ \A i \in 1 .. n : C[i] = Argument(C[i - 1], args[i])
  BY DEF Turns
<1>r. ~C[n].refused
  OBVIOUS
<1>o. \A i \in 1 .. n : i \in 1 .. Len(args)
  OBVIOUS
<1> HIDE DEF n
\* It was never refused before.
<1>1. \A i \in 0 .. n : ~C[i].refused
  <2> DEFINE P == {i \in 0 .. n : ~C[n - i].refused}
  <2>1. 0 \in P
    <3>1. n - 0 = n /\ 0 \in 0 .. n
      BY <1>n
    <3> QED BY <1>r, <3>1
  <2>2. ASSUME NEW i \in 1 .. n, i - 1 \in P
        PROVE  i \in P
    <3>1. /\ n - i + 1 \in 1 .. n /\ n - (i - 1) = n - i + 1 /\ (n - i + 1) - 1 = n - i
          /\ i \in 0 .. n
      BY <1>n
    <3>2. ~C[n - i + 1].refused
      BY <2>2, <3>1
    <3>3. C[n - i + 1] = Argument(C[n - i], args[n - i + 1])
      BY <1>c, <3>1
    <3>4. ~C[n - i].refused
      BY <3>2, <3>3 DEF Argument
    <3> QED BY <3>1, <3>4
  <2>3. \A i \in 0 .. n : i \in P
    <3> HIDE DEF P
    <3> QED BY <1>n, <2>1, <2>2, Stepwise
  <2> TAKE i \in 0 .. n
  <2>4. n - i \in 0 .. n /\ n - (n - i) = i
    BY <1>n
  <2> QED BY <2>3, <2>4
<1> DEFINE P == {i \in 0 .. n : C[i] \in Cli /\ C[i].wants = WantsAfter(args, v, i)}
<1>2. 0 \in P
  <2>1. WantsAfter(args, v, 0) = {} /\ NoArguments.wants = {}
    BY DEF WantsAfter, NoArguments
  <2>2. C[0] \in Cli /\ C[0].wants = WantsAfter(args, v, 0)
    BY <1>c, <2>1, NoArgumentsIsCli
  <2>3. 0 \in 0 .. n
    BY <1>n
  <2> QED BY <2>2, <2>3
<1>3. ASSUME NEW i \in 1 .. n, i - 1 \in P
      PROVE  i \in P /\ Turn(C[i - 1], C[i], args, v, i)
  <2>1. i - 1 \in 0 .. n /\ i \in 0 .. n /\ i \in 1 .. Len(args)
    BY <1>n, <1>o
  <2>2. /\ C[i - 1] \in Cli /\ C[i - 1].wants = WantsAfter(args, v, i - 1)
        /\ ~C[i - 1].refused /\ ~C[i].refused /\ C[i] = Argument(C[i - 1], args[i])
    BY <1>1, <1>3, <1>c, <2>1
  <2>3. /\ C[i] \in Cli
        /\ C[i].wants = WantsAfter(args, v, i)
        /\ Turn(C[i - 1], C[i], args, v, i)
    <3> DEFINE c == C[i - 1]
    <3>1. c \in Cli /\ ~c.refused /\ c.wants = WantsAfter(args, v, i - 1)
          /\ C[i] = Argument(c, args[i])
      BY <2>2
    <3> HIDE DEF c
    <3>2. /\ C[i] \in Cli
          /\ C[i].wants = WantsAfter(args, v, i)
          /\ Turn(c, C[i], args, v, i)
      BY <2>1, <2>2, <3>1, OneTurn
    <3> QED BY <3>2 DEF c
  <2> QED BY <2>1, <2>3
<1>4. \A i \in 0 .. n : i \in P
  <2> HIDE DEF P
  <2> QED BY <1>n, <1>2, <1>3, Stepwise
<1>5. ASSUME NEW i \in 1 .. n
      PROVE  Turn(C[i - 1], C[i], args, v, i)
  <2>1. i - 1 \in 0 .. n
    BY <1>n
  <2> QED BY <1>3, <1>4, <2>1
<1> QED BY <1>4, <1>5 DEF n

-------------------------------------------------------------------------------
(* What the loop keeps of a line: the last value of each option.           *)

Reads(C, args, v) ==
  /\ C[0] = NoArguments
  /\ \A i \in 0 .. Len(args) : C[i] \in Cli /\ C[i].wants = WantsAfter(args, v, i)
  /\ \A i \in 1 .. Len(args) : Turn(C[i - 1], C[i], args, v, i)

\* Option o is given at j, up to i, and last there.
GivenAt(args, v, o, j) == args[j] = o /\ ~v[j]
NeverGiven(args, v, o, i) == \A j \in 1 .. i : ~GivenAt(args, v, o, j)
LastGiven(args, v, o, i, m) ==
  m \in 1 .. i /\ GivenAt(args, v, o, m) /\ \A j \in 1 .. i : j > m => ~GivenAt(args, v, o, j)

\* One more argument, given or not.
LEMMA OneMoreGiven ==
  ASSUME NEW args, NEW v, NEW o, NEW i \in Nat, i > 0
  PROVE  /\ GivenAt(args, v, o, i) =>
              /\ ~NeverGiven(args, v, o, i)
              /\ \A m : LastGiven(args, v, o, i, m) => m = i
         /\ ~GivenAt(args, v, o, i) =>
              /\ NeverGiven(args, v, o, i) => NeverGiven(args, v, o, i - 1)
              /\ \A m : LastGiven(args, v, o, i, m) => LastGiven(args, v, o, i - 1, m)
<1>1. i \in 1 .. i /\ \A j \in 1 .. (i - 1) : j \in 1 .. i
  OBVIOUS
<1>2. ASSUME GivenAt(args, v, o, i)
      PROVE  /\ ~NeverGiven(args, v, o, i)
             /\ \A m : LastGiven(args, v, o, i, m) => m = i
  <2>1. ~NeverGiven(args, v, o, i)
    BY <1>1, <1>2 DEF NeverGiven
  <2>2. ASSUME NEW m, LastGiven(args, v, o, i, m)
        PROVE  m = i
    <3>1. m \in 1 .. i /\ ~(i > m)
      BY <1>1, <1>2, <2>2 DEF LastGiven
    <3> QED BY <3>1
  <2> QED BY <2>1, <2>2
<1>3. ASSUME ~GivenAt(args, v, o, i)
      PROVE  /\ NeverGiven(args, v, o, i) => NeverGiven(args, v, o, i - 1)
             /\ \A m : LastGiven(args, v, o, i, m) => LastGiven(args, v, o, i - 1, m)
  <2>1. NeverGiven(args, v, o, i) => NeverGiven(args, v, o, i - 1)
    BY <1>1 DEF NeverGiven
  <2>2. ASSUME NEW m, LastGiven(args, v, o, i, m)
        PROVE  LastGiven(args, v, o, i - 1, m)
    <3>1. m \in 1 .. i /\ m # i
      BY <1>3, <2>2 DEF LastGiven
    <3>2. m \in 1 .. (i - 1)
      BY <3>1
    <3> QED BY <1>1, <2>2, <3>2 DEF LastGiven
  <2> QED BY <2>1, <2>2
<1> QED BY <1>2, <1>3

\* The flags read are the flags of the line that are no value of an option.
LEMMA FlagsOfTheLine ==
  ASSUME NEW args \in Seq(STRING), NEW v, NEW C, Reads(C, args, v), NEW f \in Flags
  PROVE  f \in C[Len(args)].flags <=> ~NeverGiven(args, v, f, Len(args))
<1> DEFINE n == Len(args)
           P == {i \in 0 .. n : f \in C[i].flags <=> ~NeverGiven(args, v, f, i)}
<1>n. n \in Nat
  OBVIOUS
<1>t. \A i \in 1 .. n : Turn(C[i - 1], C[i], args, v, i)
  BY DEF Reads
<1>0. C[0].flags = {}
  BY DEF Reads, NoArguments
<1> HIDE DEF n
<1>1. 0 \in P
  <2>1. NeverGiven(args, v, f, 0)
    BY DEF NeverGiven
  <2> QED BY <1>n, <1>0, <2>1
<1>2. ASSUME NEW i \in 1 .. n, i - 1 \in P
      PROVE  i \in P
  <2>1. i \in Nat /\ i > 0 /\ i \in 0 .. n
    BY <1>n
  <2>2. f \in C[i - 1].flags <=> ~NeverGiven(args, v, f, i - 1)
    BY <1>2
  <2>3. Turn(C[i - 1], C[i], args, v, i)
    BY <1>t
  <2>4. NeverGiven(args, v, f, i - 1) /\ ~GivenAt(args, v, f, i) => NeverGiven(args, v, f, i)
    BY <2>1 DEF NeverGiven
  <2>5. CASE GivenAt(args, v, f, i)
    <3>1. f \in C[i].flags
      BY <2>3, <2>5 DEF GivenAt, Turn, TookOption
    <3> QED BY <2>1, <2>5, <3>1, OneMoreGiven
  <2>6. CASE ~GivenAt(args, v, f, i)
    <3>1. f \in C[i].flags <=> f \in C[i - 1].flags
      <4>1. CASE v[i]
        BY <2>3, <4>1 DEF Turn, TookValue
      <4>2. CASE ~v[i]
        BY <2>3, <2>6, <4>2 DEF GivenAt, Turn, TookOption
      <4> QED BY <4>1, <4>2
    <3> QED BY <2>1, <2>2, <2>4, <2>6, <3>1, OneMoreGiven
  <2> QED BY <2>5, <2>6
<1>3. \A i \in 0 .. n : i \in P
  <2> HIDE DEF P
  <2> QED BY <1>n, <1>1, <1>2, Stepwise
<1> QED BY <1>n, <1>3 DEF n

\* An option that takes a value is followed by it.
LEMMA GivenThenValue ==
  ASSUME NEW args \in Seq(STRING), NEW v, Marks(v, args), NEW i \in 1 .. Len(args), i > 1
  PROVE  /\ v[i] => ~v[i - 1] /\ Follows(args[i - 1], args[i])
         /\ \A o \in ValueOptions : GivenAt(args, v, o, i - 1) => v[i]
<1>1. i \in 0 .. Len(args)
  OBVIOUS
<1>2. v[i] = (i > 1 /\ ~v[i - 1] /\ Follows(args[i - 1], args[i]))
  BY <1>1 DEF Marks
<1>3. v[i] => ~v[i - 1] /\ Follows(args[i - 1], args[i])
  BY <1>2
<1>4. ASSUME NEW o \in ValueOptions, GivenAt(args, v, o, i - 1)
      PROVE  v[i]
  <2>1. ~v[i - 1] /\ Follows(args[i - 1], args[i])
    BY <1>4 DEF GivenAt, Follows
  <2> QED BY <1>2, <2>1
<1> QED BY <1>3, <1>4

\* The last value of option o when the arguments before i are read.
ValueRead(args, v, o, i, q) ==
  /\ NeverGiven(args, v, o, i - 1) => q = {}
  /\ \A m : LastGiven(args, v, o, i - 1, m) => q = {args[m + 1]}

\* What is read as an option's value is the last the line gives it.
LEMMA ValueOfTheLine ==
  ASSUME NEW args \in Seq(STRING), NEW v, Marks(v, args), NEW C, Reads(C, args, v),
         NEW o \in ValueOptions
  PROVE  ValueRead(args, v, o, Len(args), C[Len(args)].values[o])
<1> DEFINE n == Len(args)
           P == {i \in 0 .. n : ValueRead(args, v, o, i, C[i].values[o])}
<1>n. n \in Nat
  OBVIOUS
<1>t. /\ \A i \in 1 .. n : Turn(C[i - 1], C[i], args, v, i)
      /\ \A i \in 0 .. n : C[i].values \in [ValueOptions -> SUBSET STRING]
  BY DEF Reads, Cli
<1>g. \A i \in 1 .. n : i > 1 => /\ v[i] => ~v[i - 1] /\ Follows(args[i - 1], args[i])
                                 /\ GivenAt(args, v, o, i - 1) => v[i]
  BY GivenThenValue
<1>0. C[0].values[o] = {}
  BY DEF Reads, NoArguments
<1> HIDE DEF n
<1>1. 0 \in P
  <2>1. \A m : ~LastGiven(args, v, o, 0 - 1, m)
    BY DEF LastGiven
  <2>2. ValueRead(args, v, o, 0, C[0].values[o])
    BY <1>0, <2>1 DEF ValueRead
  <2> QED BY <1>n, <2>2
<1>2. ASSUME NEW i \in 1 .. n, i - 1 \in P
      PROVE  i \in P
  <2> DEFINE x == C[i - 1].values[o]
             y == C[i].values[o]
  <2>1. i \in Nat /\ i > 0 /\ i \in 0 .. n /\ i - 1 \in 0 .. n
    BY <1>n
  <2>2. ValueRead(args, v, o, i - 1, x)
    BY <1>2
  <2>3. Turn(C[i - 1], C[i], args, v, i)
    BY <1>t
  <2>4. C[i - 1].values \in [ValueOptions -> SUBSET STRING]
    BY <1>t, <2>1
  <2>5. ASSUME GivenAt(args, v, o, i - 1), i > 1
        PROVE  ValueRead(args, v, o, i, y)
    <3>1. v[i] /\ args[i - 1] = o
      BY <1>g, <2>5 DEF GivenAt
    <3>2. C[i].values = [C[i - 1].values EXCEPT ![o] = {args[i]}]
      BY <2>3, <3>1 DEF Turn, TookValue
    <3>3. y = {args[i]}
      BY <2>4, <3>2
    <3>4. /\ ~NeverGiven(args, v, o, i - 1)
          /\ \A m : LastGiven(args, v, o, i - 1, m) => m = i - 1
      BY <2>1, <2>5, OneMoreGiven
    <3>5. (i - 1) + 1 = i
      BY <2>1
    <3> HIDE DEF y
    <3> QED BY <3>3, <3>4, <3>5 DEF ValueRead
  <2>6. ASSUME ~GivenAt(args, v, o, i - 1) \/ ~(i > 1)
        PROVE  ValueRead(args, v, o, i, y)
    <3>1. y = x
      <4>1. CASE v[i]
        <5>1. i > 1
          BY <2>3, <4>1 DEF Turn
        <5>2. args[i - 1] # o
          BY <1>g, <2>6, <4>1, <5>1 DEF GivenAt
        <5>3. TookValue(C[i - 1], C[i], args[i - 1], args[i])
          BY <2>3, <4>1 DEF Turn
        <5>4. CASE args[i - 1] \in ValueOptions
          <6>1. C[i].values = [C[i - 1].values EXCEPT ![args[i - 1]] = {args[i]}]
            BY <5>3, <5>4 DEF TookValue
          <6> QED BY <2>4, <5>2, <5>4, <6>1
        <5>5. CASE args[i - 1] \notin ValueOptions
          BY <5>3, <5>5 DEF TookValue
        <5> QED BY <5>4, <5>5
      <4>2. CASE ~v[i]
        BY <2>3, <4>2 DEF Turn, TookOption
      <4> QED BY <4>1, <4>2
    <3>2. /\ NeverGiven(args, v, o, i - 1) => NeverGiven(args, v, o, (i - 1) - 1)
          /\ \A m : LastGiven(args, v, o, i - 1, m) => LastGiven(args, v, o, (i - 1) - 1, m)
      <4>1. CASE i > 1
        <5>1. i - 1 \in Nat /\ i - 1 > 0 /\ ~GivenAt(args, v, o, i - 1)
          BY <2>1, <2>6, <4>1
        <5> QED BY <5>1, OneMoreGiven
      <4>2. CASE ~(i > 1)
        <5>1. i = 1
          BY <2>1, <4>2
        <5>2. /\ \A m : ~LastGiven(args, v, o, 0, m)
              /\ NeverGiven(args, v, o, -1)
          BY DEF LastGiven, NeverGiven
        <5>3. i - 1 = 0 /\ (i - 1) - 1 = -1
          BY <5>1
        <5> QED BY <5>2, <5>3
      <4> QED BY <4>1, <4>2
    <3> HIDE DEF x, y
    <3> QED BY <2>2, <3>1, <3>2 DEF ValueRead
  <2>7. ValueRead(args, v, o, i, y)
    BY <2>5, <2>6
  <2> QED BY <2>1, <2>7
<1>3. \A i \in 0 .. n : i \in P
  <2> HIDE DEF P
  <2> QED BY <1>n, <1>1, <1>2, Stepwise
<1> QED BY <1>n, <1>3 DEF n

\* The address --enable-opcua was last given, if one, when i arguments are read.
AddressAt(args, v, i, m) == IF m < i /\ v[m + 1] THEN {args[m + 1]} ELSE {}
AddressRead(args, v, i, q) ==
  /\ NeverGiven(args, v, "--enable-opcua", i) => q = {}
  /\ \A m : LastGiven(args, v, "--enable-opcua", i, m) => q = {AddressAt(args, v, i, m)}

\* The same of the address of --enable-opcua, which may be given without one.
LEMMA AddressOfTheLine ==
  ASSUME NEW args \in Seq(STRING), NEW v, Marks(v, args), NEW C, Reads(C, args, v)
  PROVE  AddressRead(args, v, Len(args), C[Len(args)].opcua)
<1> DEFINE n == Len(args)
           o == "--enable-opcua"
           P == {i \in 0 .. n : AddressRead(args, v, i, C[i].opcua)}
<1>n. n \in Nat
  OBVIOUS
<1>t. \A i \in 1 .. n : Turn(C[i - 1], C[i], args, v, i)
  BY DEF Reads
<1>g. \A i \in 1 .. n : i > 1 => (v[i] => ~v[i - 1] /\ Follows(args[i - 1], args[i]))
  BY GivenThenValue
<1>0. C[0].opcua = {}
  BY DEF Reads, NoArguments
<1> HIDE DEF n
<1>1. 0 \in P
  <2>1. \A m : ~LastGiven(args, v, "--enable-opcua", 0, m)
    BY DEF LastGiven
  <2>2. AddressRead(args, v, 0, C[0].opcua)
    BY <1>0, <2>1 DEF AddressRead
  <2> QED BY <1>n, <2>2
<1>2. ASSUME NEW i \in 1 .. n, i - 1 \in P
      PROVE  i \in P
  <2> DEFINE x == C[i - 1].opcua
             y == C[i].opcua
  <2>1. i \in Nat /\ i > 0 /\ i \in 0 .. n /\ ~(i < i) /\ i - 1 < i /\ (i - 1) + 1 = i
    BY <1>n
  <2>2. AddressRead(args, v, i - 1, x)
    BY <1>2
  <2>3. Turn(C[i - 1], C[i], args, v, i)
    BY <1>t
  <2>4. ASSUME GivenAt(args, v, o, i)
        PROVE  AddressRead(args, v, i, y)
    <3>1. y = {{}}
      BY <2>3, <2>4 DEF GivenAt, Turn, TookOption
    <3>2. AddressAt(args, v, i, i) = {}
      BY <2>1 DEF AddressAt
    <3>3. /\ ~NeverGiven(args, v, o, i)
          /\ \A m : LastGiven(args, v, o, i, m) => m = i
      BY <2>1, <2>4, OneMoreGiven
    <3> HIDE DEF y
    <3> QED BY <3>1, <3>2, <3>3 DEF AddressRead
  <2>5. ASSUME ~GivenAt(args, v, o, i)
        PROVE  AddressRead(args, v, i, y)
    <3>1. /\ NeverGiven(args, v, o, i) => NeverGiven(args, v, o, i - 1)
          /\ \A m : LastGiven(args, v, o, i, m) => LastGiven(args, v, o, i - 1, m)
      BY <2>1, <2>5, OneMoreGiven
    <3>2. CASE v[i] /\ args[i - 1] = o
      <4>1. i > 1 /\ TookValue(C[i - 1], C[i], args[i - 1], args[i])
        BY <2>3, <3>2 DEF Turn
      <4>2. y = {{args[i]}}
        BY <3>2, <4>1 DEF TookValue
      <4>3. GivenAt(args, v, o, i - 1)
        BY <1>g, <3>2, <4>1 DEF GivenAt
      <4>4. i - 1 \in Nat /\ i - 1 > 0
        BY <2>1, <4>1
      <4>5. /\ ~NeverGiven(args, v, o, i - 1)
            /\ \A m : LastGiven(args, v, o, i - 1, m) => m = i - 1
        BY <4>3, <4>4, OneMoreGiven
      <4>6. AddressAt(args, v, i, i - 1) = {args[i]}
        BY <2>1, <3>2 DEF AddressAt
      <4> HIDE DEF y
      <4> QED BY <3>1, <4>2, <4>5, <4>6 DEF AddressRead
    <3>3. CASE ~(v[i] /\ args[i - 1] = o)
      <4>1. y = x
        BY <2>3, <2>5, <3>3 DEF GivenAt, Turn, TookValue, TookOption
      <4>2. ASSUME NEW m, LastGiven(args, v, o, i, m)
            PROVE  AddressAt(args, v, i, m) = AddressAt(args, v, i - 1, m)
        <5>1. LastGiven(args, v, o, i - 1, m)
          BY <3>1, <4>2
        <5>2. m \in 1 .. (i - 1) /\ args[m] = o
          BY <5>1 DEF LastGiven, GivenAt
        <5>3. CASE m = i - 1
          <6>1. ~v[m + 1] /\ ~(m < i - 1)
            BY <2>1, <3>3, <5>2, <5>3
          <6> QED BY <6>1 DEF AddressAt
        <5>4. CASE m # i - 1
          <6>1. m < i - 1 /\ m < i
            BY <2>1, <5>2, <5>4
          <6> QED BY <6>1 DEF AddressAt
        <5> QED BY <5>3, <5>4
      <4> HIDE DEF x, y
      <4> QED BY <2>2, <3>1, <4>1, <4>2 DEF AddressRead
    <3> QED BY <3>2, <3>3
  <2>6. AddressRead(args, v, i, y)
    BY <2>4, <2>5
  <2> QED BY <2>1, <2>6
<1>3. \A i \in 0 .. n : i \in P
  <2> HIDE DEF P
  <2> QED BY <1>n, <1>1, <1>2, Stepwise
<1> QED BY <1>n, <1>3 DEF n

-------------------------------------------------------------------------------
(* The same line, read as Boot's properties read it.                       *)

Line == start.args

\* An option's values on the line, by the positions they stand at.
LEMMA GivenIsGivenAt ==
  ASSUME Line \in Seq(STRING), NEW o
  PROVE  /\ Given(o) = {} <=> NeverGiven(Line, IsValue, o, Len(Line))
         /\ Given(o) # {} =>
              \E m : /\ LastGiven(Line, IsValue, o, Len(Line), m)
                     /\ Values(o) = AddressAt(Line, IsValue, Len(Line), m)
<1> DEFINE v == IsValue
           n == Len(Line)
<1>n. n \in Nat /\ DOMAIN Line = 1 .. n
  OBVIOUS
<1>1. Given(o) = {i \in 1 .. n : GivenAt(Line, v, o, i)}
  BY <1>n DEF Given, GivenAt, Line
<1>2. Values(o) = IF Given(o) = {} THEN {}
                  ELSE {Line[j] : j \in {j \in {Max(Given(o)) + 1} \cap (1 .. n) : v[j]}}
  BY <1>n DEF Values, Line
<1> HIDE DEF v, n
<1>3. Given(o) = {} <=> NeverGiven(Line, v, o, n)
  BY <1>1 DEF NeverGiven
<1>4. ASSUME Given(o) # {}
      PROVE  \E m : /\ LastGiven(Line, v, o, n, m)
                    /\ Values(o) = AddressAt(Line, v, n, m)
  <2> DEFINE S == Given(o)
             m == Max(S)
  <2>1. S \in SUBSET (1 .. n) /\ S # {}
    BY <1>1, <1>4
  <2>2. m \in S /\ \A k \in S : k <= m
    <3> HIDE DEF S
    <3> QED BY <1>n, <2>1, MaxOfBounded
  <2>3. Values(o) = {Line[j] : j \in {j \in {m + 1} \cap (1 .. n) : v[j]}}
    BY <1>2, <1>4
  <2>m. m \in 1 .. n
    BY <2>1, <2>2
  <2> HIDE DEF m
  <2>4. LastGiven(Line, v, o, n, m)
    <3>1. \A j \in 1 .. n : j > m => j \notin S
      BY <2>m, <2>2, <1>n
    <3> QED BY <1>1, <2>m, <2>2, <3>1 DEF LastGiven
  <2>5. CASE m < n /\ v[m + 1]
    <3>1. {j \in {m + 1} \cap (1 .. n) : v[j]} = {m + 1}
      <4>1. m + 1 \in 1 .. n
        BY <1>n, <2>m, <2>5
      <4> QED BY <2>5, <4>1
    <3> QED BY <2>3, <2>4, <2>5, <3>1 DEF AddressAt
  <2>6. CASE ~(m < n /\ v[m + 1])
    <3>1. {j \in {m + 1} \cap (1 .. n) : v[j]} = {}
      <4>1. CASE m < n
        BY <2>6, <4>1
      <4>2. CASE ~(m < n)
        <5>1. m + 1 \notin 1 .. n
          BY <1>n, <2>m, <4>2
        <5> QED BY <5>1
      <4> QED BY <4>1, <4>2
    <3> QED BY <2>3, <2>4, <2>6, <3>1 DEF AddressAt
  <2> QED BY <2>5, <2>6
<1> QED BY <1>3, <1>4 DEF v, n

\* The values, the address and the flags of a line that is not refused.
LEMMA LineAsRead ==
  ASSUME Line \in Seq(STRING), ~Arguments(Line).refused, ~MissingValue(Arguments(Line))
  PROVE  /\ \A f \in Flags : f \in Arguments(Line).flags <=> Given(f) # {}
         /\ \A o \in ValueOptions : /\ Arguments(Line).values[o] = Values(o)
                                    /\ Values(o) = {} <=> Given(o) = {}
         /\ Arguments(Line).opcua =
              IF Given("--enable-opcua") = {} THEN {} ELSE {Values("--enable-opcua")}
<1> DEFINE v == IsValue
           n == Len(Line)
<1>1. PICK C : Turns(C, Line) /\ Arguments(Line) = C[n]
  BY ArgumentsTurnByTurn
<1>2. Marks(v, Line)
  BY ValuesOfTheLine DEF Marks, Line
<1> HIDE DEF v
<1>3. /\ C[0] = NoArguments
      /\ \A i \in 0 .. Len(Line) : C[i] \in Cli /\ C[i].wants = WantsAfter(Line, v, i)
      /\ \A i \in 1 .. Len(Line) : Turn(C[i - 1], C[i], Line, v, i)
  <2>1. ~C[Len(Line)].refused
    BY <1>1
  <2> QED BY <1>1, <1>2, <2>1, LineIsRead DEF Turns
<1>4. Reads(C, Line, v)
  BY <1>3 DEF Reads
<1>n. n \in Nat
  OBVIOUS
<1>5. ASSUME NEW f \in Flags
      PROVE  f \in Arguments(Line).flags <=> Given(f) # {}
  <2>1. f \in C[n].flags <=> ~NeverGiven(Line, v, f, n)
    BY <1>4, FlagsOfTheLine
  <2> QED BY <1>1, <2>1, GivenIsGivenAt DEF v
<1>6. ASSUME NEW o \in ValueOptions
      PROVE  Arguments(Line).values[o] = Values(o) /\ (Values(o) = {} <=> Given(o) = {})
  <2>1. ValueRead(Line, v, o, n, C[n].values[o])
    BY <1>2, <1>4, ValueOfTheLine
  <2>2. n > 0 => ~GivenAt(Line, v, o, n)
    <3> SUFFICES ASSUME n > 0, GivenAt(Line, v, o, n)
                 PROVE  FALSE
      OBVIOUS
    <3>1. C[n].wants = {o}
      <4>1. n \in 0 .. Len(Line)
        BY <1>n
      <4>2. C[n].wants = WantsAfter(Line, v, n)
        BY <1>3, <4>1
      <4> QED BY <4>2 DEF GivenAt, WantsAfter, Asking
    <3> QED BY <1>1, <3>1 DEF MissingValue
  <2>3. CASE Given(o) = {}
    <3>1. NeverGiven(Line, v, o, n)
      BY <2>3, GivenIsGivenAt DEF v
    <3>2. NeverGiven(Line, v, o, n - 1)
      BY <1>n, <3>1 DEF NeverGiven
    <3>3. C[n].values[o] = {}
      BY <2>1, <3>2 DEF ValueRead
    <3> QED BY <1>1, <2>3, <3>3 DEF Values
  <2>4. CASE Given(o) # {}
    <3>1. PICK m : LastGiven(Line, v, o, n, m) /\ Values(o) = AddressAt(Line, v, n, m)
      BY <2>4, GivenIsGivenAt DEF v
    <3>2. m \in 1 .. n /\ GivenAt(Line, v, o, m)
      BY <3>1 DEF LastGiven
    <3>3. n > 0 /\ LastGiven(Line, v, o, n - 1, m)
      <4>1. n > 0
        BY <1>n, <3>2
      <4> QED BY <1>n, <2>2, <3>1, <4>1, OneMoreGiven
    <3>4. C[n].values[o] = {Line[m + 1]}
      BY <2>1, <3>3 DEF ValueRead
    <3>5. m < n
      <4>1. m \in 1 .. (n - 1)
        BY <3>3 DEF LastGiven
      <4> QED BY <1>n, <4>1
    <3>6. v[m + 1]
      <4> DEFINE i == m + 1
      <4>1. i \in 1 .. Len(Line) /\ i > 1 /\ i - 1 = m
        BY <1>n, <3>2, <3>5
      <4> HIDE DEF i
      <4>2. v[i]
        BY <1>2, <3>2, <4>1, GivenThenValue
      <4> QED BY <4>2 DEF i
    <3>7. Values(o) = {Line[m + 1]}
      BY <3>1, <3>5, <3>6 DEF AddressAt
    <3> QED BY <1>1, <2>4, <3>4, <3>7
  <2> QED BY <2>3, <2>4
<1>7. Arguments(Line).opcua =
        IF Given("--enable-opcua") = {} THEN {} ELSE {Values("--enable-opcua")}
  <2>1. AddressRead(Line, v, n, C[n].opcua)
    BY <1>2, <1>4, AddressOfTheLine
  <2>2. CASE Given("--enable-opcua") = {}
    <3>1. NeverGiven(Line, v, "--enable-opcua", n)
      BY <2>2, GivenIsGivenAt DEF v
    <3> QED BY <1>1, <2>1, <2>2, <3>1 DEF AddressRead
  <2>3. CASE Given("--enable-opcua") # {}
    <3>1. PICK m : /\ LastGiven(Line, v, "--enable-opcua", n, m)
                   /\ Values("--enable-opcua") = AddressAt(Line, v, n, m)
      BY <2>3, GivenIsGivenAt DEF v
    <3> QED BY <1>1, <2>1, <2>3, <3>1 DEF AddressRead
  <2> QED BY <2>2, <2>3
<1> QED BY <1>5, <1>6, <1>7

-------------------------------------------------------------------------------
(* What is resolved is what the line, else the environment, asked for.     *)

AsTold(c) ==
  /\ c.uiBind \in Told("--ui-bind", "SVDC_UI_BIND", {DefaultUi})
  /\ c.ingress = Told("--ingress-udp", "SVDC_INGRESS_UDP", {})
  /\ c.ingress # {} <=> Asks("--ingress-udp", "SVDC_INGRESS_UDP")
  /\ \A a \in c.opcua : /\ a \in Told("--enable-opcua", "SVDC_OPCUA_BIND", {DefaultOpcua})
                        /\ IsLoopback(a) \/ Allowed
  /\ Asks("--operational-config", "SVDC_OPERATIONAL_CONFIG") => c.operational # {}
  /\ Asks("--audit-log", "SVDC_AUDIT_LOG") => c.audit # {}

\* The value of an option with a value is preferred to the variable's.
LEMMA PreferTold ==
  ASSUME Line \in Seq(STRING), ~Arguments(Line).refused, ~MissingValue(Arguments(Line)),
         NEW o \in ValueOptions, NEW x, NEW default
  PROVE  LET q == Prefer(Arguments(Line).values[o], start.env[x])
         IN  /\ Told(o, x, default) = IF q = {} THEN default ELSE Parsed(q)
             /\ Asks(o, x) <=> q # {}
<1>1. Arguments(Line).values[o] = Values(o) /\ (Values(o) = {} <=> Given(o) = {})
  BY LineAsRead
<1>2. CASE Given(o) = {}
  <2>1. Prefer(Arguments(Line).values[o], start.env[x]) = start.env[x]
    BY <1>1, <1>2 DEF Prefer
  <2> QED BY <1>2, <2>1 DEF Told, Asks
<1>3. CASE Given(o) # {}
  <2>1. /\ Prefer(Arguments(Line).values[o], start.env[x]) = Values(o)
        /\ Values(o) # {}
    BY <1>1, <1>3 DEF Prefer
  <2> QED BY <1>3, <2>1 DEF Told, Asks
<1> QED BY <1>2, <1>3

\* What is given parses to something.
LEMMA ParsedOfSome == \A q : q # {} => Parsed(q) # {}
BY DEF Parsed

\* An accepted line and environment, and the configuration made of them.
UiText(cli, env) == Prefer(cli.values["--ui-bind"], env["SVDC_UI_BIND"])
IngressText(cli, env) == Prefer(cli.values["--ingress-udp"], env["SVDC_INGRESS_UDP"])
OpcuaText(cli, env) == Prefer(cli.opcua, {{t} : t \in env["SVDC_OPCUA_BIND"]})
OpcuaOf(o) == IF o = {} THEN DefaultOpcua ELSE CHOOSE a \in Parsed(o) : TRUE

\* The configuration of a line that is accepted, field by field.
LEMMA ConfigShape ==
  ASSUME NEW args, NEW env, NEW c \in ResolveConfig(args, env)
  PROVE  LET cli == Arguments(args)
             bind == UiText(cli, env)
         IN  /\ ResolveConfig(args, env) = {c}
             /\ ~cli.refused /\ ~MissingValue(cli)
             /\ c.uiBind = IF bind = {} THEN DefaultUi ELSE CHOOSE a \in Parsed(bind) : TRUE
             /\ c.operational = Prefer(cli.values["--operational-config"],
                                       env["SVDC_OPERATIONAL_CONFIG"])
             /\ c.audit = Prefer(cli.values["--audit-log"], env["SVDC_AUDIT_LOG"])
             /\ c.ingress = Parsed(IngressText(cli, env))
             /\ c.opcua = {OpcuaOf(o) : o \in OpcuaText(cli, env)}
             /\ \A a \in c.opcua :
                  IsLoopback(a) \/ "--allow-insecure-bind" \in cli.flags
                                \/ On(env, "SVDC_ALLOW_INSECURE_BIND")
<1> DEFINE cli == Arguments(args)
           bind == UiText(cli, env)
           opcuaBind == {OpcuaOf(o) : o \in OpcuaText(cli, env)}
           insecure == "--allow-insecure-bind" \in cli.flags \/ On(env, "SVDC_ALLOW_INSECURE_BIND")
           accepted ==
             /\ ~cli.refused /\ ~MissingValue(cli)
             /\ ~(On(env, "SVDC_UI") /\ On(env, "SVDC_NO_UI"))
             /\ Valid(bind) /\ Valid(IngressText(cli, env))
             /\ \A o \in OpcuaText(cli, env) : Valid(o)
             /\ \A a \in opcuaBind : IsLoopback(a) \/ insecure
           made ==
             [ui |-> IF cli.ui # {} THEN cli.ui = {"--ui"} ELSE ~On(env, "SVDC_NO_UI"),
              uiBind |-> IF bind = {} THEN DefaultUi ELSE CHOOSE a \in Parsed(bind) : TRUE,
              operational |-> Prefer(cli.values["--operational-config"],
                                     env["SVDC_OPERATIONAL_CONFIG"]),
              audit |-> Prefer(cli.values["--audit-log"], env["SVDC_AUDIT_LOG"]),
              ingress |-> Parsed(IngressText(cli, env)),
              l0Demo |-> "--enable-l0-demo" \in cli.flags \/ On(env, "SVDC_ENABLE_L0_DEMO"),
              opcua |-> opcuaBind]
<1>1. ResolveConfig(args, env) = IF ~accepted THEN {} ELSE {made}
  BY DEF ResolveConfig, UiText, IngressText, OpcuaText, OpcuaOf
<1>2. /\ made.uiBind = IF bind = {} THEN DefaultUi ELSE CHOOSE a \in Parsed(bind) : TRUE
      /\ made.operational = Prefer(cli.values["--operational-config"],
                                   env["SVDC_OPERATIONAL_CONFIG"])
      /\ made.audit = Prefer(cli.values["--audit-log"], env["SVDC_AUDIT_LOG"])
      /\ made.ingress = Parsed(IngressText(cli, env))
      /\ made.opcua = opcuaBind
  OBVIOUS
<1> HIDE DEF cli, bind, opcuaBind, made
<1>3. accepted /\ ResolveConfig(args, env) = {c} /\ c = made
  BY <1>1
<1> QED BY <1>2, <1>3 DEF cli, bind, opcuaBind

\* A command line has one configuration at most.
LEMMA ConfigIsAlone ==
  ASSUME NEW args, NEW env, NEW c \in ResolveConfig(args, env)
  PROVE  ResolveConfig(args, env) = {c}
<1> DEFINE C == ResolveConfig(args, env)
<1>1. C = {c}
  BY ConfigShape, ZenonT(40)
<1> QED BY <1>1

\* It is what the line and the environment say, read without the loop.
LEMMA ConfigAsTold ==
  ASSUME Line \in Seq(STRING), NEW c \in ResolveConfig(Line, start.env)
  PROVE  AsTold(c)
<1> DEFINE cli == Arguments(Line)
           env == start.env
           bind == UiText(cli, env)
<1>1. /\ ~cli.refused /\ ~MissingValue(cli)
      /\ c.uiBind = IF bind = {} THEN DefaultUi ELSE CHOOSE a \in Parsed(bind) : TRUE
      /\ c.operational = Prefer(cli.values["--operational-config"],
                                env["SVDC_OPERATIONAL_CONFIG"])
      /\ c.audit = Prefer(cli.values["--audit-log"], env["SVDC_AUDIT_LOG"])
      /\ c.ingress = Parsed(IngressText(cli, env))
      /\ c.opcua = {OpcuaOf(o) : o \in OpcuaText(cli, env)}
      /\ \A a \in c.opcua :
           IsLoopback(a) \/ "--allow-insecure-bind" \in cli.flags
                         \/ On(env, "SVDC_ALLOW_INSECURE_BIND")
  BY ConfigShape
<1>o. /\ "--ui-bind" \in ValueOptions /\ "--operational-config" \in ValueOptions
      /\ "--audit-log" \in ValueOptions /\ "--ingress-udp" \in ValueOptions
      /\ "--allow-insecure-bind" \in Flags
  BY DEF ValueOptions, Flags
<1>u. Parsed({}) = {}
  BY DEF Parsed
<1>2. c.uiBind \in Told("--ui-bind", "SVDC_UI_BIND", {DefaultUi})
  <2>1. Told("--ui-bind", "SVDC_UI_BIND", {DefaultUi}) =
          IF bind = {} THEN {DefaultUi} ELSE Parsed(bind)
    BY <1>1, <1>o, PreferTold DEF UiText
  <2>2. CASE bind = {}
    BY <1>1, <2>1, <2>2
  <2>3. CASE bind # {}
    <3>1. Parsed(bind) # {}
      BY <2>3, ParsedOfSome
    <3>2. (CHOOSE a \in Parsed(bind) : TRUE) \in Parsed(bind)
      BY <3>1
    <3> QED BY <1>1, <2>1, <2>3, <3>2
  <2> QED BY <2>2, <2>3
<1>3. /\ c.ingress = Told("--ingress-udp", "SVDC_INGRESS_UDP", {})
      /\ c.ingress # {} <=> Asks("--ingress-udp", "SVDC_INGRESS_UDP")
  <2> DEFINE q == IngressText(cli, env)
  <2>1. /\ Told("--ingress-udp", "SVDC_INGRESS_UDP", {}) = IF q = {} THEN {} ELSE Parsed(q)
        /\ Asks("--ingress-udp", "SVDC_INGRESS_UDP") <=> q # {}
    BY <1>1, <1>o, PreferTold DEF IngressText
  <2> QED BY <1>1, <1>u, <2>1, ParsedOfSome
<1>4. Asks("--operational-config", "SVDC_OPERATIONAL_CONFIG") => c.operational # {}
  BY <1>1, <1>o, PreferTold
<1>5. Asks("--audit-log", "SVDC_AUDIT_LOG") => c.audit # {}
  BY <1>1, <1>o, PreferTold
<1>6. ASSUME NEW a \in c.opcua
      PROVE  a \in Told("--enable-opcua", "SVDC_OPCUA_BIND", {DefaultOpcua})
  <2>1. PICK o \in OpcuaText(cli, env) : a = OpcuaOf(o)
    BY <1>1
  <2>2. cli.opcua = IF Given("--enable-opcua") = {} THEN {} ELSE {Values("--enable-opcua")}
    BY <1>1, LineAsRead
  <2>3. CASE Given("--enable-opcua") = {}
    <3>1. PICK t \in env["SVDC_OPCUA_BIND"] : o = {t}
      BY <2>1, <2>2, <2>3 DEF OpcuaText, Prefer
    <3>2. Parsed(o) = {Addresses[t]} /\ o # {}
      BY <3>1 DEF Parsed
    <3>3. a = Addresses[t]
      BY <2>1, <3>2 DEF OpcuaOf
    <3>4. Told("--enable-opcua", "SVDC_OPCUA_BIND", {DefaultOpcua}) =
            Parsed(env["SVDC_OPCUA_BIND"])
      BY <2>3, <3>1 DEF Told
    <3> QED BY <3>1, <3>3, <3>4 DEF Parsed
  <2>4. CASE Given("--enable-opcua") # {}
    <3>1. o = Values("--enable-opcua")
      BY <2>1, <2>2, <2>4 DEF OpcuaText, Prefer
    <3>2. CASE o = {}
      BY <2>1, <2>4, <3>1, <3>2 DEF OpcuaOf, Told
    <3>3. CASE o # {}
      <4>1. Parsed(o) # {}
        BY <3>3, ParsedOfSome
      <4>2. a \in Parsed(o)
        BY <2>1, <3>3, <4>1 DEF OpcuaOf
      <4> QED BY <2>4, <3>1, <3>3, <4>2 DEF Told
    <3> QED BY <3>2, <3>3
  <2> QED BY <2>3, <2>4
<1>7. ASSUME NEW a \in c.opcua
      PROVE  IsLoopback(a) \/ Allowed
  <2>1. "--allow-insecure-bind" \in cli.flags <=> Given("--allow-insecure-bind") # {}
    BY <1>1, <1>o, LineAsRead
  <2> QED BY <1>1, <2>1 DEF Allowed
<1> QED BY <1>2, <1>3, <1>4, <1>5, <1>6, <1>7 DEF AsTold

-------------------------------------------------------------------------------
(* main, step by step.                                                     *)

BeforeFeed == {"resolve", "operational", "audit", "runtime", "probe", "probe_udp", "ingress"}
FromDemo == {"demo", "opcua", "console", "serving", "draining"}

\* The configuration is the one the process was started with.
CfgInv ==
  /\ start \in Starts
  /\ cfg = {} \/ cfg = ResolveConfig(Line, start.env)
  /\ pc \in BeforeFeed \cup FromDemo \cup {"exited"}
  /\ pc \notin {"resolve", "exited"} => cfg # {}

\* A socket held is one the configuration names, for the service it names it for.
Owed(h) ==
  \/ h.service = "console" /\ h.socket = Console
  \/ h.service = "ingress" /\ h.socket \in Feed
  \/ h.service = "opcua" /\ h.socket \in Opcua

HeldInv ==
  /\ \A h \in sockets : cfg # {} /\ Owed(h)
  /\ opcuaTask = "spawned" => pc \in {"console", "serving", "draining"}
  /\ pc \in BeforeFeed => sockets = {} /\ opcuaTask = "none" /\ l0Task = "none" /\ feed = FALSE

\* What the files asked for have given so far.
OperationalRead == Config.operational # {} => "operational" \in loaded
AuditRead == Config.audit # {} => "audit" \in loaded
Working == sockets # {} \/ l0Task # "none" \/ opcuaTask # "none"

LoadedInv ==
  /\ pc \notin {"resolve", "operational", "exited"} => OperationalRead
  /\ pc \notin {"resolve", "operational", "audit", "exited"} => AuditRead
  /\ Working => cfg # {} /\ OperationalRead /\ AuditRead

\* The mark of an external feed is the socket of the ingress.
Fed == feed <=> Feed # {}
Serves(service) == \E h \in sockets : h.service = service
Deserved == Help(start.args) \/ (cfg # {} /\ (~Config.ui \/ Fed))

FeedInv ==
  /\ feed \in BOOLEAN
  /\ pc \in FromDemo => Fed /\ (feed => Serves("ingress"))
  /\ pc = "serving" => Serves("console")
  /\ pc # "exited" => code = "none"
  /\ code = "success" => Deserved

\* The four together are inductive.
BootInv == CfgInv /\ HeldInv /\ LoadedInv /\ FeedInv

\* What is said of the configuration stays true while it is left alone.
LEMMA SameConfig ==
  ASSUME cfg' = cfg
  PROVE  Config' = Config /\ Console' = Console /\ Feed' = Feed /\ Opcua' = Opcua
<1>1. Config' = Config
  BY DEF Config
<1> QED BY <1>1 DEF Console, Feed, Opcua

\* With the configuration the same, so is what is owed and what was read.
LEMMA SameReading ==
  ASSUME cfg' = cfg
  PROVE  /\ \A h : Owed(h)' <=> Owed(h)
         /\ loaded \subseteq loaded' => /\ OperationalRead => OperationalRead'
                                        /\ AuditRead => AuditRead'
         /\ (feed' = feed) => (Fed' <=> Fed)
<1>1. Config' = Config /\ Console' = Console /\ Feed' = Feed /\ Opcua' = Opcua
  BY SameConfig
<1>2. \A h : Owed(h)' <=> Owed(h)
  BY <1>1 DEF Owed
<1>3. ASSUME loaded \subseteq loaded'
      PROVE  (OperationalRead => OperationalRead') /\ (AuditRead => AuditRead')
  BY <1>1, <1>3 DEF OperationalRead, AuditRead
<1>4. ASSUME feed' = feed
      PROVE  Fed' <=> Fed
  BY <1>1, <1>4 DEF Fed
<1> QED BY <1>2, <1>3, <1>4

\* The end of the process, for whatever reason, if success is deserved.
LEMMA ExitKeeps ==
  ASSUME BootInv, NEW c, Exit(c), UNCHANGED <<start, cfg, loaded, l0Task>>,
         feed' \in BOOLEAN, c = "success" => feed' = feed /\ Deserved
  PROVE  BootInv'
<1>1. pc' = "exited" /\ code' = c /\ sockets' = {} /\ (opcuaTask' # "none" => opcuaTask # "none")
      /\ opcuaTask' # "spawned"
  BY DEF Exit
<1>2. CfgInv'
  BY <1>1 DEF BootInv, CfgInv, Line
<1>3. HeldInv'
  BY <1>1 DEF HeldInv, BeforeFeed
<1>4. LoadedInv'
  <2>1. Working' => Working
    BY <1>1 DEF Working
  <2> QED BY <1>1, <2>1, SameReading DEF BootInv, LoadedInv
<1>5. FeedInv'
  <2>1. c = "success" => Deserved'
    <3> SUFFICES ASSUME c = "success"
                 PROVE  Deserved'
      OBVIOUS
    <3>1. Fed' <=> Fed
      BY SameReading
    <3>2. Config' = Config
      BY SameConfig
    <3> QED BY <3>1, <3>2 DEF Deserved
  <2> QED BY <1>1, <2>1 DEF FeedInv, FromDemo
<1> QED BY <1>2, <1>3, <1>4, <1>5 DEF BootInv

\* One step on, with nothing but the files read changed.
LEMMA GotoKeeps ==
  ASSUME BootInv, NEW step, Goto(step), UNCHANGED <<start, cfg, l0Task, feed>>,
         loaded \subseteq loaded',
         pc \in BeforeFeed /\ pc # "resolve", step \in BeforeFeed \ {"resolve"},
         step \notin {"resolve", "operational"} => OperationalRead',
         step \notin {"resolve", "operational", "audit"} => AuditRead'
  PROVE  BootInv'
<1>1. pc' = step /\ UNCHANGED <<code, sockets, opcuaTask>>
  BY DEF Goto
<1>0. sockets = {} /\ opcuaTask = "none" /\ l0Task = "none" /\ feed = FALSE /\ cfg # {}
      /\ pc # "exited" /\ step # "exited" /\ step \notin FromDemo
  BY DEF BootInv, CfgInv, HeldInv, BeforeFeed, FromDemo
<1>2. CfgInv'
  BY <1>0, <1>1 DEF BootInv, CfgInv, Line
<1>3. HeldInv'
  BY <1>0, <1>1 DEF HeldInv
<1>4. LoadedInv'
  BY <1>0, <1>1 DEF LoadedInv, Working
<1>5. FeedInv'
  <2>1. code' = "none"
    BY <1>0, <1>1 DEF BootInv, FeedInv
  <2> QED BY <1>0, <1>1, <2>1 DEF FeedInv, FromDemo
<1> QED BY <1>2, <1>3, <1>4, <1>5 DEF BootInv

\* Reading the line makes the configuration the invariant speaks of.
LEMMA ResolveKeeps == BootInv /\ Resolve => BootInv'
<1> SUFFICES ASSUME BootInv, Resolve
             PROVE  BootInv'
  OBVIOUS
<1> DEFINE resolved == ResolveConfig(start.args, start.env)
<1>1. /\ pc = "resolve" /\ UNCHANGED <<start, loaded, feed, l0Task>>
      /\ \/ Help(start.args) /\ Exit("success") /\ cfg' = cfg
         \/ Exit("failure") /\ cfg' = cfg
         \/ resolved # {} /\ Goto("operational") /\ cfg' = resolved
  BY DEF Resolve
<1>2. feed \in BOOLEAN
  BY DEF BootInv, FeedInv
<1>3. CASE Help(start.args) /\ Exit("success") /\ cfg' = cfg
  <2>1. Deserved
    BY <1>3 DEF Deserved
  <2> QED BY <1>1, <1>2, <1>3, <2>1, ExitKeeps
<1>4. CASE Exit("failure") /\ cfg' = cfg
  BY <1>1, <1>2, <1>4, ExitKeeps
<1>5. CASE resolved # {} /\ Goto("operational") /\ cfg' = resolved
  <2>1. pc' = "operational" /\ UNCHANGED <<code, sockets, opcuaTask>>
    BY <1>5 DEF Goto
  <2>2. sockets = {} /\ opcuaTask = "none" /\ l0Task = "none" /\ feed = FALSE
    BY <1>1 DEF BootInv, HeldInv, BeforeFeed
  <2>3. CfgInv'
    BY <1>1, <1>5, <2>1 DEF BootInv, CfgInv, Line, BeforeFeed
  <2>4. HeldInv'
    BY <1>1, <2>1, <2>2 DEF HeldInv
  <2>5. LoadedInv'
    BY <1>1, <2>1, <2>2 DEF LoadedInv, Working
  <2>6. FeedInv'
    <3>1. code' = "none"
      BY <1>1, <2>1 DEF BootInv, FeedInv
    <3> QED BY <1>1, <1>2, <2>1, <3>1 DEF FeedInv, FromDemo
  <2> QED BY <2>3, <2>4, <2>5, <2>6 DEF BootInv
<1> HIDE DEF resolved
<1> QED BY <1>1, <1>3, <1>4, <1>5

\* A file is loaded before anything serves, or the daemon ends.
LEMMA LoadKeeps == BootInv /\ (LoadOperational \/ LoadAudit) => BootInv'
<1> SUFFICES ASSUME BootInv, LoadOperational \/ LoadAudit
             PROVE  BootInv'
  OBVIOUS
<1>b. feed \in BOOLEAN
  BY DEF BootInv, FeedInv
<1>1. CASE LoadOperational
  <2>1. /\ pc = "operational" /\ UNCHANGED <<start, cfg, feed, l0Task>>
        /\ \/ Config.operational = {} /\ Goto("audit") /\ UNCHANGED loaded
           \/ Goto("audit") /\ loaded' = loaded \cup {"operational"}
           \/ Exit("failure") /\ UNCHANGED loaded
    BY <1>1 DEF LoadOperational, Load
  <2>2. CASE Exit("failure") /\ UNCHANGED loaded
    BY <1>b, <2>1, <2>2, ExitKeeps
  <2>3. CASE Goto("audit") /\ (\/ Config.operational = {} /\ UNCHANGED loaded
                               \/ loaded' = loaded \cup {"operational"})
    <3>1. OperationalRead'
      <4>1. Config' = Config
        BY <2>1, SameConfig
      <4> QED BY <2>3, <4>1 DEF OperationalRead
    <3>2. loaded \subseteq loaded'
      BY <2>3
    <3>3. "audit" \in BeforeFeed \ {"resolve"} /\ pc \in BeforeFeed /\ pc # "resolve"
      BY <2>1 DEF BeforeFeed
    <3> QED BY <2>1, <2>3, <3>1, <3>2, <3>3, GotoKeeps
  <2> QED BY <2>1, <2>2, <2>3
<1>2. CASE LoadAudit
  <2>1. /\ pc = "audit" /\ UNCHANGED <<start, cfg, feed, l0Task>>
        /\ \/ Config.audit = {} /\ Goto("runtime") /\ UNCHANGED loaded
           \/ Goto("runtime") /\ loaded' = loaded \cup {"audit"}
           \/ Exit("failure") /\ UNCHANGED loaded
    BY <1>2 DEF LoadAudit, Load
  <2>2. CASE Exit("failure") /\ UNCHANGED loaded
    BY <1>b, <2>1, <2>2, ExitKeeps
  <2>3. CASE Goto("runtime") /\ (\/ Config.audit = {} /\ UNCHANGED loaded
                                 \/ loaded' = loaded \cup {"audit"})
    <3>1. AuditRead'
      <4>1. Config' = Config
        BY <2>1, SameConfig
      <4> QED BY <2>3, <4>1 DEF AuditRead
    <3>2. loaded \subseteq loaded'
      BY <2>3
    <3>3. OperationalRead'
      <4>1. OperationalRead
        BY <2>1 DEF BootInv, LoadedInv
      <4> QED BY <2>1, <3>2, <4>1, SameReading
    <3>4. "runtime" \in BeforeFeed \ {"resolve"} /\ pc \in BeforeFeed /\ pc # "resolve"
      BY <2>1 DEF BeforeFeed
    <3> QED BY <2>1, <2>3, <3>1, <3>2, <3>3, <3>4, GotoKeeps
  <2> QED BY <2>1, <2>2, <2>3
<1> QED BY <1>1, <1>2

\* A probe lets its socket go.
LEMMA ProbeKeeps ==
  ASSUME BootInv, NEW next \in {"probe", "probe_udp", "ingress"},
         pc \in {"runtime", "probe", "probe_udp"}, UNCHANGED daemonVars,
         Goto(next) \/ Exit("failure")
  PROVE  BootInv'
<1>1. UNCHANGED <<start, cfg, loaded, l0Task, feed>>
  BY DEF daemonVars
<1>2. feed \in BOOLEAN /\ OperationalRead /\ AuditRead
  BY DEF BootInv, FeedInv, LoadedInv
<1>3. OperationalRead' /\ AuditRead'
  BY <1>1, <1>2, SameReading
<1>4. CASE Exit("failure")
  BY <1>1, <1>2, <1>4, ExitKeeps
<1>5. CASE Goto(next)
  <2>1. next \in BeforeFeed \ {"resolve"} /\ pc \in BeforeFeed /\ pc # "resolve"
    BY DEF BeforeFeed
  <2> QED BY <1>1, <1>3, <1>5, <2>1, GotoKeeps
<1> QED BY <1>4, <1>5

\* Nothing is held and nothing serves before the feed.
LEMMA StepsBeforeFeedKeep ==
  BootInv /\ (Runtime \/ ProbeConsole \/ ProbeIngress) => BootInv'
<1> SUFFICES ASSUME BootInv, Runtime \/ ProbeConsole \/ ProbeIngress
             PROVE  BootInv'
  OBVIOUS
<1>1. CASE Runtime
  <2>1. /\ pc = "runtime" /\ UNCHANGED daemonVars
        /\ ((~Config.ui /\ Exit("success")) \/ Exit("failure") \/ Goto("probe"))
    BY <1>1 DEF Runtime
  <2>2. CASE ~Config.ui /\ Exit("success")
    <3>1. Deserved
      BY <2>1, <2>2 DEF BootInv, CfgInv, Deserved
    <3>2. UNCHANGED <<start, cfg, loaded, l0Task, feed>> /\ feed \in BOOLEAN
      BY <2>1 DEF daemonVars, BootInv, FeedInv
    <3> QED BY <2>2, <3>1, <3>2, ExitKeeps
  <2>3. CASE Exit("failure") \/ Goto("probe")
    BY <2>1, <2>3, ProbeKeeps
  <2> QED BY <2>1, <2>2, <2>3
<1>2. CASE ProbeConsole
  <2>1. pc = "probe" /\ UNCHANGED daemonVars /\ (Goto("probe_udp") \/ Exit("failure"))
    BY <1>2 DEF ProbeConsole, Probe
  <2> QED BY <2>1, ProbeKeeps
<1>3. CASE ProbeIngress
  <2>1. pc = "probe_udp" /\ UNCHANGED daemonVars /\ (Goto("ingress") \/ Exit("failure"))
    BY <1>3 DEF ProbeIngress, Probe
  <2> QED BY <2>1, ProbeKeeps
<1> QED BY <1>1, <1>2, <1>3

\* A step of the running daemon.
LEMMA RunningKeeps ==
  ASSUME BootInv, UNCHANGED <<start, cfg, loaded, feed, code>>,
         pc \in FromDemo, pc' \in FromDemo,
         \A h \in sockets' : Owed(h), Serves("ingress") => Serves("ingress")',
         pc' = "serving" => Serves("console")',
         opcuaTask' = "spawned" => pc' \in {"console", "serving", "draining"}
  PROVE  BootInv'
<1>1. /\ pc \notin BeforeFeed /\ pc' \notin BeforeFeed /\ pc # "exited" /\ pc' # "exited"
      /\ pc \notin {"resolve", "operational", "audit"}
      /\ pc' \notin {"resolve", "operational", "audit"}
  BY DEF FromDemo, BeforeFeed
<1>2. cfg # {} /\ OperationalRead /\ AuditRead /\ Fed /\ (feed => Serves("ingress"))
      /\ code = "none" /\ feed \in BOOLEAN
  BY <1>1 DEF BootInv, CfgInv, LoadedInv, FeedInv
<1>3. /\ OperationalRead' /\ AuditRead' /\ Fed' /\ cfg' # {}
      /\ \A h \in sockets' : Owed(h)'
  BY <1>2, SameReading
<1>4. CfgInv'
  BY <1>1, <1>2 DEF BootInv, CfgInv, Line
<1>5. HeldInv'
  BY <1>1, <1>3 DEF HeldInv
<1>6. LoadedInv'
  BY <1>3 DEF LoadedInv
<1>7. FeedInv'
  BY <1>1, <1>2, <1>3 DEF FeedInv
<1> QED BY <1>4, <1>5, <1>6, <1>7 DEF BootInv

\* A step that leaves the daemon alone keeps the invariant.
LEMMA SameKeeps ==
  ASSUME BootInv, UNCHANGED <<start, pc, cfg, loaded, sockets, feed, l0Task, opcuaTask, code>>
  PROVE  BootInv'
<1>0. Config' = Config /\ (OperationalRead => OperationalRead') /\ (AuditRead => AuditRead')
      /\ (Fed' <=> Fed) /\ \A h : Owed(h)' <=> Owed(h)
  BY SameConfig, SameReading
<1>1. CfgInv'
  BY DEF BootInv, CfgInv, Line
<1>2. HeldInv'
  BY <1>0 DEF BootInv, HeldInv
<1>3. LoadedInv'
  BY <1>0 DEF BootInv, LoadedInv, Working
<1>4. FeedInv'
  BY <1>0 DEF BootInv, FeedInv, Serves, Deserved
<1> QED BY <1>1, <1>2, <1>3, <1>4 DEF BootInv

\* A feed is there before the console or there is no console.
LEMMA IngressKeeps == BootInv /\ SpawnUdpIngress => BootInv'
<1> SUFFICES ASSUME BootInv, SpawnUdpIngress
             PROVE  BootInv'
  OBVIOUS
<1>1. /\ pc = "ingress" /\ UNCHANGED <<start, cfg, loaded, l0Task>>
      /\ NoIngress \/ IngressUp \/ IngressDown
  BY DEF SpawnUdpIngress
<1>2. /\ sockets = {} /\ opcuaTask = "none" /\ l0Task = "none" /\ feed = FALSE /\ cfg # {}
      /\ OperationalRead /\ AuditRead /\ code = "none"
  BY <1>1 DEF BootInv, CfgInv, HeldInv, LoadedInv, FeedInv, BeforeFeed
<1>3. /\ OperationalRead' /\ AuditRead' /\ cfg' # {} /\ Feed' = Feed
      /\ \A h : Owed(h)' <=> Owed(h)
  BY <1>1, <1>2, SameReading, SameConfig
<1>4. CASE IngressDown
  <2>1. Exit("failure") /\ feed' \in BOOLEAN
    BY <1>2, <1>4 DEF IngressDown
  <2> QED BY <1>1, <2>1, ExitKeeps
<1>5. ASSUME pc' = "demo", UNCHANGED <<code, opcuaTask>>, feed' \in BOOLEAN, Fed',
             \A h \in sockets' : Owed(h), feed' => Serves("ingress")'
      PROVE  BootInv'
  <2>1. CfgInv'
    BY <1>1, <1>3, <1>5 DEF BootInv, CfgInv, Line, FromDemo
  <2>2. HeldInv'
    BY <1>2, <1>3, <1>5 DEF HeldInv, BeforeFeed
  <2>3. LoadedInv'
    BY <1>3 DEF LoadedInv
  <2>4. FeedInv'
    BY <1>2, <1>5 DEF FeedInv
  <2> QED BY <2>1, <2>2, <2>3, <2>4 DEF BootInv
<1>6. CASE NoIngress
  <2>1. Feed = {} /\ pc' = "demo" /\ UNCHANGED <<code, sockets, opcuaTask, feed>>
    BY <1>6 DEF NoIngress, Goto
  <2>2. Fed'
    BY <1>2, <1>3, <2>1 DEF Fed
  <2> QED BY <1>2, <1>5, <2>1, <2>2
<1>7. CASE IngressUp
  <2>1. PICK s \in Feed :
          /\ sockets' = sockets \cup {[service |-> "ingress", socket |-> s]}
          /\ feed' = TRUE /\ pc' = "demo" /\ UNCHANGED <<code, opcuaTask>>
    BY <1>7 DEF IngressUp, Hold
  <2> DEFINE h == [service |-> "ingress", socket |-> s]
  <2>2. h.service = "ingress" /\ h.socket = s /\ h \in sockets'
    BY <2>1
  <2>3. sockets' = {h}
    BY <1>2, <2>1
  <2> HIDE DEF h
  <2>4. Owed(h)
    BY <2>2 DEF Owed
  <2>5. Serves("ingress")'
    BY <2>2 DEF Serves
  <2>6. Fed'
    BY <1>3, <2>1 DEF Fed
  <2> QED BY <1>5, <2>1, <2>3, <2>4, <2>5, <2>6
<1> QED BY <1>1, <1>4, <1>6, <1>7

\* The tasks that come after the feed hold no socket yet.
LEMMA TasksKeep == BootInv /\ (SpawnL0Demo \/ RunL0Demo \/ StartOpcua) => BootInv'
<1> SUFFICES ASSUME BootInv, SpawnL0Demo \/ RunL0Demo \/ StartOpcua
             PROVE  BootInv'
  OBVIOUS
<1>1. UNCHANGED <<start, cfg, loaded, feed, code, sockets>>
  BY DEF SpawnL0Demo, RunL0Demo, StartOpcua, Goto
<1>2. /\ \A h \in sockets' : Owed(h)
      /\ Serves("ingress") => Serves("ingress")'
      /\ Serves("console") => Serves("console")'
  BY <1>1 DEF BootInv, HeldInv, Serves
<1>3. CASE SpawnL0Demo
  <2>1. pc = "demo" /\ pc' = "opcua" /\ opcuaTask' = opcuaTask
    BY <1>3 DEF SpawnL0Demo, Goto
  <2>2. opcuaTask # "spawned"
    BY <2>1 DEF BootInv, HeldInv
  <2> QED BY <1>1, <1>2, <2>1, <2>2, RunningKeeps DEF FromDemo
<1>4. CASE RunL0Demo
  <2>1. /\ pc' = pc /\ opcuaTask' = opcuaTask /\ l0Task = "spawned" /\ pc # "exited"
        /\ pc \in BeforeFeed \cup FromDemo \cup {"exited"}
    BY <1>4 DEF RunL0Demo, BootInv, CfgInv
  <2>2. pc \in FromDemo
    BY <2>1 DEF BootInv, HeldInv
  <2>3. /\ opcuaTask' = "spawned" => pc' \in {"console", "serving", "draining"}
        /\ pc' = "serving" => Serves("console")'
    BY <1>2, <2>1 DEF BootInv, HeldInv, FeedInv
  <2>4. pc' \in FromDemo
    BY <2>1, <2>2
  <2> QED BY <1>1, <1>2, <2>2, <2>3, <2>4, RunningKeeps
<1>5. CASE StartOpcua
  <2>1. pc = "opcua" /\ pc' = "console"
    BY <1>5 DEF StartOpcua
  <2> QED BY <1>1, <1>2, <2>1, RunningKeeps DEF FromDemo
<1> QED BY <1>3, <1>4, <1>5

\* The OPC UA task binds the configuration's address or nothing.
LEMMA RunOpcuaKeeps == BootInv /\ RunOpcua => BootInv'
<1> SUFFICES ASSUME BootInv, RunOpcua
             PROVE  BootInv'
  OBVIOUS
<1>1. PICK s \in Opcua :
        /\ \/ sockets' = sockets \cup {[service |-> "opcua", socket |-> s]}
              /\ opcuaTask' = "running"
           \/ opcuaTask' = "ended" /\ UNCHANGED sockets
        /\ opcuaTask = "spawned" /\ UNCHANGED <<start, cfg, loaded, feed, code, pc>>
  BY DEF RunOpcua, Hold, daemonVars
<1>2. pc \in {"console", "serving", "draining"}
  BY <1>1 DEF BootInv, HeldInv
<1> DEFINE h == [service |-> "opcua", socket |-> s]
<1>3. h.service = "opcua" /\ h.socket = s
  OBVIOUS
<1>4. sockets \subseteq sockets' /\ \A g \in sockets' : g \in sockets \/ g = h
  BY <1>1
<1> HIDE DEF h
<1>5. Owed(h)
  BY <1>3 DEF Owed
<1>6. \A g \in sockets' : Owed(g)
  BY <1>4, <1>5 DEF BootInv, HeldInv
<1>8. pc' = "serving" => Serves("console")
  BY <1>1 DEF BootInv, FeedInv
<1>9. pc \in FromDemo /\ pc' \in FromDemo /\ opcuaTask' # "spawned"
  BY <1>1, <1>2 DEF FromDemo
<1>10. Serves("console") => Serves("console")'
  BY <1>4 DEF Serves
<1>11. Serves("ingress") => Serves("ingress")'
  BY <1>4 DEF Serves
<1> QED BY <1>1, <1>6, <1>8, <1>9, <1>10, <1>11, RunningKeeps

\* The console binds its address or the daemon ends.
LEMMA StartConsoleKeeps == BootInv /\ StartConsole => BootInv'
<1> SUFFICES ASSUME BootInv, StartConsole
             PROVE  BootInv'
  OBVIOUS
<1>1. /\ pc = "console" /\ UNCHANGED <<start, cfg, loaded, feed, l0Task>>
      /\ \/ /\ sockets' = sockets \cup {[service |-> "console", socket |-> Console]}
            /\ pc' = "serving" /\ UNCHANGED <<code, opcuaTask>>
         \/ Exit("failure")
  BY DEF StartConsole, Hold, daemonVars
<1>b. feed \in BOOLEAN
  BY DEF BootInv, FeedInv
<1>2. CASE Exit("failure")
  BY <1>1, <1>2, <1>b, ExitKeeps
<1>3. CASE /\ sockets' = sockets \cup {[service |-> "console", socket |-> Console]}
           /\ pc' = "serving" /\ UNCHANGED <<code, opcuaTask>>
  <2> DEFINE h == [service |-> "console", socket |-> Console]
  <2>1. h.service = "console" /\ h.socket = Console
    OBVIOUS
  <2>2. sockets \subseteq sockets' /\ h \in sockets' /\ \A g \in sockets' : g \in sockets \/ g = h
    BY <1>3
  <2> HIDE DEF h
  <2>3. Owed(h)
    BY <2>1 DEF Owed
  <2>4. \A g \in sockets' : Owed(g)
    BY <2>2, <2>3 DEF BootInv, HeldInv
  <2>5. Serves("console")'
    BY <2>1, <2>2 DEF Serves
  <2>6. Serves("ingress") => Serves("ingress")'
    BY <2>2 DEF Serves
  <2>7. pc \in FromDemo /\ pc' \in FromDemo /\ pc' \in {"console", "serving", "draining"}
    BY <1>1, <1>3 DEF FromDemo
  <2> QED BY <1>1, <1>3, <2>4, <2>5, <2>6, <2>7, RunningKeeps
<1> QED BY <1>1, <1>2, <1>3

\* An ending daemon lets its sockets go.
LEMMA EndKeeps == BootInv /\ (Interrupt \/ Drained) => BootInv'
<1> SUFFICES ASSUME BootInv, Interrupt \/ Drained
             PROVE  BootInv'
  OBVIOUS
<1>1. UNCHANGED <<start, cfg, loaded, feed, l0Task>> /\ feed \in BOOLEAN
  BY DEF Interrupt, Drained, daemonVars, BootInv, FeedInv
<1>2. CASE Drained
  <2>1. pc = "draining" /\ Exit("success")
    BY <1>2 DEF Drained
  <2>2. Deserved
    BY <2>1 DEF BootInv, CfgInv, FeedInv, FromDemo, Deserved
  <2> QED BY <1>1, <2>1, <2>2, ExitKeeps
<1>3. CASE Interrupt /\ pc # "serving"
  <2>1. Exit("killed")
    BY <1>3 DEF Interrupt
  <2> QED BY <1>1, <2>1, ExitKeeps
<1>4. CASE Interrupt /\ pc = "serving"
  <2>1. /\ pc' = "draining" /\ sockets' = {h \in sockets : h.service # "console"}
        /\ UNCHANGED <<code, opcuaTask>>
    BY <1>4 DEF Interrupt
  <2>2. \A h \in sockets' : Owed(h)
    BY <2>1 DEF BootInv, HeldInv
  <2>3. Serves("ingress") => Serves("ingress")'
    BY <2>1 DEF Serves
  <2>4. pc \in FromDemo /\ pc' \in FromDemo /\ pc' \in {"console", "serving", "draining"}
    BY <1>4, <2>1 DEF FromDemo
  <2> QED BY <1>1, <2>1, <2>2, <2>3, <2>4, RunningKeeps
<1> QED BY <1>2, <1>3, <1>4

\* The invariant holds at the start, ...
LEMMA BootInit == Init => BootInv
<1> SUFFICES ASSUME Init
             PROVE  BootInv
  OBVIOUS
<1>1. /\ start \in Starts /\ pc = "resolve" /\ cfg = {} /\ sockets = {} /\ feed = FALSE
      /\ opcuaTask = "none" /\ l0Task = "none" /\ code = "none"
  BY DEF Init
<1>2. CfgInv
  BY <1>1 DEF CfgInv, BeforeFeed
<1>3. HeldInv
  BY <1>1 DEF HeldInv
<1>4. LoadedInv
  BY <1>1 DEF LoadedInv, Working
<1>5. FeedInv
  BY <1>1 DEF FeedInv, FromDemo
<1> QED BY <1>2, <1>3, <1>4, <1>5 DEF BootInv

\* ... every step keeps it, ...
LEMMA BootStep == BootInv /\ [Next]_vars => BootInv'
<1> SUFFICES ASSUME BootInv, [Next]_vars
             PROVE  BootInv'
  OBVIOUS
<1>1. CASE Resolve
  BY <1>1, ResolveKeeps
<1>2. CASE LoadOperational \/ LoadAudit
  BY <1>2, LoadKeeps
<1>3. CASE Runtime \/ ProbeConsole \/ ProbeIngress
  BY <1>3, StepsBeforeFeedKeep
<1>4. CASE SpawnUdpIngress
  BY <1>4, IngressKeeps
<1>5. CASE SpawnL0Demo \/ RunL0Demo \/ StartOpcua
  BY <1>5, TasksKeep
<1>6. CASE RunOpcua
  BY <1>6, RunOpcuaKeeps
<1>7. CASE StartConsole
  BY <1>7, StartConsoleKeeps
<1>8. CASE Interrupt \/ Drained
  BY <1>8, EndKeeps
<1>9. CASE Watch \/ Others \/ UNCHANGED vars
  <2>1. UNCHANGED <<start, pc, cfg, loaded, sockets, feed, l0Task, opcuaTask, code>>
    BY <1>9 DEF Watch, Others, vars, daemonVars
  <2> QED BY <2>1, SameKeeps
<1> QED BY <1>1, <1>2, <1>3, <1>4, <1>5, <1>6, <1>7, <1>8, <1>9 DEF Next

\* A configuration there is is the one asked for.
LEMMA BootTold ==
  ASSUME BootInv, cfg # {}
  PROVE  AsTold(Config)
<1>1. cfg = ResolveConfig(Line, start.env) /\ Line \in Seq(STRING)
  BY BootAssumption DEF BootInv, CfgInv, Line
<1>2. PICK c : c \in cfg
  OBVIOUS
<1>3. cfg = {c}
  <2> DEFINE C == ResolveConfig(Line, start.env)
  <2>1. c \in C
    BY <1>1, <1>2
  <2>2. C = {c}
    BY <2>1, ConfigIsAlone
  <2> QED BY <1>1, <2>2
<1>4. Config = c
  BY <1>3 DEF Config
<1> QED BY <1>1, <1>2, <1>4, ConfigAsTold

\* ... and so it holds always.
LEMMA BootAlways == Spec => []BootInv
BY BootInit, BootStep, PTL DEF Spec

(* ListensWhereTold: for every line of arguments, of any length and with   *)
(* options in each other's places, and every environment: each socket the  *)
(* daemon holds is where its last option, else the environment, told it to *)
(* listen (svdc-bin resolve_config), and the OPC UA server is on a         *)
(* loopback address unless the option that allows more was given.          *)
THEOREM ListensOnlyWhereTold == Spec => []ListensWhereTold
<1>1. BootInv => ListensWhereTold
  <2> SUFFICES ASSUME BootInv, NEW h \in sockets
               PROVE  CASE h.service = "console" ->
                        h.socket \in {Socket("tcp", a) :
                                        a \in Told("--ui-bind", "SVDC_UI_BIND", {DefaultUi})}
                   [] h.service = "ingress" ->
                        h.socket \in {Socket("udp", a) :
                                        a \in Told("--ingress-udp", "SVDC_INGRESS_UDP", {})}
                   [] h.service = "opcua" ->
                        /\ h.socket \in {Socket("tcp", a) : a \in
                             Told("--enable-opcua", "SVDC_OPCUA_BIND", {DefaultOpcua})}
                        /\ h.socket.ip \in LoopbackIps \/ Allowed
    BY DEF ListensWhereTold
  <2>1. Owed(h) /\ AsTold(Config)
    BY BootTold DEF BootInv, HeldInv
  <2>2. CASE h.service = "console" /\ h.socket = Console
    BY <2>1, <2>2 DEF AsTold, Console
  <2>3. CASE h.service = "ingress" /\ h.socket \in Feed
    BY <2>1, <2>3 DEF AsTold, Feed
  <2>4. CASE h.service = "opcua" /\ h.socket \in Opcua
    <3>1. PICK a \in Config.opcua : h.socket = Socket("tcp", a)
      BY <2>4 DEF Opcua
    <3>2. /\ a \in Told("--enable-opcua", "SVDC_OPCUA_BIND", {DefaultOpcua})
          /\ a.ip \in LoopbackIps \/ Allowed
      BY <2>1 DEF AsTold, IsLoopback
    <3>3. h.socket.ip = a.ip
      BY <3>1 DEF Socket
    <3> QED BY <2>4, <3>1, <3>2, <3>3
  <2> QED BY <2>1, <2>2, <2>3, <2>4 DEF Owed
<1> QED BY <1>1, BootAlways, PTL

(* StateBeforeService: no socket is held and no task runs before the files *)
(* asked for are read: main loads both before it starts anything, and ends *)
(* if one of them cannot be loaded (svdc-bin main).                        *)
THEOREM StateIsThereFirst == Spec => []StateBeforeService
<1>1. BootInv => StateBeforeService
  BY BootTold
     DEF StateBeforeService, BootInv, LoadedInv, Working, OperationalRead, AuditRead, AsTold
<1> QED BY <1>1, BootAlways, PTL

(* ServesWhatWasAsked: a console that serves has its own socket and, if    *)
(* and only if it was asked for, the ingress' and its mark; a process that *)
(* ends with success was asked for help, for no console, or had both.      *)
THEOREM ServesOnlyWhatWasAsked == Spec => []ServesWhatWasAsked
<1>1. BootInv => ServesWhatWasAsked
  <2> SUFFICES ASSUME BootInv
               PROVE  ServesWhatWasAsked
    OBVIOUS
  <2>1. ASSUME cfg # {}
        PROVE  Feed # {} <=> Asks("--ingress-udp", "SVDC_INGRESS_UDP")
    <3>1. Feed # {} <=> Config.ingress # {}
      BY DEF Feed
    <3> QED BY <2>1, <3>1, BootTold DEF AsTold
  <2>2. ASSUME pc = "serving"
        PROVE  /\ Serves("console")
               /\ feed <=> Asks("--ingress-udp", "SVDC_INGRESS_UDP")
               /\ feed <=> Serves("ingress")
    <3>1. /\ cfg # {} /\ Serves("console") /\ Fed /\ (feed => Serves("ingress"))
          /\ \A h \in sockets : Owed(h)
      BY <2>2 DEF BootInv, CfgInv, FeedInv, HeldInv, FromDemo
    <3>2. Serves("ingress") => Feed # {}
      BY <3>1 DEF Serves, Owed
    <3> QED BY <2>1, <3>1, <3>2 DEF Fed
  <2>3. ASSUME code = "success"
        PROVE  \/ Help(start.args)
               \/ cfg # {} /\ ~Config.ui
               \/ feed = Asks("--ingress-udp", "SVDC_INGRESS_UDP")
    <3>1. Deserved /\ feed \in BOOLEAN
      BY <2>3 DEF BootInv, FeedInv
    <3>2. CASE cfg # {} /\ Fed
      <4>1. feed <=> Asks("--ingress-udp", "SVDC_INGRESS_UDP")
        BY <2>1, <3>2 DEF Fed
      <4>2. Asks("--ingress-udp", "SVDC_INGRESS_UDP") \in BOOLEAN
        BY DEF Asks
      <4> QED BY <3>1, <4>1, <4>2
    <3> QED BY <3>1, <3>2 DEF Deserved
  <2> QED BY <2>2, <2>3 DEF ServesWhatWasAsked, Serves
<1> QED BY <1>1, BootAlways, PTL

-------------------------------------------------------------------------------
(***************************************************************************)
(* The audit log that main opens: for every set of requests, every ring    *)
(* capacity and every bound on the events.                                 *)
(***************************************************************************)
LogLine == [seq : Nat, ev : Nat \ {0}]
Pending(r) == request[r] # None

AuditTypeInv ==
  /\ up \in BOOLEAN
  /\ nextSeq \in Nat /\ events \in Nat
  /\ file \in Seq(LogLine) /\ stuck \in LogLine \cup {None}
  /\ request \in [Requests -> LogLine \cup {None}]

\* Numbers go up to the number of events; those of the file with the stuck line and of
\* the requests in flight are below the next one, and no two of them are equal.
NumberInv ==
  /\ \A i \in DOMAIN Unstuck : Unstuck[i].seq <= events
  /\ \A r \in Requests : Pending(r) => request[r].seq <= events
  /\ nextSeq <= events + 1
  /\ ~up => stuck = None /\ \A r \in Requests : ~Pending(r)
  /\ up => /\ \A i \in DOMAIN Unstuck : Unstuck[i].seq < nextSeq
           /\ \A r \in Requests : Pending(r) => request[r].seq < nextSeq
  /\ \A r \in Requests : Pending(r) => \A i \in DOMAIN Unstuck : Unstuck[i].seq # request[r].seq
  /\ \A r, s \in Requests : Pending(r) /\ Pending(s) /\ request[r].seq = request[s].seq => r = s
  /\ \A i, j \in DOMAIN Unstuck : Unstuck[i].seq = Unstuck[j].seq => i = j

-------------------------------------------------------------------------------
(* A set of naturals with an upper bound has a greatest element.           *)
LEMMA GreatestExists ==
  ASSUME NEW S \in SUBSET Nat, S # {}, NEW b \in Nat, \A s \in S : s <= b
  PROVE  \E m \in S : \A n \in S : n <= m
<1> DEFINE T == {n \in Nat : \A s \in S : s <= n}
<1>1. PICK m \in T : \A n \in T : m <= n
  <2>1. T \subseteq Nat /\ b \in T
    OBVIOUS
  <2> HIDE DEF T
  <2> QED BY <2>1, LeastExists
<1>2. m \in S
  <2> SUFFICES ASSUME m \notin S PROVE FALSE
    OBVIOUS
  <2>1. \A s \in S : s \in Nat /\ s <= m /\ s # m
    OBVIOUS
  <2>2. m \in Nat /\ m # 0
    <3>1. PICK s \in S : TRUE
      OBVIOUS
    <3> QED BY <2>1, <3>1
  <2>3. m - 1 \in Nat /\ \A s \in S : s <= m - 1
    BY <2>1, <2>2
  <2>4. m - 1 \in T
    BY <2>3
  <2> QED BY <1>1, <2>2, <2>4
<1> QED BY <1>2

(* The numbers of a file are naturals.                                     *)
LEMMA LineNumbers ==
  ASSUME NEW lines \in Seq(LogLine)
  PROVE  \A i \in DOMAIN lines : lines[i] \in LogLine /\ lines[i].seq \in Nat
<1>1. \A i \in DOMAIN lines : lines[i] \in LogLine
  OBVIOUS
<1>2. \A l \in LogLine : l.seq \in Nat
  BY DEF LogLine
<1> QED BY <1>1, <1>2

(* replay goes on above every number of the file.                          *)
LEMMA SeqAfterIsAbove ==
  ASSUME NEW lines \in Seq(LogLine), NEW b \in Nat, \A i \in DOMAIN lines : lines[i].seq <= b
  PROVE  /\ SeqAfter(lines) \in Nat /\ SeqAfter(lines) <= b + 1
         /\ \A i \in DOMAIN lines : lines[i].seq < SeqAfter(lines)
<1> DEFINE seqs == {lines[i].seq : i \in DOMAIN lines} \cup {0}
           max == CHOOSE m \in seqs : \A n \in seqs : n <= m
<1>1. \A i \in DOMAIN lines : lines[i] \in LogLine /\ lines[i].seq \in Nat
  BY LineNumbers
<1>2. seqs \in SUBSET Nat /\ seqs # {} /\ \A s \in seqs : s <= b
  BY <1>1
<1>3. \E m \in seqs : \A n \in seqs : n <= m
  <2> HIDE DEF seqs
  <2> QED BY <1>2, GreatestExists
<1>4. max \in seqs /\ \A n \in seqs : n <= max
  BY <1>3
<1>5. max \in Nat /\ max <= b /\ SeqAfter(lines) = 1 + max
  BY <1>2, <1>4 DEF SeqAfter
<1>6. \A i \in DOMAIN lines : lines[i].seq <= max
  BY <1>4
<1> HIDE DEF max
<1> QED BY <1>1, <1>5, <1>6

(* Appending keeps what is there and adds the new line at the end.         *)
LEMMA AppendLine ==
  ASSUME NEW lines \in Seq(LogLine), NEW l \in LogLine
  PROVE  /\ Append(lines, l) \in Seq(LogLine)
         /\ DOMAIN Append(lines, l) = DOMAIN lines \cup {Len(lines) + 1}
         /\ Len(lines) + 1 \notin DOMAIN lines
         /\ \A i \in DOMAIN lines : Append(lines, l)[i] = lines[i]
         /\ Append(lines, l)[Len(lines) + 1] = l
OBVIOUS

(* The stuck line would come after those of the file.                     *)
LEMMA UnstuckShape ==
  ASSUME AuditTypeInv
  PROVE  /\ Unstuck \in Seq(LogLine)
         /\ DOMAIN file \subseteq DOMAIN Unstuck
         /\ \A i \in DOMAIN file : Unstuck[i] = file[i]
<1>1. CASE stuck = None
  BY <1>1 DEF Unstuck, AuditTypeInv
<1>2. CASE stuck # None
  <2>1. stuck \in LogLine /\ file \in Seq(LogLine) /\ Unstuck = Append(file, stuck)
    BY <1>2 DEF Unstuck, AuditTypeInv
  <2> QED BY <2>1, AppendLine
<1> QED BY <1>1, <1>2

-------------------------------------------------------------------------------
(* Every step keeps the types, ...                                         *)
LEMMA TypeStep == AuditTypeInv /\ NumberInv /\ [AuditNext]_auditVars => AuditTypeInv'
<1> SUFFICES ASSUME AuditTypeInv, NumberInv, [AuditNext]_auditVars PROVE AuditTypeInv'
  OBVIOUS
<1>1. ASSUME NEW r \in Requests, Record(r) PROVE AuditTypeInv'
  <2>1. [seq |-> nextSeq, ev |-> events + 1] \in LogLine
    BY DEF AuditTypeInv, LogLine
  <2> QED BY <1>1, <2>1 DEF Record, AuditTypeInv
<1>2. ASSUME NEW r \in Requests, PersistLine(r) PROVE AuditTypeInv'
  <2>1. request[r] \in LogLine
    BY <1>2 DEF PersistLine, AuditTypeInv
  <2>2. Unstuck \in Seq(LogLine) /\ Append(Unstuck, request[r]) \in Seq(LogLine)
    BY <2>1, UnstuckShape, AppendLine
  <2>3. file' \in Seq(LogLine) /\ stuck' \in LogLine \cup {None}
    BY <1>2, <2>1, <2>2 DEF PersistLine, AuditTypeInv
  <2> QED BY <1>2, <2>3 DEF PersistLine, AuditTypeInv
<1>3. CASE Kill
  BY <1>3 DEF Kill, AuditTypeInv
<1>4. CASE Restart
  <2>1. Unstuck = file
    BY <1>4 DEF Restart, Unstuck, NumberInv
  <2>2. \A i \in DOMAIN file : file[i].seq <= events
    BY <2>1 DEF NumberInv
  <2>3. SeqAfter(file) \in Nat
    BY <2>2, SeqAfterIsAbove DEF AuditTypeInv
  <2> QED BY <1>4, <2>3 DEF Restart, Reopened, AuditTypeInv
<1>5. CASE Repair \/ UNCHANGED auditVars
  BY <1>5 DEF Repair, auditVars, AuditTypeInv
<1> QED BY <1>1, <1>2, <1>3, <1>4, <1>5 DEF AuditNext

(* ... every step keeps the numbers apart, ...                             *)
LEMMA NumberStep == AuditTypeInv /\ NumberInv /\ [AuditNext]_auditVars => NumberInv'
<1> SUFFICES ASSUME AuditTypeInv, NumberInv, [AuditNext]_auditVars PROVE NumberInv'
  OBVIOUS
<1>u. /\ Unstuck \in Seq(LogLine) /\ DOMAIN file \subseteq DOMAIN Unstuck
      /\ \A i \in DOMAIN file : Unstuck[i] = file[i]
  BY UnstuckShape
<1>t. /\ nextSeq \in Nat /\ events \in Nat /\ Unstuck \in Seq(LogLine) /\ up \in BOOLEAN
      /\ request \in [Requests -> LogLine \cup {None}]
      /\ \A l \in LogLine : l.seq \in Nat /\ l # None
  BY <1>u DEF AuditTypeInv, LogLine, None
<1>f. \A i \in DOMAIN Unstuck : Unstuck[i].seq \in Nat
  BY <1>t, LineNumbers
<1>1. ASSUME NEW r \in Requests, Record(r) PROVE NumberInv'
  <2> DEFINE rec == [seq |-> nextSeq, ev |-> events + 1]
  <2>1. /\ up /\ UNCHANGED <<up, Unstuck>>
        /\ nextSeq' = nextSeq + 1 /\ events' = events + 1
        /\ request' = [request EXCEPT ![r] = rec]
    BY <1>1 DEF Record, Unstuck
  <2>2. rec \in LogLine /\ rec.seq = nextSeq
    BY <1>t DEF LogLine
  <2> HIDE DEF rec
  <2>3. \A s \in Requests : request'[s] = IF s = r THEN rec ELSE request[s]
    BY <1>t, <2>1
  <2>4. \A s \in Requests : Pending(s)' <=> (s = r \/ Pending(s))
    BY <1>t, <2>2, <2>3 DEF Pending
  <2>5. \A s \in Requests : Pending(s) => request[s].seq \in Nat
    BY <1>t DEF Pending
  <2>6. \A s \in Requests : Pending(s)' => request'[s].seq < nextSeq' /\ request'[s].seq <= events'
    BY <1>t, <2>1, <2>2, <2>3, <2>4, <2>5 DEF NumberInv
  <2>7. \A s \in Requests : Pending(s)' => \A i \in DOMAIN Unstuck : Unstuck[i].seq # request'[s].seq
    BY <1>f, <1>t, <2>1, <2>2, <2>3, <2>4 DEF NumberInv
  <2>8. \A s, u \in Requests :
          Pending(s)' /\ Pending(u)' /\ request'[s].seq = request'[u].seq => s = u
    BY <1>t, <2>1, <2>2, <2>3, <2>4, <2>5 DEF NumberInv
  <2>9. /\ nextSeq' <= events' + 1
        /\ \A i \in DOMAIN Unstuck : Unstuck[i].seq < nextSeq' /\ Unstuck[i].seq <= events'
    BY <1>f, <1>t, <2>1 DEF NumberInv
  <2>10. \A i, j \in DOMAIN Unstuck' : Unstuck'[i].seq = Unstuck'[j].seq => i = j
    BY <2>1 DEF NumberInv
  <2> QED BY <2>1, <2>6, <2>7, <2>8, <2>9, <2>10 DEF NumberInv
<1>2. ASSUME NEW r \in Requests, PersistLine(r) PROVE NumberInv'
  <2>1. /\ up /\ Pending(r) /\ UNCHANGED <<up, nextSeq, events>>
        /\ request' = [request EXCEPT ![r] = None]
    BY <1>2 DEF PersistLine, Pending
  <2>2. request[r] \in LogLine
    BY <1>t, <2>1 DEF Pending
  <2>3. \A s \in Requests : Pending(s)' => s # r /\ Pending(s) /\ request'[s] = request[s]
    BY <1>t, <2>1 DEF Pending
  <2>4. \A s \in Requests :
          Pending(s)' => request'[s].seq < nextSeq' /\ request'[s].seq <= events'
    BY <2>1, <2>3 DEF NumberInv
  <2>5. \A s, u \in Requests :
          Pending(s)' /\ Pending(u)' /\ request'[s].seq = request'[u].seq => s = u
    BY <2>3 DEF NumberInv
  <2>12. Unstuck' = Unstuck \/ Unstuck' = Append(Unstuck, request[r])
    <3>1. request[r] # None
      BY <2>1 DEF Pending
    <3>2. CASE file' = Append(Unstuck, request[r]) /\ stuck' = None
      BY <3>2 DEF Unstuck
    <3>3. CASE file' = Unstuck /\ stuck' = request[r]
      <4>1. stuck' # None /\ stuck' = request[r]
        BY <3>1, <3>3
      <4>2. Unstuck' = IF stuck' = None THEN file' ELSE Append(file', stuck')
        BY DEF Unstuck
      <4>3. Unstuck' = Append(file', request[r])
        BY <4>1, <4>2
      <4> QED BY <3>3, <4>3
    <3>4. CASE UNCHANGED <<file, stuck>>
      BY <3>4 DEF Unstuck
    <3> QED BY <1>2, <3>2, <3>3, <3>4 DEF PersistLine
  <2>6. \A i \in DOMAIN Unstuck' : (i \in DOMAIN Unstuck /\ Unstuck'[i] = Unstuck[i])
                                \/ (i \notin DOMAIN Unstuck /\ Unstuck'[i] = request[r])
    BY <1>t, <2>2, <2>12, AppendLine
  <2>7. \A i \in DOMAIN Unstuck' : Unstuck'[i].seq < nextSeq' /\ Unstuck'[i].seq <= events'
    BY <2>1, <2>6 DEF NumberInv
  <2>8. \A s \in Requests : Pending(s)' => \A i \in DOMAIN Unstuck' : Unstuck'[i].seq # request'[s].seq
    <3> SUFFICES ASSUME NEW s \in Requests, Pending(s)', NEW i \in DOMAIN Unstuck'
                 PROVE  Unstuck'[i].seq # request'[s].seq
      OBVIOUS
    <3>1. s # r /\ Pending(s) /\ request'[s] = request[s]
      BY <2>3
    <3>2. CASE i \in DOMAIN Unstuck /\ Unstuck'[i] = Unstuck[i]
      BY <3>1, <3>2 DEF NumberInv
    <3>3. CASE Unstuck'[i] = request[r]
      BY <2>1, <3>1, <3>3 DEF NumberInv
    <3> QED BY <2>6, <3>2, <3>3
  <2>9. \A i, j \in DOMAIN Unstuck' : Unstuck'[i].seq = Unstuck'[j].seq => i = j
    <3> SUFFICES ASSUME NEW i \in DOMAIN Unstuck', NEW j \in DOMAIN Unstuck', Unstuck'[i].seq = Unstuck'[j].seq
                 PROVE  i = j
      OBVIOUS
    <3>1. CASE i \in DOMAIN Unstuck /\ j \in DOMAIN Unstuck
      BY <2>6, <3>1 DEF NumberInv
    <3>2. CASE i \notin DOMAIN Unstuck /\ j \in DOMAIN Unstuck
      BY <2>1, <2>6, <3>2 DEF NumberInv
    <3>3. CASE i \in DOMAIN Unstuck /\ j \notin DOMAIN Unstuck
      BY <2>1, <2>6, <3>3 DEF NumberInv
    <3>4. CASE i \notin DOMAIN Unstuck /\ j \notin DOMAIN Unstuck
      BY <1>t, <2>2, <2>12, <3>4, AppendLine
    <3> QED BY <3>1, <3>2, <3>3, <3>4
  <2>11. nextSeq' <= events' + 1
    BY <2>1 DEF NumberInv
  <2> QED BY <2>1, <2>4, <2>5, <2>7, <2>8, <2>9, <2>11 DEF NumberInv
<1>3. CASE Kill
  <2>1. /\ UNCHANGED <<file, events>> /\ nextSeq' = 1 /\ ~up' /\ stuck' = None
        /\ \A r \in Requests : ~Pending(r)'
    BY <1>3 DEF Kill, Pending
  <2>2. Unstuck' = file
    BY <2>1 DEF Unstuck
  <2>3. \A i \in DOMAIN file : file[i].seq <= events
    BY <1>u DEF NumberInv
  <2>4. \A i, j \in DOMAIN file : file[i].seq = file[j].seq => i = j
    BY <1>u DEF NumberInv
  <2> QED BY <1>t, <2>1, <2>2, <2>3, <2>4 DEF NumberInv
<1>4. CASE Restart
  <2>1. /\ UNCHANGED <<file, stuck, events, request>> /\ nextSeq' = SeqAfter(file)
        /\ stuck = None /\ \A r \in Requests : ~Pending(r)'
    BY <1>4 DEF Restart, Reopened, NumberInv, Pending
  <2>2. Unstuck = file /\ Unstuck' = file
    BY <2>1 DEF Unstuck
  <2>3. \A i \in DOMAIN file : file[i].seq <= events
    BY <2>2 DEF NumberInv
  <2>4. nextSeq' <= events + 1 /\ \A i \in DOMAIN file : file[i].seq < nextSeq'
    BY <1>t, <2>1, <2>2, <2>3, SeqAfterIsAbove
  <2>5. up'
    BY <1>4 DEF Restart
  <2> QED BY <2>1, <2>2, <2>3, <2>4, <2>5 DEF NumberInv
<1>5. CASE Repair \/ UNCHANGED auditVars
  <2>1. UNCHANGED <<up, nextSeq, Unstuck, stuck, request, events>>
    BY <1>5 DEF Repair, auditVars, Unstuck
  <2> QED BY <2>1 DEF NumberInv, Pending
<1> QED BY <1>1, <1>2, <1>3, <1>4, <1>5 DEF AuditNext

(* ... and so both hold always.                                            *)
LEMMA NumberInvariance == AuditSpec => [](AuditTypeInv /\ NumberInv)
<1>1. AuditInit => AuditTypeInv /\ NumberInv
  <2> SUFFICES ASSUME AuditInit PROVE AuditTypeInv /\ NumberInv
    OBVIOUS
  <2>1. \A r \in Requests : ~Pending(r)
    BY DEF AuditInit, Pending
  <2>2. file \in Seq(LogLine) /\ DOMAIN file = {} /\ Unstuck = file
    BY DEF AuditInit, Unstuck
  <2> QED BY <2>1, <2>2 DEF AuditInit, AuditTypeInv, NumberInv
<1>2. AuditTypeInv /\ NumberInv /\ [AuditNext]_auditVars => (AuditTypeInv /\ NumberInv)'
  BY TypeStep, NumberStep
<1> QED BY <1>1, <1>2, PTL DEF AuditSpec

(* No two lines of the file carry one number, in whatever order concurrent *)
(* requests wrote them and however often the daemon was killed between     *)
(* numbering a record and writing it (audit/mod.rs, record and replay).    *)
THEOREM NumbersStayUnique == AuditSpec => []SeqUniqueOnDisk
<1>1. AuditTypeInv /\ NumberInv => SeqUniqueOnDisk
  BY UnstuckShape DEF NumberInv, SeqUniqueOnDisk
<1> QED BY <1>1, NumberInvariance, PTL

-------------------------------------------------------------------------------
(* What was answered is written, or its write has failed: no kill, restart *)
(* or repair takes a line away (audit/mod.rs, persist_line).               *)
THEOREM AnswersAreDurable == AuditSpec => []AnsweredIsDurable
<1> DEFINE Written == {file[i].ev : i \in DOMAIN file}
<1>1. AuditInit => AnsweredIsDurable
  BY DEF AuditInit, AnsweredIsDurable
<1>2. AuditTypeInv /\ AnsweredIsDurable /\ [AuditNext]_auditVars => AnsweredIsDurable'
  <2> SUFFICES ASSUME AuditTypeInv, AnsweredIsDurable, [AuditNext]_auditVars PROVE AnsweredIsDurable'
    OBVIOUS
  <2>1. ASSUME NEW r \in Requests, Record(r) PROVE AnsweredIsDurable'
    BY <2>1 DEF Record, AnsweredIsDurable
  <2>2. ASSUME NEW r \in Requests, PersistLine(r) PROVE AnsweredIsDurable'
    <3>1. request[r] \in LogLine /\ file \in Seq(LogLine)
      BY <2>2 DEF PersistLine, AuditTypeInv
    <3>2. answered' = answered \cup {request[r].ev}
      BY <2>2 DEF PersistLine
    <3>3. Unstuck \in Seq(LogLine) /\ Written \subseteq {Unstuck[i].ev : i \in DOMAIN Unstuck}
      BY UnstuckShape
    <3>4. CASE file' = Append(Unstuck, request[r]) /\ UNCHANGED failed
      <4>1. Written \subseteq Written' /\ request[r].ev \in Written'
        <5>1. /\ DOMAIN file' = DOMAIN Unstuck \cup {Len(Unstuck) + 1}
              /\ \A i \in DOMAIN Unstuck : file'[i] = Unstuck[i]
              /\ file'[Len(Unstuck) + 1] = request[r]
          BY <3>1, <3>3, <3>4, AppendLine
        <5>2. {Unstuck[i].ev : i \in DOMAIN Unstuck} \subseteq Written'
          BY <5>1
        <5>3. request[r].ev \in Written'
          BY <5>1
        <5> QED BY <3>3, <5>2, <5>3
      <4> QED BY <3>2, <3>4, <4>1 DEF AnsweredIsDurable
    <3>5. CASE failed' = failed \cup {request[r].ev} /\ file' \in {file, Unstuck}
      <4>1. Written \subseteq Written'
        BY <3>3, <3>5
      <4> QED BY <3>2, <3>5, <4>1 DEF AnsweredIsDurable
    <3> QED BY <2>2, <3>4, <3>5 DEF PersistLine
  <2>3. CASE Kill \/ Restart \/ Repair \/ UNCHANGED auditVars
    <3>1. UNCHANGED <<file, answered, failed>>
      BY <2>3 DEF Kill, Restart, Reopened, Repair, auditVars
    <3> QED BY <3>1 DEF AnsweredIsDurable
  <2> QED BY <2>1, <2>2, <2>3 DEF AuditNext
<1> QED BY <1>1, <1>2, NumberInvariance, PTL DEF AuditSpec

-------------------------------------------------------------------------------
(* Trimming keeps the newest records: counted back from the last one, what *)
(* stays is where it was.                                                  *)
LEMMA TrimmedShape ==
  ASSUME NEW s \in Seq(LogLine)
  PROVE  /\ Trimmed(s) \in Seq(LogLine)
         /\ Len(Trimmed(s)) = IF Len(s) > Capacity THEN Capacity ELSE Len(s)
         /\ \A k \in 1 .. Len(Trimmed(s)) :
              Trimmed(s)[Len(Trimmed(s)) + 1 - k] = s[Len(s) + 1 - k]
<1> DEFINE first == IF Len(s) > Capacity THEN Len(s) - Capacity + 1 ELSE 1
           t == SubSeq(s, first, Len(s))
<1>1. Len(s) \in Nat /\ Capacity \in Nat /\ Capacity > 0
  BY AuditAssumption
<1>2. first \in 1 .. (Len(s) + 1) /\ Len(s) + 1 - first = IF Len(s) > Capacity THEN Capacity ELSE Len(s)
  BY <1>1
<1> HIDE DEF first
<1>3. /\ t \in Seq(LogLine) /\ Len(t) = Len(s) + 1 - first
      /\ \A i \in 1 .. Len(t) : t[i] = s[first + i - 1]
  BY <1>1, <1>2
<1> HIDE DEF t
<1>4. \A k \in 1 .. Len(t) : t[Len(t) + 1 - k] = s[Len(s) + 1 - k]
  <2> SUFFICES ASSUME NEW k \in 1 .. Len(t) PROVE t[Len(t) + 1 - k] = s[Len(s) + 1 - k]
    OBVIOUS
  <2>1. Len(t) + 1 - k \in 1 .. Len(t) /\ first + (Len(t) + 1 - k) - 1 = Len(s) + 1 - k
    BY <1>1, <1>2, <1>3
  <2> QED BY <1>3, <2>1
<1>5. Trimmed(s) = t
  BY DEF Trimmed, first, t
<1> QED BY <1>2, <1>3, <1>4, <1>5

\* While the daemon runs, the ring's newest records are those of this process.
RingInv ==
  up => /\ ring \in Seq(LogLine)
        /\ born \in Nat /\ born <= nextSeq
        /\ RingIsGapFree

(* Every step keeps the ring without a gap.                                *)
LEMMA RingStep == AuditTypeInv /\ NumberInv /\ RingInv /\ [AuditNext]_auditVars => RingInv'
<1> SUFFICES ASSUME AuditTypeInv, NumberInv, RingInv, [AuditNext]_auditVars, up' PROVE RingInv'
  BY DEF RingInv
<1>t. /\ nextSeq \in Nat /\ events \in Nat /\ file \in Seq(LogLine)
      /\ Capacity \in Nat /\ Capacity > 0
  BY AuditAssumption DEF AuditTypeInv
<1>1. ASSUME NEW r \in Requests, Record(r) PROVE RingInv'
  <2> DEFINE rec == [seq |-> nextSeq, ev |-> events + 1]
             longer == Append(ring, rec)
  <2>1. /\ up /\ nextSeq' = nextSeq + 1 /\ born' = born /\ ring' = Trimmed(longer)
    BY <1>1 DEF Record
  <2>2. rec \in LogLine /\ rec.seq = nextSeq
    BY <1>t DEF LogLine
  <2> HIDE DEF rec
  <2>3. /\ ring \in Seq(LogLine) /\ born \in Nat /\ born <= nextSeq /\ Len(ring) \in Nat
        /\ Len(ring) <= Capacity
        /\ \A k \in 1 .. Capacity :
             k <= nextSeq - born =>
               k <= Len(ring) /\ ring[Len(ring) + 1 - k].seq = nextSeq - k
        /\ \A k \in 1 .. Len(ring) :
             k > nextSeq - born => ring[Len(ring) + 1 - k].seq < born
    BY <2>1 DEF RingInv, RingIsGapFree
  <2>4. /\ longer \in Seq(LogLine) /\ Len(longer) = Len(ring) + 1
        /\ longer[Len(ring) + 1] = rec
        /\ \A i \in 1 .. Len(ring) : longer[i] = ring[i]
    BY <2>2, <2>3, AppendLine
  <2> HIDE DEF longer
  <2>5. /\ ring' \in Seq(LogLine)
        /\ Len(ring') = IF Len(ring) + 1 > Capacity THEN Capacity ELSE Len(ring) + 1
        /\ \A k \in 1 .. Len(ring') : ring'[Len(ring') + 1 - k] = longer[Len(ring) + 2 - k]
    <3>1. /\ Trimmed(longer) \in Seq(LogLine)
          /\ Len(Trimmed(longer)) = IF Len(longer) > Capacity THEN Capacity ELSE Len(longer)
          /\ \A k \in 1 .. Len(Trimmed(longer)) :
               Trimmed(longer)[Len(Trimmed(longer)) + 1 - k] = longer[Len(longer) + 1 - k]
      BY <2>4, TrimmedShape
    <3>2. \A k \in Int : Len(longer) + 1 - k = Len(ring) + 2 - k
      BY <2>3, <2>4
    <3> QED BY <2>1, <2>4, <3>1, <3>2
  \* The newest is the new record, the k-th the one that was k - 1 from the end.
  <2>6. ring' # <<>> /\ ring'[Len(ring') + 1 - 1] = rec
    <3>1. 1 \in 1 .. Len(ring') /\ Len(ring) + 2 - 1 = Len(ring) + 1
      BY <1>t, <2>3, <2>5
    <3>2. ring'[Len(ring') + 1 - 1] = longer[Len(ring) + 2 - 1]
      BY <2>5, <3>1
    <3> QED BY <2>4, <2>5, <3>1, <3>2
  <2>7. ASSUME NEW k \in 1 .. Len(ring'), k # 1
        PROVE  /\ k - 1 \in 1 .. Len(ring) /\ k - 1 \in 1 .. Capacity
               /\ ring'[Len(ring') + 1 - k] = ring[Len(ring) + 1 - (k - 1)]
    <3>1. k - 1 \in 1 .. Len(ring) /\ k - 1 \in 1 .. Capacity
      BY <1>t, <2>3, <2>5, <2>7
    <3>2. Len(ring) + 2 - k \in 1 .. Len(ring) /\ Len(ring) + 2 - k = Len(ring) + 1 - (k - 1)
      BY <2>3, <3>1
    <3> QED BY <2>4, <2>5, <3>1, <3>2
  <2>8. ASSUME NEW k \in 1 .. Capacity, k <= nextSeq' - born'
        PROVE  k <= Len(ring') /\ ring'[Len(ring') + 1 - k].seq = nextSeq' - k
    <3>1. CASE k = 1
      <4>1. 1 <= Len(ring') /\ nextSeq' - 1 = nextSeq
        BY <1>t, <2>1, <2>3, <2>5
      <4> QED BY <2>2, <2>6, <3>1, <4>1
    <3>2. CASE k # 1
      <4>1. k - 1 \in 1 .. Capacity /\ k - 1 <= nextSeq - born
        BY <1>t, <2>1, <2>3, <2>8, <3>2
      <4>2. k - 1 <= Len(ring) /\ ring[Len(ring) + 1 - (k - 1)].seq = nextSeq - (k - 1)
        BY <2>3, <4>1
      <4>3. k \in 1 .. Len(ring')
        BY <1>t, <2>3, <2>5, <4>1, <4>2
      <4>4. nextSeq - (k - 1) = nextSeq' - k
        BY <1>t, <2>1
      <4> QED BY <2>7, <3>2, <4>2, <4>3, <4>4
    <3> QED BY <3>1, <3>2
  <2>9. ASSUME NEW k \in 1 .. Len(ring'), k > nextSeq' - born'
        PROVE  ring'[Len(ring') + 1 - k].seq < born'
    <3>1. k # 1 /\ k - 1 > nextSeq - born
      BY <1>t, <2>1, <2>3, <2>5, <2>9
    <3>2. k - 1 \in 1 .. Len(ring) /\ ring'[Len(ring') + 1 - k] = ring[Len(ring) + 1 - (k - 1)]
      BY <2>7, <3>1
    <3> QED BY <2>1, <2>3, <3>1, <3>2
  <2>10. born' \in Nat /\ born' <= nextSeq' /\ Len(ring') <= Capacity
    BY <1>t, <2>1, <2>3, <2>5
  <2> QED BY <2>5, <2>8, <2>9, <2>10 DEF RingInv, RingIsGapFree
<1>2. CASE Restart
  <2>1. ring' = Trimmed(file) /\ nextSeq' = SeqAfter(file) /\ born' = nextSeq'
    BY <1>2 DEF Restart
  <2>2. /\ nextSeq' \in Nat
        /\ \A i \in DOMAIN file : file[i].seq < nextSeq'
    <3>1. \A i \in DOMAIN file : file[i].seq <= events
      BY UnstuckShape DEF NumberInv
    <3> QED BY <1>t, <2>1, <3>1, SeqAfterIsAbove
  <2>3. /\ ring' \in Seq(LogLine) /\ Len(ring') <= Capacity /\ Len(ring') <= Len(file)
        /\ \A k \in 1 .. Len(ring') : ring'[Len(ring') + 1 - k] = file[Len(file) + 1 - k]
    BY <1>t, <2>1, TrimmedShape
  <2>4. \A k \in 1 .. Len(ring') : ring'[Len(ring') + 1 - k].seq < born'
    <3>1. \A k \in 1 .. Len(ring') : Len(file) + 1 - k \in DOMAIN file
      BY <1>t, <2>3
    <3> QED BY <2>1, <2>2, <2>3, <3>1
  <2>5. \A k \in 1 .. Capacity : ~(k <= nextSeq' - born')
    BY <1>t, <2>1, <2>2
  <2> QED BY <2>1, <2>2, <2>3, <2>4, <2>5 DEF RingInv, RingIsGapFree
<1>3. CASE (\E r \in Requests : PersistLine(r)) \/ Repair \/ UNCHANGED auditVars
  <2>1. UNCHANGED <<up, ring, nextSeq, born>>
    BY <1>3 DEF PersistLine, Repair, auditVars
  <2> QED BY <2>1 DEF RingInv, RingIsGapFree
<1>4. ~Kill
  BY DEF Kill
<1> QED BY <1>1, <1>2, <1>3, <1>4 DEF AuditNext

(* Of the events the running process recorded, the ring holds the newest,  *)
(* as many as there are or fit, numbered without a gap up to the newest,   *)
(* and never more than the capacity (audit/mod.rs, record and replay).     *)
THEOREM GapsAreRealLosses == AuditSpec => []RingIsGapFree
<1>1. AuditInit => RingInv
  BY AuditAssumption DEF AuditInit, RingInv, RingIsGapFree
<1>2. AuditTypeInv /\ NumberInv /\ RingInv /\ [AuditNext]_auditVars => RingInv'
  BY RingStep
<1>3. RingInv => RingIsGapFree
  BY DEF RingInv, RingIsGapFree
<1> QED BY <1>1, <1>2, <1>3, NumberInvariance, PTL DEF AuditSpec
===============================================================================
