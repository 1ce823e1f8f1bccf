---------------------------- MODULE Basics_proofs ----------------------------
(***************************************************************************)
(* Lemmas about what the models are made of: integers, the lists of threads*)
(* that the loops of the squad walk through, and intervals of threads; and *)
(* that checked arithmetic is exact for every width of the integers.       *)
(***************************************************************************)
EXTENDS Arithmetic, Blocks, SequenceTheorems, TLAPS

----------------------------------------------------------------------------
(* Facts about integers.                                                   *)

\* Division with remainder.
LEMMA DivMod ==
    ASSUME NEW x \in Nat, NEW d \in Nat \ {0}
    PROVE  /\ x \div d \in Nat /\ x % d \in 0 .. d-1
           /\ x = d * (x \div d) + (x % d)
  OBVIOUS

\* A number that fits does not wrap around (try_multiply_unsigned, try_ceili).
LEMMA WrapFits ==
    ASSUME NEW max \in Nat, NEW x \in 0 .. max
    PROVE  Wrap(x, max) = x
  BY DEF Wrap

\* Multiplying keeps the order; the provers do not know that by themselves.
LEMMA TimesMono ==
    ASSUME NEW b \in Nat, NEW p \in Nat, NEW q \in Nat, p <= q
    PROVE  b * p <= b * q
  <1>1. q = p + (q - p) /\ q - p \in Nat OBVIOUS
  <1>2. b * q = b * p + b * (q - p) BY <1>1, SMT
  <1>3. b * (q - p) \in Nat BY <1>1, SMT
  <1> QED BY <1>2, <1>3

\* The check of try_multiply_unsigned tells exactly the products that are too large.
LEMMA DivBound ==
    ASSUME NEW a \in Nat, NEW b \in Nat \ {0}, NEW max \in Nat
    PROVE  a > max \div b <=> a * b > max
  <1> DEFINE q == max \div b
             r == max % b
  <1>1. q \in Nat /\ r \in 0 .. b-1 /\ max = b * q + r BY DivMod
  <1>2. ASSUME a > q PROVE a * b > max
    <2>1. b * (q + 1) <= b * a BY <1>1, <1>2, TimesMono
    <2>2. b * (q + 1) = b * q + b BY <1>1
    <2>3. b * a = a * b OBVIOUS
    <2> QED BY <2>1, <2>2, <2>3, <1>1
  <1>3. ASSUME a <= q PROVE a * b <= max
    <2>1. b * a <= b * q BY <1>1, <1>3, TimesMono
    <2> QED BY <2>1, <1>1
  <1> QED BY <1>1, <1>2, <1>3

\* A sum of two numbers that fit wraps around once at most (aligned_allocator_adaptor).
LEMMA WrapOnce ==
    ASSUME NEW max \in Nat, NEW x \in Nat, max < x, x <= 2 * max + 1
    PROVE  Wrap(x, max) = x - (max + 1)
  <1> DEFINE m == max + 1
             q == x \div m
             r == x % m
  <1>0. m \in Nat \ {0} OBVIOUS
  <1> HIDE DEF m
  <1>1. q \in Nat /\ r \in 0 .. m-1 /\ x = m * q + r BY <1>0, DivMod
  <1>2. q # 0
    <2> SUFFICES ASSUME q = 0 PROVE FALSE OBVIOUS
    <2>1. m * q = 0 BY <1>0
    <2> QED BY <2>1, <1>1, <1>0 DEF m
  <1>3. ~(2 <= q)
    <2> SUFFICES ASSUME 2 <= q PROVE FALSE OBVIOUS
    <2>1. m * 2 <= m * q BY <1>0, <1>1, TimesMono
    <2> QED BY <2>1, <1>1, <1>0 DEF m
  <1>4. q = 1 BY <1>1, <1>2, <1>3
  <1>5. m * q = m BY <1>0, <1>4
  <1>6. r = x - m BY <1>0, <1>1, <1>5
  <1> QED BY <1>6 DEF Wrap, m

----------------------------------------------------------------------------
(* Checked arithmetic.                                                     *)

\* try_multiply_unsigned returns the product, or that it is too large.
LEMMA MultiplyExact ==
    ASSUME NEW a \in Nat, NEW b \in Nat, NEW max \in Nat, a <= max, b <= max
    PROVE  try_multiply_unsigned(a, b, max) =
               IF a * b <= max THEN Value(a * b) ELSE TooLarge
  <1>1. a * b \in Nat BY SMT
  <1>2. CASE b = 0
    <2>1. a * b = 0 BY <1>2
    <2> QED BY <1>2, <2>1, WrapFits DEF try_multiply_unsigned
  <1>3. CASE b > 0
    <2>1. a > max \div b <=> a * b > max BY <1>3, DivBound
    <2>2. CASE a * b > max
      <3>1. a > max \div b BY <2>1, <2>2
      <3>2. ~(a * b <= max) BY <2>2, <1>1
      <3> QED BY <3>1, <3>2, <1>3 DEF try_multiply_unsigned
    <2>3. CASE a * b <= max
      <3>1. ~(a > max \div b) BY <2>1, <2>3, <1>1
      <3>2. Wrap(a * b, max) = a * b BY <2>3, <1>1, WrapFits
      <3> QED BY <3>1, <3>2, <2>3 DEF try_multiply_unsigned
    <2> QED BY <2>2, <2>3, <1>1
  <1> QED BY <1>2, <1>3

\* A multiple of d leaves no remainder, as try_ceili assumes.
LEMMA MultipleMod ==
    ASSUME NEW d \in Nat \ {0}, NEW k \in Nat
    PROVE  (d * k) % d = 0
  <1> DEFINE q == (d * k) \div d
             r == (d * k) % d
  <1>1. d * k \in Nat OBVIOUS
  <1>2. q \in Nat /\ r \in 0 .. d-1 /\ d * k = d * q + r BY <1>1, DivMod
  <1>3. ~(q + 1 <= k)
    <2> SUFFICES ASSUME q + 1 <= k PROVE FALSE OBVIOUS
    <2>1. d * (q + 1) <= d * k BY <1>2, TimesMono
    <2>2. d * (q + 1) = d * q + d BY <1>2
    <2> QED BY <2>1, <2>2, <1>2
  <1>4. d * k <= d * q BY <1>2, <1>3, TimesMono
  <1> QED BY <1>2, <1>4

\* What try_ceili adds to x, if x is not 0, makes it the ceiling.
LEMMA CeilingOf ==
    ASSUME NEW x \in Nat \ {0}, NEW d \in Nat \ {0}
    PROVE  LET dx == d - ((x - 1) % d) - 1
           IN  /\ dx \in 0 .. d-1
               /\ IsCeiling(x + dx, x, d)
  <1> DEFINE q == (x - 1) \div d
             r == (x - 1) % d
             dx == d - r - 1
  <1>1. q \in Nat /\ r \in 0 .. d-1 /\ x - 1 = d * q + r
    <2>1. x - 1 \in Nat OBVIOUS
    <2> QED BY <2>1, DivMod
  <1>2. x + dx = d * (q + 1)
    <2>1. d * (q + 1) = d * q + d BY <1>1
    <2>2. d * q \in Nat BY <1>1
    <2> QED BY <2>1, <2>2, <1>1
  <1>3. (x + dx) % d = 0
    <2>1. (d * (q + 1)) % d = 0 BY <1>1, MultipleMod
    <2> QED BY <2>1, <1>2
  <1>4. dx \in 0 .. d-1 BY <1>1
  <1>5. x <= x + dx /\ x + dx < x + d BY <1>4
  <1> QED BY <1>3, <1>4, <1>5 DEF IsCeiling

\* There is one ceiling, so that try_ceili gives up only if that one is too large.
LEMMA CeilingUnique ==
    ASSUME NEW x \in Nat, NEW d \in Nat \ {0}, NEW y \in Nat, NEW z \in Nat,
           IsCeiling(y, x, d), IsCeiling(z, x, d)
    PROVE  y = z
  <1>1. y = d * (y \div d) /\ z = d * (z \div d) /\ y \div d \in Nat /\ z \div d \in Nat
    BY DivMod DEF IsCeiling
  <1>2. ASSUME NEW p \in Nat, NEW q \in Nat, p < q PROVE d * p + d <= d * q
    <2>1. d * (p + 1) <= d * q BY <1>2, TimesMono
    <2>2. d * (p + 1) = d * p + d OBVIOUS
    <2> QED BY <2>1, <2>2
  <1>3. y < z + d /\ z < y + d BY DEF IsCeiling
  <1>4. ~(y \div d < z \div d)
    <2> SUFFICES ASSUME y \div d < z \div d PROVE FALSE OBVIOUS
    <2>1. d * (y \div d) + d <= d * (z \div d) BY <1>1, <1>2
    <2> QED BY <2>1, <1>1, <1>3
  <1>5. ~(z \div d < y \div d)
    <2> SUFFICES ASSUME z \div d < y \div d PROVE FALSE OBVIOUS
    <2>1. d * (z \div d) + d <= d * (y \div d) BY <1>1, <1>2
    <2> QED BY <2>1, <1>1, <1>3
  <1> QED BY <1>1, <1>4, <1>5

\* try_ceili returns the ceiling, or that it is too large.
LEMMA CeilExact ==
    ASSUME NEW x \in Nat, NEW d \in Nat \ {0}, NEW max \in Nat, x <= max, d <= max
    PROVE  LET r == try_ceili(x, d, max)
           IN  IF r.ok THEN r.value <= max /\ IsCeiling(r.value, x, d)
               ELSE \A y \in x .. max : ~IsCeiling(y, x, d)
  <1>1. CASE x = 0
    <2>1. try_ceili(x, d, max) = Value(0) BY <1>1 DEF try_ceili
    <2>2. 0 % d = 0 OBVIOUS
    <2> QED BY <1>1, <2>1, <2>2 DEF Value, IsCeiling
  <1>2. CASE x # 0
    <2> DEFINE e == d - ((x - 1) % d) - 1
    <2>1. e \in 0 .. d-1 /\ IsCeiling(x + e, x, d) BY <1>2, CeilingOf
    <2>2. Wrap(e, max) = e BY <2>1, WrapFits
    <2> HIDE DEF e
    <2>3. CASE x > max - e
      <3>1. try_ceili(x, d, max) = TooLarge BY <1>2, <2>2, <2>3 DEF try_ceili, e
      <3>2. ASSUME NEW y \in x .. max, IsCeiling(y, x, d) PROVE FALSE
        <4>1. y = x + e BY <2>1, <3>2, CeilingUnique
        <4> QED BY <4>1, <2>1, <2>3
      <3> QED BY <3>1, <3>2 DEF TooLarge
    <2>4. CASE x <= max - e
      <3>1. Wrap(x + e, max) = x + e BY <2>1, <2>4, WrapFits
      <3>2. ~(x > max - e) BY <2>1, <2>4
      <3>3. try_ceili(x, d, max) = Value(x + e) BY <1>2, <2>2, <3>1, <3>2 DEF try_ceili, e
      <3>4. x + e <= max BY <2>1, <2>4
      <3> QED BY <3>3, <3>4, <2>1 DEF Value
    <2> QED BY <2>1, <2>3, <2>4
  <1> QED BY <1>1, <1>2

\* Sizes are computed exactly or not at all (try_multiply_unsigned, try_ceili), whatever
\* the width of the type.
THEOREM ArithmeticExact ==
    ASSUME NEW max \in Nat, NEW x \in 0 .. max, NEW d \in 0 .. max
    PROVE  ExactUpToTheLimit(x, d, max)
  <1>1. try_multiply_unsigned(x, d, max) = IF x * d <= max THEN Value(x * d) ELSE TooLarge
    BY MultiplyExact
  <1>2. ASSUME d > 0
        PROVE  LET r == try_ceili(x, d, max)
               IN  IF r.ok THEN r.value <= max /\ IsCeiling(r.value, x, d)
                   ELSE \A y \in x .. max : ~IsCeiling(y, x, d)
    BY <1>2, CeilExact
  <1> QED BY <1>1, <1>2 DEF ExactUpToTheLimit

----------------------------------------------------------------------------
(* Loops over subordinate threads, and blocks.                             *)

\* Taking the first element off a duplicate-free list, as the loops over
\* subordinate threads do.
LEMMA TailFacts ==
    ASSUME NEW S, NEW s \in Seq(S), s # << >>, IsInjective(s)
    PROVE  /\ Head(s) \in Range(s)
           /\ Head(s) \in S
           /\ Tail(s) \in Seq(S)
           /\ IsInjective(Tail(s))
           /\ Range(Tail(s)) = Range(s) \ {Head(s)}
<1>1. /\ Len(s) \in Nat \ {0} /\ DOMAIN s = 1 .. Len(s)
      /\ Tail(s) \in Seq(S) /\ Head(s) = s[1] /\ Head(s) \in S
      /\ Len(Tail(s)) = Len(s) - 1
      /\ DOMAIN Tail(s) = 1 .. Len(s) - 1
      /\ \A i \in 1 .. Len(s) - 1 : Tail(s)[i] = s[i+1]
  OBVIOUS
<1>2. \A i, j \in 1 .. Len(s) : s[i] = s[j] => i = j
  BY <1>1 DEF IsInjective
<1>3. IsInjective(Tail(s))
  BY <1>1, <1>2 DEF IsInjective
<1>4. Head(s) \in Range(s)
  BY <1>1 DEF Range
<1>5. ASSUME NEW x \in Range(Tail(s)) PROVE x \in Range(s) \ {Head(s)}
  <2>1. PICK i \in 1 .. Len(s) - 1 : x = s[i+1]
    BY <1>1 DEF Range
  <2> QED  BY <1>1, <1>2, <2>1 DEF Range
<1>6. ASSUME NEW x \in Range(s) \ {Head(s)} PROVE x \in Range(Tail(s))
  <2>1. PICK i \in 1 .. Len(s) : x = s[i]
    BY <1>1 DEF Range
  <2>2. i - 1 \in 1 .. Len(s) - 1 /\ Tail(s)[i-1] = x
    BY <1>1, <2>1
  <2> QED  BY <1>1, <2>2 DEF Range
<1> QED  BY <1>1, <1>3, <1>4, <1>5, <1>6

\* The empty list, and the elements of a list.
LEMMA ListFacts ==
    ASSUME NEW S, NEW s \in Seq(S)
    PROVE  /\ Range(s) \subseteq S
           /\ s = << >> <=> Range(s) = {}
           /\ IsInjective(<< >>) /\ << >> \in Seq(S) /\ Range(<< >>) = {}
<1>1. DOMAIN s = 1 .. Len(s) /\ Len(s) \in Nat
  OBVIOUS
<1>2. Range(s) \subseteq S
  BY <1>1 DEF Range
<1>3. ASSUME s # << >> PROVE Range(s) # {}
  <2>1. 1 \in DOMAIN s
    BY <1>1, <1>3
  <2> QED  BY <2>1 DEF Range
<1>4. IsInjective(<< >>) /\ << >> \in Seq(S) /\ Range(<< >>) = {}
  BY DEF IsInjective, Range
<1> QED  BY <1>2, <1>3, <1>4

\* An interval is a sequence of threads.
LEMMA IntervalSeq ==
    ASSUME NEW a \in Int, NEW b \in Int, a <= b
    PROVE  /\ Interval(a, b) \in Seq(a .. b-1) /\ Interval(a, b) \in Seq(Int)
           /\ Len(Interval(a, b)) = b - a
           /\ \A k \in 1 .. b - a : Interval(a, b)[k] = a + k - 1
<1>1. b - a \in Nat
  OBVIOUS
<1>2. \A k \in 1 .. b - a : a + k - 1 \in a .. b-1
  OBVIOUS
<1>3. Interval(a, b) \in [1 .. b - a -> a .. b-1]
  BY <1>2 DEF Interval
<1>4. Interval(a, b) \in Seq(a .. b-1) /\ Len(Interval(a, b)) = b - a
  BY <1>1, <1>3, SeqDef, LenProperties
<1>5. Interval(a, b) \in Seq(Int)
  <2>1. a .. b-1 \subseteq Int
    OBVIOUS
  <2> QED
    BY <1>4, <2>1, SeqMonotonic
<1> QED
  BY <1>4, <1>5 DEF Interval

\* The interval of one thread, and the empty one.
LEMMA IntervalOne ==
    ASSUME NEW a \in Int
    PROVE  Interval(a, a+1) = << a >> /\ Interval(a, a) = << >>
<1>1. (a + 1) - a = 1 /\ a - a = 0 /\ 1 .. 1 = {1} /\ 1 .. 0 = {}
  OBVIOUS
<1>2. /\ Interval(a, a+1) \in Seq(Int) /\ Len(Interval(a, a+1)) = 1
      /\ Interval(a, a+1)[1] = a
  <2> DEFINE b == a + 1
  <2>1. b \in Int /\ a <= b /\ b - a = 1
    OBVIOUS
  <2> HIDE DEF b
  <2>2. /\ Interval(a, b) \in Seq(Int) /\ Len(Interval(a, b)) = b - a
        /\ \A k \in 1 .. b - a : Interval(a, b)[k] = a + k - 1
    BY <2>1, IntervalSeq
  <2>3. Interval(a, b) \in Seq(Int) /\ Len(Interval(a, b)) = 1 /\ Interval(a, b)[1] = a
    BY <2>1, <2>2
  <2> QED
    BY <2>3 DEF b
<1>3. Interval(a, a) = << >>
  <2>1. Interval(a, a) \in Seq(a .. a-1) /\ Len(Interval(a, a)) = 0
    BY <1>1, IntervalSeq
  <2> QED
    BY <2>1, EmptySeq
<1> QED
  BY <1>2, <1>3

\* Blocks that follow each other make up one block.
LEMMA IntervalConcat ==
    ASSUME NEW a \in Int, NEW b \in Int, NEW c \in Int, a <= b, b <= c
    PROVE  Interval(a, b) \o Interval(b, c) = Interval(a, c)
<1> DEFINE x == Interval(a, b)
           y == Interval(b, c)
           z == Interval(a, c)
<1>1. /\ x \in Seq(Int) /\ Len(x) = b - a
      /\ \A k \in 1 .. b - a : x[k] = a + k - 1
  BY IntervalSeq
<1>2. /\ y \in Seq(Int) /\ Len(y) = c - b
      /\ \A k \in 1 .. c - b : y[k] = b + k - 1
  BY IntervalSeq
<1>3. /\ z \in Seq(Int) /\ Len(z) = c - a
      /\ \A k \in 1 .. c - a : z[k] = a + k - 1
  <2>1. a <= c
    OBVIOUS
  <2> QED
    BY <2>1, IntervalSeq
<1> HIDE DEF x, y, z
<1>4. /\ x \o y \in Seq(Int) /\ Len(x \o y) = Len(x) + Len(y)
      /\ \A k \in 1 .. Len(x) + Len(y) :
             (x \o y)[k] = IF k <= Len(x) THEN x[k] ELSE y[k - Len(x)]
  BY <1>1, <1>2, ConcatProperties
<1>5. Len(x \o y) = Len(z)
  BY <1>1, <1>2, <1>3, <1>4
<1>6. ASSUME NEW k \in 1 .. Len(z) PROVE (x \o y)[k] = z[k]
  <2>1. CASE k <= b - a
    BY <1>1, <1>2, <1>3, <1>4, <2>1
  <2>2. CASE ~(k <= b - a)
    <3>1. k - (b - a) \in 1 .. c - b
      <4>1. k \in 1 .. c - a
        BY <1>3
      <4> QED
        BY <2>2, <4>1
    <3>2. (x \o y)[k] = y[k - (b - a)]
      <4>1. Len(x) = b - a /\ k \in 1 .. Len(x) + Len(y)
        BY <1>1, <1>2, <1>4, <1>5
      <4> QED
        BY <1>4, <2>2, <4>1
    <3>3. y[k - (b - a)] = b + (k - (b - a)) - 1
      BY <1>2, <3>1
    <3>4. z[k] = a + k - 1
      BY <1>3
    <3>5. k \in Int
      BY <1>3
    <3> QED
      BY <3>2, <3>3, <3>4, <3>5
  <2> QED
    BY <2>1, <2>2
<1>7. x \o y = z
  BY <1>3, <1>4, <1>5, <1>6, SeqEqual
<1> QED
  BY <1>7 DEF x, y, z

\* The block after the first one in a list.
LEMMA ChainTail ==
    ASSUME NEW S, NEW s \in Seq(S), s # << >>, NEW size, NEW c, NEW e,
           Chained(size, s, c, e)
    PROVE  /\ Chained(size, Tail(s), c, e)
           /\ BlockEnd(size, Head(s), c) = IF Tail(s) = << >> THEN e ELSE Head(Tail(s))
<1> DEFINE B(u) == BlockEnd(size, u, c)
           r == Tail(s)
<1>1. /\ Len(s) \in Nat \ {0} /\ Head(s) = s[1]
      /\ r \in Seq(S) /\ Len(r) = Len(s) - 1
      /\ \A i \in 1 .. Len(s) - 1 : r[i] = s[i+1]
  OBVIOUS
<1>2. \A i \in 1 .. Len(s) : B(s[i]) = IF i = Len(s) THEN e ELSE s[i+1]
  BY DEF Chained
<1>3. /\ Len(r) \in Nat
      /\ r = << >> <=> Len(r) = 0
      /\ r # << >> => Head(r) = r[1]
  <2> HIDE DEF r
  <2>1. Len(r) \in Nat
    BY <1>1, LenProperties
  <2>2. ASSUME r = << >> PROVE Len(r) = 0
    BY <2>2
  <2>3. ASSUME r # << >> PROVE Len(r) # 0 /\ Head(r) = r[1]
    BY <1>1, <2>3, EmptySeq
  <2> QED
    BY <2>1, <2>2, <2>3
<1> HIDE DEF B, r
<1>4. PICK n \in Nat \ {0} : Len(s) = n
  BY <1>1
<1>5. Len(r) = n - 1
  BY <1>1, <1>4
<1>6. ASSUME NEW i \in 1 .. Len(r)
      PROVE  B(r[i]) = IF i = Len(r) THEN e ELSE r[i+1]
  <2>1. i \in 1 .. n-1 /\ i + 1 \in 1 .. n /\ r[i] = s[i+1]
    BY <1>1, <1>4, <1>5
  <2>2. B(r[i]) = IF i + 1 = n THEN e ELSE s[(i+1)+1]
    BY <1>2, <1>4, <2>1
  <2>3. CASE i = n - 1
    BY <1>5, <2>2, <2>3
  <2>4. CASE i # n - 1
    <3>1. i + 1 \in 1 .. n-1 /\ i + 1 # n
      BY <2>1, <2>4
    <3> QED
      BY <1>1, <1>4, <1>5, <2>2, <2>4, <3>1
  <2> QED
    BY <2>3, <2>4
<1>7. B(Head(s)) = IF r = << >> THEN e ELSE Head(r)
  <2>1. 1 \in 1 .. n
    BY <1>4
  <2>2. B(s[1]) = IF 1 = n THEN e ELSE s[1+1]
    BY <1>2, <1>4, <2>1
  <2>3. CASE r = << >>
    <3>1. n = 1
      BY <1>3, <1>4, <1>5, <2>3
    <3> QED
      BY <1>1, <2>2, <2>3, <3>1
  <2>4. CASE r # << >>
    <3>1. n # 1 /\ 1 \in 1 .. n-1
      BY <1>3, <1>4, <1>5, <2>4
    <3> QED
      BY <1>1, <1>3, <1>4, <2>2, <2>4, <3>1
  <2> QED
    BY <2>3, <2>4
<1> QED
  BY <1>6, <1>7 DEF Chained, B, r

==============================================================================
