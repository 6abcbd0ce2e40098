----------------------------- MODULE BookProofs -----------------------------
(***************************************************************************)
(* One order book in its two encodings, for every radix, scale, size,      *)
(* number of levels and width of a tick.                                   *)
(*                                                                         *)
(* The provers know neither exponentiation nor division by a variable.     *)
(* Powers are reasoned about by induction, and each quotient by the two    *)
(* inequalities that define it (DivBounds).                                *)
(***************************************************************************)
EXTENDS Book, Listing, FiniteSetTheorems, WellFoundedInduction, TLAPS

-----------------------------------------------------------------------------
(* Integer arithmetic *)

\* Division rounds down, and the remainder is what is left.
LEMMA DivBounds ==
  ASSUME NEW a \in Int, NEW b \in Nat \ {0}
  PROVE  /\ a \div b \in Int /\ b * (a \div b) <= a /\ a < b * (a \div b) + b
         /\ a % b \in Int /\ a = b * (a \div b) + (a % b) /\ 0 <= a % b /\ a % b < b
OBVIOUS

\* Only a smaller number has no quotient.
LEMMA DivZero ==
  ASSUME NEW a \in Nat, NEW b \in Nat \ {0}, a \div b = 0
  PROVE  a < b
OBVIOUS

\* Products keep the order.
LEMMA MulMono ==
  ASSUME NEW x \in Int, NEW y \in Int, NEW b \in Nat, x <= y
  PROVE  b * x <= b * y /\ x * b <= y * b
OBVIOUS

\* Products stay in their sets.
LEMMA MulInt ==
  ASSUME NEW x \in Int, NEW y \in Int
  PROVE  x * y \in Int /\ (x \in Nat /\ y \in Nat => x * y \in Nat)
OBVIOUS

\* A product of positive numbers is positive.
LEMMA MulPositive ==
  ASSUME NEW x \in Nat \ {0}, NEW y \in Nat \ {0}
  PROVE  x * y \in Nat \ {0}
OBVIOUS

\* A positive factor can be cancelled.
LEMMA MulCancel ==
  ASSUME NEW x \in Int, NEW y \in Int, NEW b \in Nat \ {0}, b * x <= b * y
  PROVE  x <= y
<1> SUFFICES ASSUME y + 1 <= x PROVE FALSE
  OBVIOUS
<1>1. b * (y + 1) <= b * x
  BY MulMono
<1>2. b * (y + 1) = b * y + b
  OBVIOUS
<1> QED
  BY <1>1, <1>2, MulInt

\* A number has one quotient and one remainder.
LEMMA DivUnique ==
  ASSUME NEW a \in Int, NEW b \in Nat \ {0}, NEW q \in Int, NEW r \in Int,
         a = b * q + r, 0 <= r, r < b
  PROVE  a \div b = q /\ a % b = r
<1> DEFINE d == a \div b
<1>1. d \in Int /\ b * d <= a /\ a < b * d + b
  BY DivBounds
<1>2. a = b * d + (a % b)
  BY DivBounds
<1> HIDE DEF d
<1>3. b * (d + 1) = b * d + b /\ b * (q + 1) = b * q + b
  BY <1>1
<1>4. b * q \in Int /\ b * d \in Int
  BY <1>1, MulInt
<1>5. ASSUME d + 1 <= q PROVE FALSE
  <2>1. b * (d + 1) <= b * q
    BY <1>1, <1>5, MulMono
  <2> QED
    BY <1>1, <1>3, <1>4, <2>1
<1>6. ASSUME q + 1 <= d PROVE FALSE
  <2>1. b * (q + 1) <= b * d
    BY <1>1, <1>6, MulMono
  <2> QED
    BY <1>1, <1>3, <1>4, <2>1
<1>7. d = q
  BY <1>1, <1>5, <1>6
<1>8. a % b = r
  BY <1>2, <1>4, <1>7, DivBounds
<1> QED
  BY <1>7, <1>8 DEF d

\* Dividing by a product is dividing twice.
LEMMA DivTwice ==
  ASSUME NEW x \in Int, NEW a \in Nat \ {0}, NEW b \in Nat \ {0}
  PROVE  x \div (a * b) = (x \div a) \div b
<1> DEFINE q == x \div a
           p == q \div b
<1>1. q \in Int /\ a * q <= x /\ x < a * q + a
  BY DivBounds
<1> HIDE DEF q
<1>2. p \in Int /\ b * p <= q /\ q < b * p + b
  BY <1>1, DivBounds
<1> HIDE DEF p
<1>3. b * p \in Int /\ a * b \in Nat \ {0} /\ (a * b) * p \in Int
  BY <1>2, MulInt, MulPositive
<1>4. a * (b * p) <= a * q /\ a * (q + 1) <= a * (b * p + b)
  BY <1>1, <1>2, <1>3, MulMono
<1>5. a * (q + 1) = a * q + a /\ a * (b * p + b) = a * (b * p) + a * b
  BY <1>1, <1>3
<1>6. a * (b * p) = (a * b) * p
  BY <1>2
<1>7. a * q \in Int
  BY <1>1, MulInt
<1>8. (a * b) * p <= x /\ x < (a * b) * p + a * b
  BY <1>1, <1>3, <1>4, <1>5, <1>6, <1>7
<1>9. x = (a * b) * p + (x - (a * b) * p)
  BY <1>3
<1> DEFINE r == x - (a * b) * p
<1>10. r \in Int /\ 0 <= r /\ r < a * b
  BY <1>3, <1>8
<1> HIDE DEF r
<1>11. x \div (a * b) = p
  BY <1>2, <1>3, <1>9, <1>10, DivUnique DEF r
<1> QED
  BY <1>11 DEF p, q

-----------------------------------------------------------------------------
(* Induction *)

\* A set of natural numbers that is not empty has a least element.
LEMMA LeastNumber ==
  ASSUME NEW T \in SUBSET Nat, T # {}
  PROVE  \E x \in T : \A y \in T : x <= y
<1> DEFINE R == OpToRel(<, Nat)
<1>1. IsWellFoundedOn(R, Nat)
  BY NatLessThanWellFounded
<1>2. \A x, y \in Nat : << y, x >> \in R <=> y < x
  BY DEF OpToRel
<1> HIDE DEF R
<1>3. PICK x \in T : \A y \in T : ~ (<< y, x >> \in R)
  BY <1>1, WFMin
<1>4. ASSUME NEW y \in T PROVE x <= y
  <2>1. x \in Nat /\ y \in Nat
    OBVIOUS
  <2>2. ~ (y < x)
    BY <1>2, <1>3, <2>1
  <2> QED
    BY <2>1, <2>2
<1> QED
  BY <1>4

\* Induction over the natural numbers, stated for a set instead of a predicate.
LEMMA Induction ==
  ASSUME NEW S \in SUBSET Nat, 0 \in S, \A n \in S : n + 1 \in S
  PROVE  S = Nat
<1> DEFINE T == Nat \ S
<1>1. SUFFICES ASSUME T # {} PROVE FALSE
  OBVIOUS
<1>2. PICK k \in T : \A y \in T : k <= y
  BY <1>1, LeastNumber
<1>3. k \in Nat /\ k # 0
  BY <1>2
<1>4. k - 1 \in Nat /\ k - 1 \notin T
  BY <1>2, <1>3
<1> QED
  BY <1>2, <1>3, <1>4

\* A set of numbers up to m that is not empty has a maximum.
LEMMA MaxIn ==
  ASSUME NEW m \in Nat, NEW S \in SUBSET (0 .. m), S # {}
  PROVE  Max(S) \in S
<1> DEFINE T == {m - s : s \in S}
<1>1. T \in SUBSET Nat /\ T # {}
  <2>1. ASSUME NEW s \in S PROVE m - s \in Nat
    <3>1. s \in 0 .. m
      OBVIOUS
    <3> QED
      BY <3>1
  <2>2. PICK s \in S : TRUE
    OBVIOUS
  <2>3. m - s \in T
    OBVIOUS
  <2> QED
    BY <2>1, <2>3
<1>2. PICK t \in T : \A y \in T : t <= y
  BY <1>1, LeastNumber
<1>3. PICK s \in S : t = m - s
  OBVIOUS
<1>4. ASSUME NEW r \in S PROVE s >= r
  <2>1. m - s <= m - r
    BY <1>2, <1>3
  <2>2. s \in Nat /\ r \in Nat
    OBVIOUS
  <2> QED
    BY <2>1, <2>2
<1> QED
  BY <1>4 DEF Max

-----------------------------------------------------------------------------
(* Powers *)

\* f holds the first powers of b.
Powers(f, b, m) ==
  /\ f \in [0 .. m -> Nat \ {0}] /\ f[0] = 1
  /\ \A k \in 1 .. m : f[k] = b * f[k - 1]

\* There are as many powers as one likes ...
LEMMA PowersExist ==
  ASSUME NEW b \in Nat \ {0}, NEW m \in Nat
  PROVE  \E f : Powers(f, b, m)
<1> DEFINE P(k) == \E f : Powers(f, b, k)
           S == {k \in Nat : P(k)}
<1>1. P(0)
  <2> DEFINE f == [n \in 0 .. 0 |-> 1]
  <2>1. Powers(f, b, 0)
    BY DEF Powers
  <2> QED
    BY <2>1
<1>2. ASSUME NEW k \in Nat, P(k) PROVE P(k + 1)
  <2>1. PICK f : Powers(f, b, k)
    BY <1>2
  <2> DEFINE g == [n \in 0 .. k + 1 |-> IF n = k + 1 THEN b * f[k] ELSE f[n]]
  <2>2. f[k] \in Nat \ {0} /\ b * f[k] \in Nat \ {0}
    BY <2>1, MulPositive DEF Powers
  <2>3. g \in [0 .. k + 1 -> Nat \ {0}] /\ g[0] = 1
    BY <2>1, <2>2 DEF Powers
  <2>4. ASSUME NEW n \in 1 .. k + 1 PROVE g[n] = b * g[n - 1]
    <3>1. CASE n = k + 1
      BY <2>1, <2>2, <3>1 DEF Powers
    <3>2. CASE n # k + 1
      <4>1. n \in 1 .. k /\ n - 1 \in 0 .. k /\ n \in 0 .. k + 1 /\ n - 1 # k + 1
        BY <3>2
      <4>2. f[n] = b * f[n - 1]
        BY <2>1, <4>1 DEF Powers
      <4>3. g[n] = f[n] /\ g[n - 1] = f[n - 1]
        BY <3>2, <4>1
      <4> QED
        BY <4>2, <4>3
    <3> QED
      BY <3>1, <3>2
  <2> QED
    BY <2>3, <2>4 DEF Powers
<1> HIDE DEF P
<1>3. S \in SUBSET Nat /\ 0 \in S /\ \A n \in S : n + 1 \in S
  BY <1>1, <1>2
<1>4. S = Nat
  BY <1>3, Induction
<1> QED
  BY <1>4 DEF P

\* ... and they are the same however many there are.
LEMMA PowersAgree ==
  ASSUME NEW b \in Nat \ {0}, NEW m \in Nat, NEW n \in Nat, m <= n, NEW f, NEW g,
         Powers(f, b, m), Powers(g, b, n), NEW j \in 0 .. m
  PROVE  f[j] = g[j]
<1> DEFINE S == {k \in Nat : k <= m => f[k] = g[k]}
<1>1. 0 \in S
  BY DEF Powers
<1>2. ASSUME NEW k \in S PROVE k + 1 \in S
  <2>1. k \in Nat /\ (k <= m => f[k] = g[k])
    OBVIOUS
  <2> SUFFICES ASSUME k + 1 <= m PROVE f[k + 1] = g[k + 1]
    BY <2>1
  <2>2. k + 1 \in 1 .. m /\ k + 1 \in 1 .. n /\ (k + 1) - 1 = k
    BY <2>1
  <2> QED
    BY <2>1, <2>2 DEF Powers
<1>3. S \in SUBSET Nat
  OBVIOUS
<1>4. S = Nat
  BY <1>1, <1>2, <1>3, Induction
<1> QED
  BY <1>4

\* Power is what its name says.
LEMMA PowerIs ==
  ASSUME NEW b \in Nat \ {0}
  PROVE  /\ Power(b, 0) = 1
         /\ \A k \in Nat : Power(b, k) \in Nat \ {0} /\ Power(b, k + 1) = b * Power(b, k)
<1> DEFINE Is(p) == p = [k \in Nat |-> IF k = 0 THEN 1 ELSE b * p[k - 1]]
           pow == CHOOSE p : Is(p)
           some(m) == CHOOSE f : Powers(f, b, m)
           g == [k \in Nat |-> some(k)[k]]
<1>1. \A m \in Nat : Powers(some(m), b, m)
  BY PowersExist
<1> HIDE DEF some
<1>2. g[0] = 1
  BY <1>1 DEF Powers
<1>3. ASSUME NEW k \in Nat, k # 0 PROVE g[k] = b * g[k - 1]
  <2>1. k - 1 \in Nat /\ k - 1 <= k /\ k - 1 \in 0 .. k - 1 /\ k \in 1 .. k
    BY <1>3
  <2>2. some(k)[k] = b * some(k)[k - 1]
    BY <1>1, <2>1 DEF Powers
  <2>3. some(k - 1)[k - 1] = some(k)[k - 1]
    BY <1>1, <2>1, PowersAgree
  <2> QED
    BY <2>1, <2>2, <2>3
<1>4. Is(g)
  <2> DEFINE h == [k \in Nat |-> IF k = 0 THEN 1 ELSE b * g[k - 1]]
  <2>1. \A k \in Nat : g[k] = h[k]
    BY <1>2, <1>3
  <2>2. g = h
    BY <2>1
  <2> QED
    BY <2>2
<1> HIDE DEF g
<1>5. \A n : Power(b, n) = pow[n]
  BY DEF Power
<1> HIDE DEF Is
<1>6. Is(pow)
  BY <1>4
<1> HIDE DEF pow
<1>7. pow = [k \in Nat |-> IF k = 0 THEN 1 ELSE b * pow[k - 1]]
  BY <1>6 DEF Is
<1>8. pow[0] = 1 /\ \A k \in Nat : pow[k + 1] = b * pow[k]
  <2>1. pow[0] = 1
    BY <1>7
  <2>2. ASSUME NEW k \in Nat PROVE pow[k + 1] = b * pow[k]
    <3>1. k + 1 \in Nat /\ k + 1 # 0 /\ (k + 1) - 1 = k
      OBVIOUS
    <3> QED
      BY <1>7, <3>1
  <2> QED
    BY <2>1, <2>2
<1> DEFINE S == {k \in Nat : pow[k] \in Nat \ {0}}
<1>9. 0 \in S /\ \A n \in S : n + 1 \in S
  BY <1>8, MulPositive
<1>10. S \in SUBSET Nat
  OBVIOUS
<1>11. S = Nat
  BY <1>9, <1>10, Induction
<1>12. \A k \in Nat : pow[k] \in Nat \ {0}
  BY <1>11
<1> QED
  BY <1>5, <1>8, <1>12

-----------------------------------------------------------------------------
(* Words *)

\* Levels that encodeLevels accepts.
NativeLevel == [ offset: 0 .. MaxTick, lots: 1 .. MaxTick ]

\* The fields of such a level are numbers.
LEMMA LevelFields ==
  ASSUME NEW l \in NativeLevel
  PROVE  /\ l.offset \in Nat /\ l.offset <= MaxTick
         /\ l.lots \in Nat /\ 1 <= l.lots /\ l.lots <= MaxTick
BY BookAssumption DEF NativeLevel

\* The number in the slot of a level.
Packed(l) == l.offset * (MaxTick + 1) + l.lots

\* A slot holds the two fields of a level.
LEMMA SlotHolds ==
  ASSUME NEW o \in 0 .. MaxTick, NEW k \in 0 .. MaxTick
  PROVE  LET v == o * (MaxTick + 1) + k
         IN  v \in 0 .. Slot - 1 /\ v \div (MaxTick + 1) = o /\ v % (MaxTick + 1) = k
<1> DEFINE M == MaxTick + 1
           v == o * M + k
<1>1. M \in Nat \ {0} /\ o \in Int /\ k \in Int /\ 0 <= k /\ k < M /\ o <= M - 1
  BY BookAssumption
<1>2. Slot = M * M
  BY DEF Slot
<1> HIDE DEF M
<1>3. o * M \in Nat /\ v = M * o + k /\ v \in Nat
  BY <1>1, MulInt
<1>4. o * M <= (M - 1) * M
  BY <1>1, MulMono
<1>5. (M - 1) * M = M * M - M /\ M * M \in Int
  BY <1>1
<1>6. v < M * M
  BY <1>1, <1>3, <1>4, <1>5
<1>7. v \div M = o /\ v % M = k
  BY <1>1, <1>3, DivUnique
<1> QED
  BY <1>2, <1>3, <1>5, <1>6, <1>7 DEF M

\* Slots are positive numbers.
LEMMA SlotPositive == Slot \in Nat \ {0}
<1>1. MaxTick + 1 \in Nat \ {0}
  BY BookAssumption
<1> QED
  BY <1>1, MulPositive DEF Slot

\* The packed form of a level fits in a slot.
LEMMA PackedFits ==
  ASSUME NEW l \in NativeLevel
  PROVE  /\ Packed(l) \in 0 .. Slot - 1 /\ Packed(l) # 0
         /\ Packed(l) \div (MaxTick + 1) = l.offset /\ Packed(l) % (MaxTick + 1) = l.lots
<1>1. l.offset \in 0 .. MaxTick /\ l.lots \in 0 .. MaxTick /\ l.lots # 0
  BY BookAssumption DEF NativeLevel
<1>2. /\ Packed(l) \in 0 .. Slot - 1
      /\ Packed(l) \div (MaxTick + 1) = l.offset /\ Packed(l) % (MaxTick + 1) = l.lots
  BY <1>1, SlotHolds DEF Packed
<1>3. 0 % (MaxTick + 1) = 0
  BY BookAssumption
<1> QED
  BY <1>1, <1>2, <1>3

\* Shifting by one slot takes the lowest one away.
LEMMA SlotShift ==
  ASSUME NEW x, NEW q \in Nat, NEW c \in 0 .. Slot - 1, x = c + Slot * q
  PROVE  x \in Nat /\ x \div Slot = q /\ x % Slot = c
<1>1. Slot * q \in Nat
  BY SlotPositive, MulInt
<1>2. c \in Nat /\ c < Slot
  BY SlotPositive
<1>3. x \in Nat /\ x = Slot * q + c
  BY <1>1, <1>2
<1> QED
  BY <1>2, <1>3, SlotPositive, DivUnique

\* f[i] is the word of the levels from i on.
Tails(f, levels, from) ==
  /\ f \in [from .. Len(levels) + 1 -> Nat] /\ f[Len(levels) + 1] = 0
  /\ \A i \in from .. Len(levels) : f[i] = Packed(levels[i]) + Slot * f[i + 1]

\* Every book has its words.
LEMMA TailsExist ==
  ASSUME NEW levels \in Seq(NativeLevel)
  PROVE  \E f : Tails(f, levels, 1)
<1> DEFINE n == Len(levels)
           P(k) == k <= n => \E f : Tails(f, levels, n + 1 - k)
           S == {k \in Nat : P(k)}
<1>0. n \in Nat /\ \A i \in 1 .. n : Packed(levels[i]) \in Nat
  <2>1. n \in Nat
    OBVIOUS
  <2>2. ASSUME NEW i \in 1 .. n PROVE Packed(levels[i]) \in Nat
    BY PackedFits
  <2> QED
    BY <2>1, <2>2
<1>1. P(0)
  <2> DEFINE f == [i \in n + 1 .. n + 1 |-> 0]
  <2>1. Tails(f, levels, n + 1)
    BY <1>0 DEF Tails
  <2> QED
    BY <1>0, <2>1
<1>2. ASSUME NEW k \in Nat, P(k) PROVE P(k + 1)
  <2> SUFFICES ASSUME k + 1 <= n PROVE \E f : Tails(f, levels, n + 1 - (k + 1))
    OBVIOUS
  <2> DEFINE m == n - k
  <2>1. m \in 1 .. n /\ n + 1 - k = m + 1 /\ n + 1 - (k + 1) = m
    BY <1>0
  <2>2. PICK f : Tails(f, levels, m + 1)
    BY <1>0, <1>2, <2>1
  <2> DEFINE v == Packed(levels[m]) + Slot * f[m + 1]
             g == [i \in m .. n + 1 |-> IF i = m THEN v ELSE f[i]]
  <2> HIDE DEF m
  <2>3. f[m + 1] \in Nat
    BY <1>0, <2>1, <2>2 DEF Tails
  <2>4. v \in Nat
    <3>1. levels[m] \in NativeLevel
      BY <1>0, <2>1
    <3>2. Packed(levels[m]) \in Nat
      BY <3>1, PackedFits, SlotPositive
    <3>3. Slot * f[m + 1] \in Nat
      BY <2>3, SlotPositive, MulInt
    <3> QED
      BY <3>2, <3>3
  <2>5. \A i \in m + 1 .. n + 1 : g[i] = f[i] /\ f[i] \in Nat
    BY <1>0, <2>1, <2>2 DEF Tails
  <2>6. g[m] = v
    BY <1>0, <2>1
  <2> HIDE DEF v
  <2>7. g \in [m .. n + 1 -> Nat]
    <3>1. ASSUME NEW i \in m .. n + 1 PROVE (IF i = m THEN v ELSE f[i]) \in Nat
      <4>1. CASE i = m
        BY <2>4, <4>1
      <4>2. CASE i # m
        <5>1. i \in m + 1 .. n + 1
          BY <1>0, <2>1, <4>2
        <5> QED
          BY <2>5, <4>2, <5>1
      <4> QED
        BY <4>1, <4>2
    <3> QED
      BY <3>1
  <2>8. g[n + 1] = 0
    BY <1>0, <2>1, <2>2, <2>5 DEF Tails
  <2> HIDE DEF g
  <2>9. ASSUME NEW i \in m .. n PROVE g[i] = Packed(levels[i]) + Slot * g[i + 1]
    <3>1. CASE i = m
      <4>1. m + 1 \in m + 1 .. n + 1
        BY <1>0, <2>1
      <4>2. g[m + 1] = f[m + 1]
        BY <2>5, <4>1
      <4> QED
        BY <2>6, <3>1, <4>2 DEF v
    <3>2. CASE i # m
      <4>1. i \in m + 1 .. n /\ i \in m + 1 .. n + 1 /\ i + 1 \in m + 1 .. n + 1
        BY <1>0, <2>1, <3>2
      <4>2. f[i] = Packed(levels[i]) + Slot * f[i + 1]
        BY <2>2, <4>1 DEF Tails
      <4> QED
        BY <2>5, <4>1, <4>2
    <3> QED
      BY <3>1, <3>2
  <2>10. Tails(g, levels, m)
    BY <2>7, <2>8, <2>9 DEF Tails
  <2> QED
    BY <2>1, <2>10
<1> HIDE DEF P
<1>3. S \in SUBSET Nat /\ 0 \in S /\ \A k \in S : k + 1 \in S
  BY <1>1, <1>2
<1>4. S = Nat
  BY <1>3, Induction
<1>5. P(n) /\ n + 1 - n = 1
  BY <1>0, <1>4
<1> QED
  BY <1>0, <1>5 DEF P

\* EncodeLevels yields the first of them.
LEMMA EncodedTails ==
  ASSUME NEW levels \in Seq(NativeLevel)
  PROVE  \E f : Tails(f, levels, 1) /\ EncodeLevels(levels) = f[1]
<1> DEFINE n == Len(levels)
           Is(f) == f = [i \in 1 .. n + 1 |->
                           IF i > n THEN 0
                           ELSE levels[i].offset * (MaxTick + 1) + levels[i].lots + Slot * f[i + 1]]
           word == CHOOSE f : Is(f)
<1>0. n \in Nat /\ \A i \in 1 .. n : Packed(levels[i]) \in Nat
  <2>1. n \in Nat
    OBVIOUS
  <2>2. ASSUME NEW i \in 1 .. n PROVE Packed(levels[i]) \in Nat
    BY PackedFits
  <2> QED
    BY <2>1, <2>2
<1>1. PICK f : Tails(f, levels, 1)
  BY TailsExist
<1>2. Is(f)
  <2> DEFINE h == [i \in 1 .. n + 1 |-> IF i > n THEN 0 ELSE Packed(levels[i]) + Slot * f[i + 1]]
  <2>1. ASSUME NEW i \in 1 .. n + 1 PROVE f[i] = h[i]
    <3>1. CASE i = n + 1
      BY <1>0, <1>1, <3>1 DEF Tails
    <3>2. CASE i # n + 1
      <4>1. i \in 1 .. n /\ ~ (i > n)
        BY <1>0, <3>2
      <4> QED
        BY <1>0, <1>1, <4>1 DEF Tails
    <3> QED
      BY <3>1, <3>2
  <2>2. f \in [1 .. n + 1 -> Nat]
    BY <1>1 DEF Tails
  <2>3. f = h
    BY <2>1, <2>2
  <2> QED
    BY <2>3 DEF Packed
<1>3. EncodeLevels(levels) = word[1]
  BY DEF EncodeLevels
<1> HIDE DEF Is
<1>4. Is(word)
  BY <1>2
<1> HIDE DEF word
<1>5. word = [i \in 1 .. n + 1 |-> IF i > n THEN 0 ELSE Packed(levels[i]) + Slot * word[i + 1]]
  BY <1>4 DEF Is, Packed
<1>6. word[n + 1] = 0 /\ \A i \in 1 .. n : word[i] = Packed(levels[i]) + Slot * word[i + 1]
  <2>1. word[n + 1] = 0
    BY <1>0, <1>5
  <2>2. ASSUME NEW i \in 1 .. n PROVE word[i] = Packed(levels[i]) + Slot * word[i + 1]
    <3>1. i \in 1 .. n + 1 /\ ~ (i > n)
      BY <1>0
    <3> QED
      BY <1>5, <3>1
  <2> QED
    BY <2>1, <2>2
<1> DEFINE S == {k \in Nat : k <= n => word[n + 1 - k] \in Nat}
<1>7. 0 \in S
  BY <1>0, <1>6
<1>8. ASSUME NEW k \in S PROVE k + 1 \in S
  <2>1. k \in Nat /\ (k <= n => word[n + 1 - k] \in Nat)
    OBVIOUS
  <2> SUFFICES ASSUME k + 1 <= n PROVE word[n + 1 - (k + 1)] \in Nat
    BY <2>1
  <2>2. n - k \in 1 .. n /\ (n - k) + 1 = n + 1 - k /\ n + 1 - (k + 1) = n - k
    BY <1>0, <2>1
  <2>3. word[(n - k) + 1] \in Nat
    BY <1>0, <2>1, <2>2
  <2>4. word[n - k] = Packed(levels[n - k]) + Slot * word[(n - k) + 1]
    BY <1>6, <2>2
  <2>5. Slot * word[(n - k) + 1] \in Nat
    BY <2>3, SlotPositive, MulInt
  <2> QED
    BY <1>0, <2>2, <2>4, <2>5
<1>9. S \in SUBSET Nat
  OBVIOUS
<1>10. S = Nat
  BY <1>7, <1>8, <1>9, Induction
<1>11. ASSUME NEW i \in 1 .. n + 1 PROVE word[i] \in Nat
  <2>1. n + 1 - i \in Nat /\ n + 1 - i <= n /\ n + 1 - (n + 1 - i) = i
    BY <1>0
  <2>2. n + 1 - i \in S
    BY <1>10, <2>1
  <2> QED
    BY <2>1, <2>2
<1>12. word \in [1 .. n + 1 -> Nat]
  BY <1>5, <1>11
<1>13. Tails(word, levels, 1)
  BY <1>6, <1>12 DEF Tails
<1> QED
  BY <1>3, <1>13

\* Shifting a word by j slots leaves the word of the levels behind the first j.
LEMMA ShiftedWord ==
  ASSUME NEW levels \in Seq(NativeLevel), NEW f, Tails(f, levels, 1), NEW j \in Nat
  PROVE  f[1] \div Power(Slot, j) = IF j < Len(levels) THEN f[j + 1] ELSE 0
<1> DEFINE n == Len(levels)
           Rest(k) == IF k < n THEN f[k + 1] ELSE 0
           S == {k \in Nat : f[1] \div Power(Slot, k) = Rest(k)}
<1>0. /\ n \in Nat /\ f \in [1 .. n + 1 -> Nat] /\ f[n + 1] = 0
      /\ \A i \in 1 .. n : f[i] = Packed(levels[i]) + Slot * f[i + 1]
  BY DEF Tails
<1>1. 0 \in S
  <2>1. f[1] \in Nat /\ (n = 0 => f[1] = 0)
    BY <1>0
  <2>2. Power(Slot, 0) = 1
    BY PowerIs, SlotPositive
  <2>3. f[1] = 1 * f[1] + 0
    BY <2>1
  <2>4. f[1] \div 1 = f[1]
    BY <2>1, <2>3, DivUnique
  <2>5. Rest(0) = f[1]
    BY <1>0, <2>1
  <2> QED
    BY <2>2, <2>4, <2>5
<1>2. ASSUME NEW k \in S PROVE k + 1 \in S
  <2>1. k \in Nat /\ f[1] \div Power(Slot, k) = Rest(k)
    OBVIOUS
  <2>2. Power(Slot, k) \in Nat \ {0} /\ Power(Slot, k + 1) = Slot * Power(Slot, k)
    BY <2>1, PowerIs, SlotPositive
  <2>3. Slot * Power(Slot, k) = Power(Slot, k) * Slot
    BY <2>2, SlotPositive
  <2>4. f[1] \in Int
    BY <1>0
  <2>5. f[1] \div Power(Slot, k + 1) = Rest(k) \div Slot
    <3> DEFINE P == Power(Slot, k)
    <3>1. P \in Nat \ {0} /\ Power(Slot, k + 1) = P * Slot
      BY <2>2, <2>3
    <3> HIDE DEF P
    <3>2. f[1] \div (P * Slot) = (f[1] \div P) \div Slot
      BY <2>4, <3>1, SlotPositive, DivTwice
    <3> HIDE DEF Rest
    <3>3. f[1] \div P = Rest(k)
      BY <2>1 DEF P
    <3> QED
      BY <3>1, <3>2, <3>3, Zenon
  <2>6. CASE k < n
    <3>1. k + 1 \in 1 .. n /\ (k + 1) + 1 \in 1 .. n + 1
      BY <1>0, <2>1, <2>6
    <3>2. levels[k + 1] \in NativeLevel
      BY <3>1
    <3>3. Packed(levels[k + 1]) \in 0 .. Slot - 1
      BY <3>2, PackedFits
    <3>4. f[(k + 1) + 1] \in Nat /\ f[k + 1] = Packed(levels[k + 1]) + Slot * f[(k + 1) + 1]
      BY <1>0, <3>1
    <3>8. f[k + 1] \div Slot = f[(k + 1) + 1]
      BY <3>3, <3>4, SlotShift
    <3>9. Rest(k + 1) = f[(k + 1) + 1]
      BY <1>0, <2>1, <2>6
    <3> QED
      BY <2>1, <2>5, <2>6, <3>8, <3>9
  <2>7. CASE ~ (k < n)
    <3>1. Rest(k) = 0 /\ Rest(k + 1) = 0
      BY <1>0, <2>1, <2>7
    <3>2. 0 = Slot * 0 + 0
      BY SlotPositive
    <3>3. 0 \div Slot = 0
      BY <3>2, SlotPositive, DivUnique
    <3> QED
      BY <2>1, <2>5, <3>1, <3>3
  <2> QED
    BY <2>6, <2>7
<1>3. S \in SUBSET Nat
  OBVIOUS
<1>4. S = Nat
  BY <1>1, <1>2, <1>3, Induction
<1> QED
  BY <1>4

\* Slot i of an encoded word holds level i, and nothing behind the last level.
LEMMA SlotIsLevel ==
  ASSUME NEW levels \in Seq(NativeLevel), NEW i \in Nat \ {0}
  PROVE  SlotAt(EncodeLevels(levels), i) =
           IF i <= Len(levels) THEN levels[i] ELSE [ offset |-> 0, lots |-> 0 ]
<1> DEFINE n == Len(levels)
<1>1. PICK f : Tails(f, levels, 1) /\ EncodeLevels(levels) = f[1]
  BY EncodedTails
<1>2. n \in Nat /\ i - 1 \in Nat /\ (i - 1) + 1 = i
  OBVIOUS
<1>3. f[1] \div Power(Slot, i - 1) = IF i - 1 < n THEN f[(i - 1) + 1] ELSE 0
  BY <1>1, <1>2, ShiftedWord
<1> DEFINE v == (f[1] \div Power(Slot, i - 1)) % Slot
<1>4. SlotAt(EncodeLevels(levels), i) =
        [ offset |-> v \div (MaxTick + 1), lots |-> v % (MaxTick + 1) ]
  BY <1>1 DEF SlotAt
<1>5. CASE i <= n
  <2>1. f[1] \div Power(Slot, i - 1) = f[i]
    BY <1>2, <1>3, <1>5
  <2>2. i \in 1 .. n /\ i + 1 \in 1 .. n + 1 /\ i \in 1 .. n + 1
    BY <1>2, <1>5
  <2>3. levels[i] \in NativeLevel
    BY <2>2
  <2> DEFINE c == Packed(levels[i])
  <2>4. /\ c \in 0 .. Slot - 1
        /\ c \div (MaxTick + 1) = levels[i].offset /\ c % (MaxTick + 1) = levels[i].lots
    BY <2>3, PackedFits
  <2>5. f[i] = c + Slot * f[i + 1] /\ f[i + 1] \in Nat /\ f[i] \in Nat
    BY <1>1, <2>2 DEF Tails
  <2> HIDE DEF c
  <2>6. f[i] % Slot = c
    <3>1. c \in 0 .. Slot - 1 /\ f[i + 1] \in Nat /\ f[i] = c + Slot * f[i + 1]
      BY <2>4, <2>5
    <3> QED
      BY <3>1, SlotShift
  <2>7. v = c
    BY <2>1, <2>6
  <2>8. levels[i] = [ offset |-> levels[i].offset, lots |-> levels[i].lots ]
    BY <2>3 DEF NativeLevel
  <2> HIDE DEF v
  <2> QED
    BY <1>4, <1>5, <2>4, <2>7, <2>8
<1>6. CASE ~ (i <= n)
  <2>1. f[1] \div Power(Slot, i - 1) = 0
    BY <1>2, <1>3, <1>6
  <2>2. 0 = Slot * 0 + 0 /\ 0 = (MaxTick + 1) * 0 + 0 /\ MaxTick + 1 \in Nat \ {0}
    BY SlotPositive, BookAssumption
  <2>3. v = 0
    BY <2>1, <2>2, SlotPositive, DivUnique
  <2>4. 0 \div (MaxTick + 1) = 0 /\ 0 % (MaxTick + 1) = 0
    BY <2>2, DivUnique
  <2> HIDE DEF v
  <2> QED
    BY <1>4, <1>6, <2>3, <2>4
<1> QED
  BY <1>5, <1>6

\* The active slots of an encoded word are its levels.
LEMMA ActiveLevels ==
  ASSUME NEW levels \in Seq(NativeLevel), Len(levels) <= MaxLevels
  PROVE  /\ ActiveSlots(EncodeLevels(levels)) = 1 .. Len(levels)
         /\ \A i \in 1 .. Len(levels) : SlotAt(EncodeLevels(levels), i) = levels[i]
<1> DEFINE n == Len(levels)
           word == EncodeLevels(levels)
           none == [ offset |-> 0, lots |-> 0 ]
<1>0. n \in Nat /\ n <= MaxLevels /\ MaxLevels \in Nat
  BY BookAssumption
<1>1. \A i \in 1 .. MaxLevels : SlotAt(word, i) = IF i <= n THEN levels[i] ELSE none
  BY <1>0, SlotIsLevel
<1>2. ASSUME NEW i \in 1 .. n PROVE levels[i] # none
  <2>1. levels[i] \in NativeLevel
    BY <1>2
  <2>2. levels[i].lots # 0
    BY <2>1, BookAssumption DEF NativeLevel
  <2> QED
    BY <2>2
<1> HIDE DEF word, none
<1>3. ActiveSlots(word) = 1 .. n
  <2>1. ASSUME NEW i \in ActiveSlots(word) PROVE i \in 1 .. n
    BY <1>0, <1>1 DEF ActiveSlots, none
  <2>2. ASSUME NEW i \in 1 .. n PROVE i \in ActiveSlots(word)
    <3>1. i \in 1 .. MaxLevels /\ i <= n
      BY <1>0
    <3> QED
      BY <1>1, <1>2, <3>1 DEF ActiveSlots, none
  <2> QED
    BY <2>1, <2>2
<1>4. \A i \in 1 .. n : SlotAt(word, i) = levels[i]
  BY <1>0, <1>1
<1> QED
  BY <1>3, <1>4 DEF word

\* What encodeLevels accepts, DecodeLevels returns: every book of at most MaxLevels
\* levels comes back out of its word, level by level.
THEOREM WordRoundTrip ==
  ASSUME NEW levels \in Seq(NativeLevel), Len(levels) <= MaxLevels
  PROVE  DecodeLevels(EncodeLevels(levels)) = levels
<1> DEFINE n == Len(levels)
           word == EncodeLevels(levels)
<1>0. n \in Nat
  OBVIOUS
<1>1. ActiveSlots(word) = 1 .. n /\ \A i \in 1 .. n : SlotAt(word, i) = levels[i]
  BY ActiveLevels
<1> HIDE DEF word
<1>2. Cardinality(1 .. n) = n
  <2> HIDE DEF n
  <2>1. 1 \in Int /\ n \in Int
    BY <1>0
  <2>2. Cardinality(1 .. n) = IF 1 > n THEN 0 ELSE n - 1 + 1
    BY <2>1, FS_Interval
  <2> QED
    BY <1>0, <2>2
<1>3. DecodeLevels(word) = [i \in 1 .. n |-> SlotAt(word, i)]
  BY <1>1, <1>2 DEF DecodeLevels
<1>4. levels = [i \in 1 .. n |-> levels[i]]
  BY <1>0
<1> QED
  BY <1>1, <1>3, <1>4 DEF word

\* A word of levels in order, best first, is one that decodeCompactFrame accepts.
LEMMA WordAccepted ==
  ASSUME NEW levels \in Seq(NativeLevel), Len(levels) <= MaxLevels,
         \A i, j \in 1 .. Len(levels) : i < j => levels[i].offset < levels[j].offset
  PROVE  LevelsEncode(levels) /\ WordIsValid(EncodeLevels(levels))
<1> DEFINE n == Len(levels)
           word == EncodeLevels(levels)
<1>1. n \in Nat /\ MaxLevels \in Nat /\ DOMAIN levels = 1 .. n
  BY BookAssumption
<1>2. ActiveSlots(word) = 1 .. n /\ \A i \in 1 .. n : SlotAt(word, i) = levels[i]
  BY ActiveLevels
<1>3. word < Power(Slot, MaxLevels)
  <2>1. PICK f : Tails(f, levels, 1) /\ word = f[1]
    BY EncodedTails
  <2>2. f[1] \div Power(Slot, MaxLevels) = 0
    BY <1>1, <2>1, ShiftedWord
  <2>3. f[1] \in Nat
    BY <1>1, <2>1 DEF Tails
  <2>4. Power(Slot, MaxLevels) \in Nat \ {0}
    BY <1>1, PowerIs, SlotPositive
  <2> HIDE DEF word
  <2>5. f[1] < Power(Slot, MaxLevels)
    BY <2>2, <2>3, <2>4, DivZero
  <2> QED
    BY <2>1, <2>5
<1>4. ASSUME NEW i \in 1 .. n
      PROVE  /\ levels[i].offset \in Nat /\ levels[i].offset <= MaxTick
             /\ levels[i].lots # 0 /\ Uint24(levels[i].lots)
             /\ i > 1 => i - 1 \in 1 .. n /\ levels[i].offset > levels[i - 1].offset
  <2>1. levels[i] \in NativeLevel
    BY <1>4
  <2>2. /\ levels[i].offset \in Nat /\ levels[i].offset <= MaxTick
        /\ levels[i].lots \in 1 .. MaxTick
    BY <2>1, LevelFields DEF NativeLevel
  <2>3. ASSUME i > 1 PROVE i - 1 \in 1 .. n /\ levels[i].offset > levels[i - 1].offset
    <3>1. i - 1 \in 1 .. n /\ i - 1 < i
      BY <1>1, <2>3
    <3>2. levels[i - 1] \in NativeLevel /\ levels[i - 1].offset < levels[i].offset
      BY <3>1
    <3>3. levels[i - 1].offset \in Nat
      BY <3>2, LevelFields
    <3> QED
      BY <2>2, <3>1, <3>2, <3>3
  <2> QED
    BY <2>2, <2>3, BookAssumption DEF Uint24
<1> HIDE DEF word, n
<1>5. LevelsEncode(levels)
  BY <1>1, <1>4 DEF LevelsEncode, n
<1>6. WordIsValid(word)
  <2> SUFFICES ASSUME NEW i \in 1 .. n
      PROVE  /\ SlotAt(word, i).lots # 0
             /\ \A j \in 1 .. i - 1 : j \in 1 .. n
             /\ i > 1 => SlotAt(word, i).offset > SlotAt(word, i - 1).offset
    BY <1>2, <1>3 DEF WordIsValid
  <2> QED
    BY <1>1, <1>2, <1>4
<1> QED
  BY <1>5, <1>6 DEF word

-----------------------------------------------------------------------------
(* Readable decimals *)

\* Powers of the radix are positive.
LEMMA RadixPower == \A k \in Nat : Power(Radix, k) \in Nat \ {0}
BY PowerIs, BookAssumption

\* The parser of the router undoes the formatting of the maker: a number of native
\* units that decimal writes within the limit comes out of quoteDecimal unchanged,
\* for every scale, negative ones too.
THEOREM DecimalRoundTrip ==
  ASSUME NEW n \in Nat, n <= MaxNative, NEW scale \in Int, ~ TooLong(Decimal(n, scale))
  PROVE  QuoteDecimal(Decimal(n, scale), scale) = n
<1> DEFINE d == Decimal(n, scale)
           shift == scale - d.f
           cut == IF shift < 0 THEN Power(Radix, - shift) ELSE 1
           v == IF shift < 0 THEN d.n \div cut ELSE d.n * Power(Radix, shift)
<1>0. MaxNative \in Nat
  BY BookAssumption
<1>1. QuoteDecimal(d, scale) = IF TooLong(d) \/ d.n % cut # 0 \/ v > MaxNative THEN 0 ELSE v
  BY DEF QuoteDecimal
<1>2. CASE scale <= 0
  <2> DEFINE q == Power(Radix, - scale)
  <2>1. - scale \in Nat
    BY <1>2
  <2>2. q \in Nat \ {0}
    BY <2>1, RadixPower
  <2>3. d.n = n * q /\ d.f = 0
    BY <1>2 DEF Decimal
  <2>4. shift = scale
    BY <2>3
  <2> HIDE DEF d
  <2>5. CASE scale = 0
    <3>1. q = 1
      BY <2>5, PowerIs, BookAssumption
    <3>2. d.n = n /\ ~ (shift < 0) /\ cut = 1
      BY <2>3, <2>4, <2>5, <3>1
    <3>3. Power(Radix, shift) = 1
      BY <2>4, <2>5, PowerIs, BookAssumption
    <3>4. v = n
      BY <3>2, <3>3
    <3>5. d.n % cut = 0
      BY <3>2
    <3> HIDE DEF v, cut, shift
    <3> QED
      BY <1>0, <1>1, <3>4, <3>5 DEF d
  <2>6. CASE scale # 0
    <3>1. shift < 0 /\ cut = q
      BY <1>2, <2>4, <2>6
    <3> HIDE DEF q
    <3>2. n * q = q * n + 0 /\ n * q \in Int
      BY <2>2, MulInt
    <3>3. (n * q) \div q = n /\ (n * q) % q = 0
      BY <2>2, <3>2, DivUnique
    <3>4. v = n /\ d.n % cut = 0
      BY <2>3, <3>1, <3>3
    <3> HIDE DEF v, cut, shift
    <3> QED
      BY <1>0, <1>1, <3>4 DEF d
  <2> QED
    BY <2>5, <2>6
<1>3. CASE ~ (scale <= 0)
  <2> DEFINE S == {k \in 0 .. scale : n % Power(Radix, k) = 0}
             zeros == Max(S)
             q == Power(Radix, zeros)
  <2>1. scale \in Nat /\ 0 \in 0 .. scale
    BY <1>3
  <2>2. n % Power(Radix, 0) = 0
    <3>1. Power(Radix, 0) = 1
      BY PowerIs, BookAssumption
    <3> QED
      BY <3>1
  <2>3. S \in SUBSET (0 .. scale) /\ S # {}
    BY <2>1, <2>2
  <2>4. zeros \in S
    <3> HIDE DEF S
    <3> QED
      BY <2>1, <2>3, MaxIn
  <2>5. d.n = n \div q /\ d.f = scale - zeros
    BY <1>3 DEF Decimal
  <2> HIDE DEF zeros, d
  <2>6. zeros \in Nat /\ n % q = 0
    BY <2>1, <2>4
  <2>7. shift = zeros /\ ~ (shift < 0) /\ cut = 1
    BY <2>1, <2>5, <2>6
  <2>8. q \in Nat \ {0}
    BY <2>6, RadixPower
  <2> HIDE DEF q
  <2>9. n \div q \in Int /\ q * (n \div q) = n
    BY <2>6, <2>8, DivBounds
  <2>10. v = (n \div q) * q
    BY <2>5, <2>7 DEF q
  <2>11. v = n
    BY <2>8, <2>9, <2>10
  <2>12. d.n % cut = 0
    BY <2>5, <2>7, <2>9
  <2> HIDE DEF v, cut, shift
  <2> QED
    BY <1>0, <1>1, <2>11, <2>12 DEF d
<1> QED
  BY <1>2, <1>3

-----------------------------------------------------------------------------
(* Rounding *)

Decimals == [ n: Nat, f: Nat ]

\* Numerator and denominator of a scaled decimal.
LEMMA NumDen ==
  ASSUME NEW d \in Decimals, NEW scale \in Int
  PROVE  Num(d, scale) \in Nat /\ Den(d, scale) \in Nat \ {0}
<1> DEFINE up == IF scale >= 0 THEN scale ELSE 0
           down == IF scale < 0 THEN - scale ELSE 0
<1>1. up \in Nat /\ down \in Nat /\ d.n \in Nat /\ d.f \in Nat
  BY DEF Decimals
<1>2. Power(Radix, up) \in Nat \ {0} /\ Power(Radix, down) \in Nat \ {0}
      /\ Power(Radix, d.f) \in Nat \ {0}
  BY <1>1, RadixPower
<1>3. Num(d, scale) = d.n * Power(Radix, up) /\ Den(d, scale) = Power(Radix, d.f) * Power(Radix, down)
  BY DEF Num, Den
<1> HIDE DEF up, down
<1> QED
  BY <1>1, <1>2, <1>3, MulInt, MulPositive

\* quoteUnits rounds by less than one step, down or up as it is told.
LEMMA UnitsRound ==
  ASSUME NEW d \in Decimals, NEW scale \in Int, NEW step \in Nat \ {0}, NEW up \in BOOLEAN
  PROVE  /\ QuoteUnits(d, scale, step, up) \in Nat
         /\ RoundsTo(QuoteUnits(d, scale, step, up), step, d, scale, up)
<1> DEFINE v == Num(d, scale)
           D == Den(d, scale)
           unit == step * D
           count == v \div unit
           rest == v % unit
           u == QuoteUnits(d, scale, step, up)
<1>1. v \in Nat /\ D \in Nat \ {0}
  BY NumDen
<1>2. D * step = unit /\ unit \in Nat \ {0}
  <2> HIDE DEF D
  <2> QED
    BY <1>1, MulPositive
<1>3. u = IF up /\ rest # 0 THEN count + 1 ELSE count
  BY <1>2 DEF QuoteUnits
<1>4. RoundsTo(u, step, d, scale, up) <=>
        IF up THEN (u - 1) * unit < v /\ v <= u * unit ELSE u * unit <= v /\ v < (u + 1) * unit
  BY DEF RoundsTo
<1> HIDE DEF v, unit, u
<1>5. /\ count \in Int /\ rest \in Int /\ v = unit * count + rest /\ 0 <= rest /\ rest < unit
  BY <1>1, <1>2, DivBounds
<1> HIDE DEF count, rest
<1>6. unit * count \in Int /\ count * unit = unit * count
  BY <1>2, <1>5, MulInt
<1>7. (count + 1) * unit = unit * count + unit /\ (count - 1) * unit = unit * count - unit
  BY <1>2, <1>5
<1>8. count \in Nat
  <2> SUFFICES ASSUME count + 1 <= 0 PROVE FALSE
    BY <1>5
  <2>1. unit * (count + 1) <= unit * 0
    BY <1>2, <1>5, MulMono
  <2>2. unit * 0 = 0 /\ unit * (count + 1) = unit * count + unit
    BY <1>2, <1>5
  <2> QED
    BY <1>1, <1>2, <1>5, <1>6, <2>1, <2>2
<1>9. CASE up /\ rest # 0
  <2>1. u = count + 1 /\ u - 1 = count
    BY <1>3, <1>8, <1>9
  <2>2. (u - 1) * unit < v /\ v <= u * unit
    BY <1>2, <1>5, <1>6, <1>7, <1>9, <2>1
  <2>3. RoundsTo(u, step, d, scale, up)
    BY <1>4, <1>9, <2>2
  <2>4. u \in Nat
    BY <1>8, <2>1
  <2> QED
    BY <2>3, <2>4 DEF u
<1>10. CASE ~ (up /\ rest # 0)
  <2>1. u = count
    BY <1>3, <1>10
  <2>2. up => (u - 1) * unit < v /\ v <= u * unit
    BY <1>2, <1>5, <1>6, <1>7, <1>10, <2>1
  <2>3. ~ up => u * unit <= v /\ v < (u + 1) * unit
    BY <1>2, <1>5, <1>6, <1>7, <1>10, <2>1
  <2>4. RoundsTo(u, step, d, scale, up)
    BY <1>4, <2>2, <2>3
  <2>5. u \in Nat
    BY <1>8, <2>1
  <2> QED
    BY <2>4, <2>5 DEF u
<1> QED
  BY <1>9, <1>10

\* A bid that does not exceed an ask does not exceed it after rounding either: the
\* bid goes down, the ask goes up, whatever their numbers of digits are.
LEMMA RoundApart ==
  ASSUME NEW b \in Decimals, NEW a \in Decimals, NEW scale \in Int, NEW step \in Nat \ {0},
         b.n * Power(Radix, a.f) <= a.n * Power(Radix, b.f)
  PROVE  QuoteUnits(b, scale, step, FALSE) <= QuoteUnits(a, scale, step, TRUE)
<1> DEFINE up == IF scale >= 0 THEN scale ELSE 0
           down == IF scale < 0 THEN - scale ELSE 0
           P == Power(Radix, up)
           Q == Power(Radix, down)
           A == Power(Radix, a.f)
           B == Power(Radix, b.f)
           ub == QuoteUnits(b, scale, step, FALSE)
           ua == QuoteUnits(a, scale, step, TRUE)
<1>1. /\ P \in Nat \ {0} /\ Q \in Nat \ {0} /\ A \in Nat \ {0} /\ B \in Nat \ {0}
      /\ a.n \in Nat /\ b.n \in Nat
  <2>1. up \in Nat /\ down \in Nat /\ a.f \in Nat /\ b.f \in Nat /\ a.n \in Nat /\ b.n \in Nat
    BY DEF Decimals
  <2> QED
    BY <2>1, RadixPower
<1>2. /\ ub \in Nat /\ ub * (step * (B * Q)) <= b.n * P
      /\ ua \in Nat /\ a.n * P <= ua * (step * (A * Q))
  BY UnitsRound DEF RoundsTo, Num, Den
<1>3. b.n * A <= a.n * B
  OBVIOUS
<1> HIDE DEF P, Q, A, B, ub, ua
<1> DEFINE C == A * (step * (B * Q))
<1>4. step * (B * Q) \in Nat \ {0} /\ step * (A * Q) \in Nat \ {0}
  BY <1>1, MulPositive
<1>5. C \in Nat \ {0}
  BY <1>1, <1>4, MulPositive
<1>6. C = B * (step * (A * Q))
  BY <1>1
<1>7. A * (ub * (step * (B * Q))) <= A * (b.n * P)
  BY <1>1, <1>2, <1>4, MulMono, MulInt
<1>8. P * (b.n * A) <= P * (a.n * B)
  BY <1>1, <1>3, MulMono, MulInt
<1>9. B * (a.n * P) <= B * (ua * (step * (A * Q)))
  BY <1>1, <1>2, <1>4, MulMono, MulInt
<1>10. A * (b.n * P) = P * (b.n * A) /\ B * (a.n * P) = P * (a.n * B)
  BY <1>1
<1>11. A * (ub * (step * (B * Q))) = C * ub
  <2> DEFINE k == step * (B * Q)
  <2> HIDE DEF k
  <2>1. k \in Nat
    BY <1>4 DEF k
  <2>2. A * (ub * k) = (A * k) * ub
    BY <1>1, <1>2, <2>1
  <2> QED
    BY <2>2 DEF k
<1>12. B * (ua * (step * (A * Q))) = C * ua
  <2> DEFINE k == step * (A * Q)
  <2> HIDE DEF k
  <2>1. k \in Nat
    BY <1>4 DEF k
  <2>2. B * (ua * k) = (B * k) * ua
    BY <1>1, <1>2, <2>1
  <2> QED
    BY <1>6, <2>2 DEF k
<1> HIDE DEF C
<1>13. /\ C * ub \in Int /\ C * ua \in Int
       /\ P * (b.n * A) \in Int /\ P * (a.n * B) \in Int
  BY <1>1, <1>2, <1>5, MulInt
<1>14. C * ub <= C * ua
  BY <1>7, <1>8, <1>9, <1>10, <1>11, <1>12, <1>13
<1>15. ub <= ua
  BY <1>2, <1>5, <1>14, MulCancel
<1> QED
  BY <1>15 DEF ub, ua

-----------------------------------------------------------------------------
(* The invariant *)

Asked == [ price: Decimals, amount: Decimals ]

Reading == phase \in {"bids", "asks"}

\* The absolute tick of a level: offsets are relative once quoteSpec is done.
Absolute(s, i) == IF Reading THEN spec[s][i].offset ELSE Tick(s, spec.base, spec[s][i])

\* Offsets and lots fit their fields at all times: no offset has wrapped.
BookTypeOK ==
  /\ phase \in {"bids", "asks", "spec", "payload", "prepared", "onchain", "sent", "read", "refused"}
  /\ pair \in Pairs
  /\ req \in [Sides -> Seq(Asked)]
  /\ spec \in [ base: 1 .. MaxTick, bids: Seq(NativeLevel), asks: Seq(NativeLevel) ]

\* Each level is the rounded form of the one that was asked for, with a tick that is a
\* positive uint24 ...
LevelsAgree(s) ==
  /\ Len(spec[s]) = Len(req[s]) /\ Len(spec[s]) <= MaxLevels
  /\ \A i \in 1 .. Len(spec[s]) :
       /\ Absolute(s, i) \in 1 .. MaxTick
       /\ Absolute(s, i) = QuoteLevel(s, req[s][i]).offset
       /\ spec[s][i].lots = QuoteLevel(s, req[s][i]).lots

\* ... and the best comes first.
BestFirst(s) ==
  \A i, j \in 1 .. Len(spec[s]) : i < j =>
    IF s = "bids" THEN Absolute(s, j) < Absolute(s, i) ELSE Absolute(s, i) < Absolute(s, j)

SpecInv ==
  /\ BookTypeOK
  /\ \A s \in Sides : LevelsAgree(s) /\ BestFirst(s)
  /\ ~ Reading => ~ Crossed

\* What was made of the specification: the words, the decimals and what the router reads.
MadeInv ==
  /\ Signed => words = CompactFrame(spec)
  /\ phase \in {"prepared", "sent", "read"} =>
       /\ wire = [ s \in Sides |-> HumanLevels(s) ]
       /\ Readable("bids") /\ Readable("asks")
  /\ phase = "read" => \A s \in Sides :
       seen[s] = [ i \in DOMAIN spec[s] |->
                     [ price |-> Tick(s, spec.base, spec[s][i]) * pair.tickSize,
                       depth |-> spec[s][i].lots * pair.lotSize ] ]

BookInv == SpecInv /\ MadeInv

\* The sides of a specification.
LEMMA SpecSides ==
  ASSUME BookTypeOK, NEW s \in Sides
  PROVE  spec[s] \in Seq(NativeLevel) /\ req[s] \in Seq(Asked) /\ Len(spec[s]) \in Nat
BY DEF BookTypeOK, Sides

\* The settings of the pair.
LEMMA PairNumbers ==
  ASSUME BookTypeOK
  PROVE  /\ pair.tickSize \in Nat \ {0} /\ pair.lotSize \in Nat \ {0}
         /\ MaxTick * pair.tickSize <= MaxNative /\ MaxTick * pair.lotSize <= MaxNative
         /\ pair.baseDecimals \in Nat /\ PriceScale \in Int
BY PairsAssumption, BookAssumption DEF BookTypeOK, PriceScale

\* A level as it was asked for, in ticks and lots.
LEMMA LevelRounds ==
  ASSUME BookTypeOK, NEW s \in Sides, NEW l \in Asked
  PROVE  /\ QuoteLevel(s, l).offset \in Nat /\ QuoteLevel(s, l).lots \in Nat
         /\ QuoteLevel(s, l) = [ offset |-> QuoteLevel(s, l).offset, lots |-> QuoteLevel(s, l).lots ]
         /\ RoundsTo(QuoteLevel(s, l).offset, pair.tickSize, l.price, PriceScale, s = "asks")
         /\ RoundsTo(QuoteLevel(s, l).lots, pair.lotSize, l.amount, pair.baseDecimals, FALSE)
<1> DEFINE o == QuoteUnits(l.price, PriceScale, pair.tickSize, s = "asks")
           k == QuoteUnits(l.amount, pair.baseDecimals, pair.lotSize, FALSE)
<1>1. l.price \in Decimals /\ l.amount \in Decimals
  BY DEF Asked
<1>2. o \in Nat /\ RoundsTo(o, pair.tickSize, l.price, PriceScale, s = "asks")
  BY <1>1, PairNumbers, UnitsRound
<1>3. k \in Nat /\ RoundsTo(k, pair.lotSize, l.amount, pair.baseDecimals, FALSE)
  <2>1. pair.lotSize \in Nat \ {0} /\ pair.baseDecimals \in Int /\ FALSE \in BOOLEAN
    BY PairNumbers
  <2> QED
    BY <1>1, <2>1, UnitsRound
<1>4. QuoteLevel(s, l) = [ offset |-> o, lots |-> k ]
  BY DEF QuoteLevel
<1> HIDE DEF o, k
<1>5. QuoteLevel(s, l).offset = o /\ QuoteLevel(s, l).lots = k
  BY <1>4
<1>6. /\ RoundsTo(QuoteLevel(s, l).offset, pair.tickSize, l.price, PriceScale, s = "asks")
      /\ RoundsTo(QuoteLevel(s, l).lots, pair.lotSize, l.amount, pair.baseDecimals, FALSE)
  BY <1>2, <1>3, <1>5
<1> QED
  BY <1>2, <1>3, <1>4, <1>5, <1>6

\* Nothing has been read at first.
LEMMA BookStart == Init => BookInv
<1> SUFFICES ASSUME Init PROVE BookInv
  OBVIOUS
<1>1. BookTypeOK
  BY BookAssumption DEF Init, BookTypeOK, NoLevels, Sides
<1>2. \A s \in Sides : spec[s] = << >> /\ req[s] = << >>
  BY DEF Init, NoLevels, Sides
<1>3. \A s \in Sides : LevelsAgree(s) /\ BestFirst(s)
  BY <1>2, BookAssumption DEF LevelsAgree, BestFirst
<1>4. Reading
  BY DEF Init, Reading
<1>5. MadeInv
  BY DEF Init, MadeInv, Signed
<1> QED
  BY <1>1, <1>3, <1>4, <1>5 DEF BookInv, SpecInv

\* A refused book leaves nothing behind.
LEMMA RefuseStep ==
  ASSUME BookInv, Refuse
  PROVE  BookInv'
<1>1. BookTypeOK'
  BY BookAssumption DEF BookInv, SpecInv, BookTypeOK, Refuse, NoLevels, Sides
<1>2. \A s \in Sides : spec'[s] = << >> /\ req'[s] = << >>
  BY DEF Refuse, NoLevels, Sides
<1>3. \A s \in Sides : LevelsAgree(s)' /\ BestFirst(s)'
  BY <1>2, BookAssumption DEF LevelsAgree, BestFirst
<1>4. ~ Crossed'
  BY <1>2 DEF Crossed, Sides
<1>5. MadeInv'
  BY DEF Refuse, MadeInv, Signed
<1> QED
  BY <1>1, <1>3, <1>4, <1>5 DEF BookInv, SpecInv

\* A step that leaves the specification alone keeps what is known of it.
LEMMA SpecStays ==
  ASSUME SpecInv, UNCHANGED << pair, req, spec >>, Reading' <=> Reading,
         phase' \in {"bids", "asks", "spec", "payload", "prepared", "onchain", "sent", "read", "refused"}
  PROVE  SpecInv'
<1>1. BookTypeOK'
  BY DEF SpecInv, BookTypeOK
<1>2. \A s, i : Absolute(s, i)' = Absolute(s, i)
  BY DEF Absolute, Tick
<1>3. \A s, l : QuoteLevel(s, l)' = QuoteLevel(s, l)
  BY DEF QuoteLevel, PriceScale, QuoteUnits, Num, Den
<1>4. \A s \in Sides : LevelsAgree(s)'
  BY <1>2, <1>3 DEF SpecInv, LevelsAgree
<1>5. \A s \in Sides : BestFirst(s)'
  BY <1>2 DEF SpecInv, BestFirst
<1>6. Crossed' <=> Crossed
  BY DEF Crossed
<1> QED
  BY <1>1, <1>4, <1>5, <1>6 DEF SpecInv

\* Reading one level more (quoteLevels): it is behind those that were read.
LEMMA TakeStep ==
  ASSUME BookInv, NEW side \in Sides, NEW l \in Asked, TakeLevel(side, l)
  PROVE  BookInv'
<1>1. CASE Refuse
  BY <1>1, RefuseStep
<1>2. CASE ~ Refuse
  <2> DEFINE q == QuoteLevel(side, l)
             n == Len(spec[side])
  <2>1. /\ phase = side /\ n < MaxLevels /\ LevelIsValid(side, l)
        /\ req' = [req EXCEPT ![side] = Append(@, l)]
        /\ spec' = [spec EXCEPT ![side] = Append(@, q)]
        /\ UNCHANGED << phase, pair, words, wire, seen >>
    BY <1>2 DEF TakeLevel
  <2>2. BookTypeOK /\ \A s \in Sides : LevelsAgree(s) /\ BestFirst(s)
    BY DEF BookInv, SpecInv
  <2>3. Reading /\ Reading'
    BY <2>1 DEF Reading, Sides
  <2>4. q.offset \in 1 .. MaxTick /\ q.lots \in 1 .. MaxTick /\ InOrder(side, spec[side], q)
    BY <2>1 DEF LevelIsValid, Uint24
  <2>5. q \in NativeLevel
    <3>1. q = [ offset |-> q.offset, lots |-> q.lots ]
      BY <2>2, LevelRounds
    <3>2. q.offset \in 0 .. MaxTick
      BY <2>4, BookAssumption
    <3> QED
      BY <2>4, <3>1, <3>2 DEF NativeLevel
  <2>6. \A s, k : QuoteLevel(s, k)' = QuoteLevel(s, k)
    BY <2>1 DEF QuoteLevel, PriceScale, QuoteUnits, Num, Den
  <2>7. n \in Nat /\ spec[side] \in Seq(NativeLevel) /\ req[side] \in Seq(Asked) /\ Len(req[side]) = n
    BY <2>2, SpecSides DEF LevelsAgree
  <2> HIDE DEF q
  <2>8. /\ spec'[side] = Append(spec[side], q) /\ spec'.base = spec.base
        /\ \A s \in Sides : s # side => spec'[s] = spec[s]
    BY <2>1, <2>2 DEF BookTypeOK, Sides
  <2>9. /\ req'[side] = Append(req[side], l)
        /\ \A s \in Sides : s # side => req'[s] = req[s]
    BY <2>1, <2>2 DEF BookTypeOK
  <2>10. BookTypeOK'
    <3>1. req' \in [Sides -> Seq(Asked)]
      BY <2>1, <2>2, <2>7 DEF BookTypeOK
    <3>2. Append(spec[side], q) \in Seq(NativeLevel)
      BY <2>5, <2>7
    <3>3. spec' \in [ base: 1 .. MaxTick, bids: Seq(NativeLevel), asks: Seq(NativeLevel) ]
      BY <2>1, <2>2, <3>2 DEF BookTypeOK, Sides
    <3> QED
      BY <2>1, <2>2, <3>1, <3>3 DEF BookTypeOK
  <2>11. /\ Len(spec'[side]) = n + 1 /\ Len(req'[side]) = n + 1
         /\ spec'[side][n + 1] = q /\ req'[side][n + 1] = l
         /\ \A i \in 1 .. n : spec'[side][i] = spec[side][i] /\ req'[side][i] = req[side][i]
    BY <2>5, <2>7, <2>8, <2>9
  <2>12. \A s, i : Absolute(s, i)' = spec'[s][i].offset /\ Absolute(s, i) = spec[s][i].offset
    BY <2>3 DEF Absolute
  <2>13. ASSUME NEW s \in Sides PROVE LevelsAgree(s)' /\ BestFirst(s)'
    <3>1. CASE s # side
      <4>1. spec'[s] = spec[s] /\ req'[s] = req[s]
        BY <2>8, <2>9, <3>1
      <4>2. LevelsAgree(s) /\ BestFirst(s)
        BY <2>2
      <4>3. \A i : Absolute(s, i)' = Absolute(s, i)
        BY <2>12, <4>1
      <4>4. LevelsAgree(s)'
        BY <2>6, <4>1, <4>2, <4>3 DEF LevelsAgree
      <4>5. BestFirst(s)'
        BY <4>1, <4>2, <4>3 DEF BestFirst
      <4> QED
        BY <4>4, <4>5
    <3>2. CASE s = side
      <4>1. LevelsAgree(side) /\ BestFirst(side)
        BY <2>2
      <4>2. LevelsAgree(side)'
        <5>1. n + 1 <= MaxLevels
          BY <2>1, <2>7, BookAssumption
        <5>2. ASSUME NEW i \in 1 .. n + 1
              PROVE  /\ spec'[side][i].offset \in 1 .. MaxTick
                     /\ spec'[side][i].offset = QuoteLevel(side, req'[side][i]).offset
                     /\ spec'[side][i].lots = QuoteLevel(side, req'[side][i]).lots
          <6>1. CASE i = n + 1
            BY <2>4, <2>11, <6>1 DEF q
          <6>2. CASE i # n + 1
            <7>1. i \in 1 .. n
              BY <2>7, <6>2
            <7> QED
              BY <2>11, <2>12, <4>1, <7>1 DEF LevelsAgree
          <6> QED
            BY <6>1, <6>2
        <5> QED
          BY <2>6, <2>11, <2>12, <5>1, <5>2 DEF LevelsAgree
      <4>3. BestFirst(side)'
        <5> SUFFICES ASSUME NEW i \in 1 .. n + 1, NEW j \in 1 .. n + 1, i < j
            PROVE  IF side = "bids" THEN spec'[side][j].offset < spec'[side][i].offset
                   ELSE spec'[side][i].offset < spec'[side][j].offset
          BY <2>11, <2>12 DEF BestFirst
        <5>1. i \in 1 .. n
          BY <2>7
        <5>2. CASE j # n + 1
          <6>1. j \in 1 .. n
            BY <2>7, <5>2
          <6> QED
            BY <2>11, <2>12, <4>1, <5>1, <6>1 DEF BestFirst
        <5>3. CASE j = n + 1
          <6>1. spec[side] # << >> /\ n \in 1 .. n
            BY <2>7, <5>1
          <6>2. IF side = "bids" THEN q.offset < spec[side][n].offset
                ELSE q.offset > spec[side][n].offset
            BY <2>4, <6>1 DEF InOrder
          <6>3. spec[side][n].offset \in Nat /\ spec[side][i].offset \in Nat /\ q.offset \in Nat
            <7>1. spec[side][n] \in NativeLevel /\ spec[side][i] \in NativeLevel
              BY <2>7, <5>1, <6>1
            <7> QED
              BY <2>5, <7>1, LevelFields
          <6>4. i = n \/ i < n
            BY <2>7, <5>1
          <6>5. IF side = "bids" THEN spec[side][n].offset <= spec[side][i].offset
                ELSE spec[side][i].offset <= spec[side][n].offset
            <7>1. CASE i = n
              BY <6>3, <7>1
            <7>2. CASE i < n
              <8>1. IF side = "bids" THEN spec[side][n].offset < spec[side][i].offset
                    ELSE spec[side][i].offset < spec[side][n].offset
                BY <2>12, <4>1, <5>1, <6>1, <7>2 DEF BestFirst
              <8> QED
                BY <6>3, <8>1
            <7> QED
              BY <6>4, <7>1, <7>2
          <6>6. spec'[side][j] = q /\ spec'[side][i] = spec[side][i]
            BY <2>11, <5>1, <5>3
          <6> HIDE DEF n
          <6>7. CASE side = "bids"
            BY <6>2, <6>3, <6>5, <6>6, <6>7
          <6>8. CASE side # "bids"
            BY <6>2, <6>3, <6>5, <6>6, <6>8
          <6> QED
            BY <6>7, <6>8
        <5> QED
          BY <5>2, <5>3
      <4> QED
        BY <3>2, <4>2, <4>3
    <3> QED
      BY <3>1, <3>2
  <2>14. MadeInv'
    BY <2>3 DEF MadeInv, Signed, Reading
  <2> QED
    BY <2>3, <2>10, <2>13, <2>14 DEF BookInv, SpecInv
<1> QED
  BY <1>1, <1>2

\* Input that is not crossed is not crossed in ticks: the best bid is no higher than
\* any ask.
LEMMA BidsBelowAsks ==
  ASSUME SpecInv, Reading, ~ Crossed, spec.bids # << >>, NEW j \in 1 .. Len(spec.asks)
  PROVE  spec.bids[1].offset <= spec.asks[j].offset
<1>1. BookTypeOK /\ LevelsAgree("bids") /\ LevelsAgree("asks") /\ BestFirst("asks")
  BY DEF SpecInv, Sides
<1>2. /\ spec.bids \in Seq(NativeLevel) /\ spec.asks \in Seq(NativeLevel)
      /\ req.bids \in Seq(Asked) /\ req.asks \in Seq(Asked)
  BY <1>1 DEF BookTypeOK, Sides
<1>3. 1 \in 1 .. Len(spec.bids) /\ 1 \in 1 .. Len(spec.asks)
  BY <1>2
<1>0. spec.bids[1] \in NativeLevel /\ spec.asks[1] \in NativeLevel /\ spec.asks[j] \in NativeLevel
  BY <1>2, <1>3
<1>4. /\ Len(req.bids) = Len(spec.bids) /\ Len(req.asks) = Len(spec.asks)
      /\ spec.bids[1].offset = QuoteLevel("bids", req.bids[1]).offset
      /\ spec.asks[1].offset = QuoteLevel("asks", req.asks[1]).offset
  BY <1>1, <1>3 DEF LevelsAgree, Absolute
<1> DEFINE b == req.bids[1].price
           a == req.asks[1].price
<1>5. req.bids # << >> /\ req.asks # << >> /\ b \in Decimals /\ a \in Decimals
  <2>1. 1 \in 1 .. Len(req.bids) /\ 1 \in 1 .. Len(req.asks)
    BY <1>3, <1>4
  <2>2. req.bids[1] \in Asked /\ req.asks[1] \in Asked
    BY <1>2, <2>1
  <2>3. req.bids # << >> /\ req.asks # << >>
    BY <2>1
  <2> QED
    BY <2>2, <2>3 DEF Asked
<1>6. ~ (b.n * Power(Radix, a.f) > a.n * Power(Radix, b.f))
  BY <1>5 DEF Crossed
<1>7. /\ b.n * Power(Radix, a.f) \in Int /\ a.n * Power(Radix, b.f) \in Int
  <2>1. b.n \in Nat /\ a.n \in Nat /\ b.f \in Nat /\ a.f \in Nat
    BY <1>5 DEF Decimals
  <2>2. Power(Radix, a.f) \in Nat /\ Power(Radix, b.f) \in Nat
    BY <2>1, RadixPower
  <2> QED
    BY <2>1, <2>2, MulInt
<1>8. b.n * Power(Radix, a.f) <= a.n * Power(Radix, b.f)
  BY <1>6, <1>7
<1>9. QuoteUnits(b, PriceScale, pair.tickSize, FALSE) <= QuoteUnits(a, PriceScale, pair.tickSize, TRUE)
  <2> HIDE DEF a, b
  <2>1. PriceScale \in Int /\ pair.tickSize \in Nat \ {0}
    BY <1>1, PairNumbers
  <2> QED
    BY <1>5, <1>8, <2>1, RoundApart
<1>10. /\ QuoteLevel("bids", req.bids[1]).offset = QuoteUnits(b, PriceScale, pair.tickSize, FALSE)
       /\ QuoteLevel("asks", req.asks[1]).offset = QuoteUnits(a, PriceScale, pair.tickSize, TRUE)
  BY DEF QuoteLevel
<1>11. spec.bids[1].offset <= spec.asks[1].offset
  BY <1>4, <1>9, <1>10
<1>12. spec.asks[1].offset <= spec.asks[j].offset
  <2>1. spec.asks[1].offset \in Nat /\ spec.asks[j].offset \in Nat
    BY <1>0, LevelFields
  <2>2. CASE j = 1
    BY <2>1, <2>2
  <2>3. CASE 1 < j
    <3>1. spec.asks[1].offset < spec.asks[j].offset
      BY <1>1, <1>3, <2>3 DEF BestFirst, Absolute
    <3> QED
      BY <2>1, <3>1
  <2> QED
    BY <2>2, <2>3
<1>13. spec.bids[1].offset \in Nat /\ spec.asks[1].offset \in Nat /\ spec.asks[j].offset \in Nat
  BY <1>0, LevelFields
<1> QED
  BY <1>11, <1>12, <1>13

\* The base lies between the bids and the asks.
LEMMA BaseBetween ==
  ASSUME SpecInv, Reading, ~ Crossed
  PROVE  /\ Base \in 1 .. MaxTick
         /\ \A i \in 1 .. Len(spec.bids) : spec.bids[i].offset <= Base
         /\ \A i \in 1 .. Len(spec.asks) : Base <= spec.asks[i].offset
<1>1. /\ BookTypeOK /\ LevelsAgree("bids") /\ LevelsAgree("asks")
      /\ BestFirst("bids") /\ BestFirst("asks")
  BY DEF SpecInv, Sides
<1>2. /\ spec.bids \in Seq(NativeLevel) /\ spec.asks \in Seq(NativeLevel)
      /\ Len(spec.bids) \in Nat /\ Len(spec.asks) \in Nat
  BY <1>1 DEF BookTypeOK
<1>3. /\ \A i \in 1 .. Len(spec.bids) : spec.bids[i].offset \in 1 .. MaxTick
      /\ \A i \in 1 .. Len(spec.asks) : spec.asks[i].offset \in 1 .. MaxTick
  BY <1>1 DEF LevelsAgree, Absolute
<1>4. /\ \A i, j \in 1 .. Len(spec.bids) : i < j => spec.bids[j].offset < spec.bids[i].offset
      /\ \A i, j \in 1 .. Len(spec.asks) : i < j => spec.asks[i].offset < spec.asks[j].offset
  BY <1>1 DEF BestFirst, Absolute
<1>5. MaxTick \in Nat \ {0}
  BY BookAssumption
<1>6. ASSUME spec.bids # << >>, NEW i \in 1 .. Len(spec.bids)
      PROVE  spec.bids[i].offset <= spec.bids[1].offset
  <2>1. 1 \in 1 .. Len(spec.bids)
    BY <1>2
  <2>2. spec.bids[i].offset \in Int /\ spec.bids[1].offset \in Int
    BY <1>3, <2>1
  <2>3. CASE i = 1
    BY <2>2, <2>3
  <2>4. CASE 1 < i
    BY <1>4, <2>1, <2>2, <2>4
  <2> QED
    BY <2>3, <2>4
<1>7. ASSUME spec.asks # << >>, NEW i \in 1 .. Len(spec.asks)
      PROVE  spec.asks[1].offset <= spec.asks[i].offset
  <2>1. 1 \in 1 .. Len(spec.asks)
    BY <1>2
  <2>2. spec.asks[i].offset \in Int /\ spec.asks[1].offset \in Int
    BY <1>3, <2>1
  <2>3. CASE i = 1
    BY <2>2, <2>3
  <2>4. CASE 1 < i
    BY <1>4, <2>1, <2>2, <2>4
  <2> QED
    BY <2>3, <2>4
<1>8. CASE spec.bids # << >>
  <2>1. Base = spec.bids[1].offset /\ 1 \in 1 .. Len(spec.bids)
    BY <1>2, <1>8 DEF Base
  <2>2. Base \in 1 .. MaxTick
    BY <1>3, <2>1
  <2>3. \A i \in 1 .. Len(spec.asks) : spec.bids[1].offset <= spec.asks[i].offset
    BY <1>8, BidsBelowAsks
  <2> QED
    BY <1>6, <1>8, <2>1, <2>2, <2>3
<1>9. CASE spec.bids = << >> /\ spec.asks # << >>
  <2>1. Base = spec.asks[1].offset /\ 1 \in 1 .. Len(spec.asks)
    BY <1>2, <1>9 DEF Base
  <2>2. Base \in 1 .. MaxTick
    BY <1>3, <2>1
  <2>3. Len(spec.bids) = 0
    BY <1>9
  <2> QED
    BY <1>7, <1>9, <2>1, <2>2, <2>3
<1>10. CASE spec.bids = << >> /\ spec.asks = << >>
  <2>1. Base = 1 /\ Len(spec.bids) = 0 /\ Len(spec.asks) = 0
    BY <1>10 DEF Base
  <2> QED
    BY <1>5, <2>1
<1> QED
  BY <1>8, <1>9, <1>10

\* A level on its side of the base keeps its tick and its lots, and no uint32 wraps.
LEMMA RelativeKeeps ==
  ASSUME Base \in 1 .. MaxTick, NEW side \in Sides, NEW l \in NativeLevel,
         IF side = "bids" THEN l.offset <= Base ELSE Base <= l.offset
  PROVE  /\ Relative(side, l) \in NativeLevel /\ Relative(side, l).lots = l.lots
         /\ Tick(side, Base, Relative(side, l)) = l.offset
<1> DEFINE B == Base
           d == IF side = "bids" THEN B - l.offset ELSE l.offset - B
           M == MaxUint32 + 1
<1>1. l.offset \in Nat /\ l.offset <= MaxTick /\ l.lots \in 1 .. MaxTick
  BY DEF NativeLevel
<1>2. B \in Nat /\ B <= MaxTick /\ MaxTick \in Nat /\ M \in Nat \ {0} /\ MaxTick < M
  BY BookAssumption
<1>3. Relative(side, l) = [l EXCEPT !.offset = d % M]
  BY DEF Relative
<1> HIDE DEF B, M
<1>4. side = "bids" => l.offset <= B
  BY DEF B
<1>5. side # "bids" => B <= l.offset
  BY DEF B
<1>6. d \in Nat /\ d <= MaxTick /\ d < M
  <2>1. CASE side = "bids"
    BY <1>1, <1>2, <1>4, <2>1
  <2>2. CASE side # "bids"
    BY <1>1, <1>2, <1>5, <2>2
  <2> QED
    BY <2>1, <2>2
<1>7. Tick(side, B, [ offset |-> d, lots |-> l.lots ]) = l.offset
  BY <1>1, <1>2 DEF Tick
<1> HIDE DEF d
<1>8. d % M = d
  <2>1. d = M * 0 + d
    BY <1>2, <1>6
  <2> QED
    BY <1>2, <1>6, <2>1, DivUnique
<1>9. Relative(side, l) = [ offset |-> d, lots |-> l.lots ]
  BY <1>3, <1>8 DEF NativeLevel
<1>10. d \in 0 .. MaxTick
  BY <1>2, <1>6
<1>11. [ offset |-> d, lots |-> l.lots ] \in NativeLevel
  BY <1>1, <1>10 DEF NativeLevel
<1> QED
  BY <1>7, <1>9, <1>11 DEF B

\* Making offsets relative to the base moves no level (quoteSpec).
LEMMA QuoteSpecStep ==
  ASSUME BookInv, QuoteSpec
  PROVE  BookInv'
<1>1. CASE Refuse
  BY <1>1, RefuseStep
<1>2. CASE ~ Refuse
  <2>1. /\ phase = "asks" /\ ~ Crossed /\ phase' = "spec" /\ UNCHANGED << pair, req, words, wire, seen >>
        /\ spec' = [ base |-> Base,
                     bids |-> [ i \in DOMAIN spec.bids |-> Relative("bids", spec.bids[i]) ],
                     asks |-> [ i \in DOMAIN spec.asks |-> Relative("asks", spec.asks[i]) ] ]
    BY <1>2 DEF QuoteSpec
  <2>2. SpecInv /\ BookTypeOK /\ Reading /\ ~ Reading'
    BY <2>1 DEF BookInv, SpecInv, Reading
  <2>3. /\ Base \in 1 .. MaxTick
        /\ \A i \in 1 .. Len(spec.bids) : spec.bids[i].offset <= Base
        /\ \A i \in 1 .. Len(spec.asks) : Base <= spec.asks[i].offset
    BY <2>1, <2>2, BaseBetween
  <2>4. /\ spec'.base = Base
        /\ spec'["bids"] = [ i \in DOMAIN spec["bids"] |-> Relative("bids", spec["bids"][i]) ]
        /\ spec'["asks"] = [ i \in DOMAIN spec["asks"] |-> Relative("asks", spec["asks"][i]) ]
    BY <2>1
  <2>5. ASSUME NEW s \in Sides
        PROVE  /\ spec'[s] \in Seq(NativeLevel) /\ Len(spec'[s]) = Len(spec[s])
               /\ \A i \in 1 .. Len(spec[s]) :
                    /\ spec'[s][i].lots = spec[s][i].lots
                    /\ Tick(s, spec'.base, spec'[s][i]) = spec[s][i].offset
    <3> DEFINE n == Len(spec[s])
    <3>1. spec[s] \in Seq(NativeLevel) /\ n \in Nat /\ DOMAIN spec[s] = 1 .. n
      BY <2>2, SpecSides
    <3>2. spec'[s] = [ i \in 1 .. n |-> Relative(s, spec[s][i]) ]
      BY <2>4, <3>1 DEF Sides
    <3>3. ASSUME NEW i \in 1 .. n
          PROVE  /\ Relative(s, spec[s][i]) \in NativeLevel
                 /\ Relative(s, spec[s][i]).lots = spec[s][i].lots
                 /\ Tick(s, Base, Relative(s, spec[s][i])) = spec[s][i].offset
      <4>1. spec[s][i] \in NativeLevel
        BY <3>1
      <4>2. IF s = "bids" THEN spec[s][i].offset <= Base ELSE Base <= spec[s][i].offset
        BY <2>3 DEF Sides
      <4> QED
        BY <2>3, <4>1, <4>2, RelativeKeeps
    <3>4. spec'[s] \in [1 .. n -> NativeLevel]
      BY <3>2, <3>3
    <3> HIDE DEF n
    <3>5. spec'[s] \in Seq(NativeLevel) /\ Len(spec'[s]) = n
      BY <3>1, <3>4
    <3>6. \A i \in 1 .. n : spec'[s][i] = Relative(s, spec[s][i])
      BY <3>2
    <3> QED
      BY <2>4, <3>3, <3>5, <3>6 DEF n
  <2>6. BookTypeOK'
    <3>1. spec'["bids"] \in Seq(NativeLevel) /\ spec'["asks"] \in Seq(NativeLevel)
      BY <2>5 DEF Sides
    <3>2. spec' = [ base |-> Base, bids |-> spec'["bids"], asks |-> spec'["asks"] ]
      BY <2>1
    <3>3. spec' \in [ base: 1 .. MaxTick, bids: Seq(NativeLevel), asks: Seq(NativeLevel) ]
      BY <2>3, <3>1, <3>2
    <3> QED
      BY <2>1, <2>2, <3>3 DEF BookTypeOK
  <2>7. \A s, k : QuoteLevel(s, k)' = QuoteLevel(s, k)
    BY <2>1 DEF QuoteLevel, PriceScale, QuoteUnits, Num, Den
  <2>8. ASSUME NEW s \in Sides PROVE LevelsAgree(s)' /\ BestFirst(s)'
    <3>1. Len(spec[s]) \in Nat /\ LevelsAgree(s) /\ BestFirst(s)
      BY <2>2, SpecSides DEF SpecInv
    <3>2. \A i \in 1 .. Len(spec[s]) : Absolute(s, i)' = Absolute(s, i)
      BY <2>2, <2>5 DEF Absolute, Tick
    <3>3. LevelsAgree(s)'
      <4>1. Len(spec'[s]) = Len(spec[s]) /\ req'[s] = req[s]
        BY <2>1, <2>5
      <4>2. ASSUME NEW i \in 1 .. Len(spec[s])
            PROVE  /\ Absolute(s, i)' = Absolute(s, i) /\ spec'[s][i].lots = spec[s][i].lots
                   /\ QuoteLevel(s, req[s][i])' = QuoteLevel(s, req[s][i])
        BY <2>1, <2>5, <2>7, <3>2
      <4> QED
        BY <3>1, <4>1, <4>2 DEF LevelsAgree
    <3>4. BestFirst(s)'
      BY <2>5, <3>1, <3>2 DEF BestFirst
    <3> QED
      BY <3>3, <3>4
  <2>9. ~ Crossed'
    BY <2>1 DEF Crossed
  <2>10. MadeInv'
    BY <2>1 DEF MadeInv, Signed
  <2> QED
    BY <2>6, <2>8, <2>9, <2>10 DEF BookInv, SpecInv
<1> QED
  BY <1>1, <1>2

\* The router reads every level as it was signed.
LEMMA ReadsAsSigned ==
  ASSUME BookInv, ~ Reading, NEW s \in Sides, NEW i \in 1 .. Len(spec[s]), Readable(s)
  PROVE  /\ QuoteDecimal(HumanLevels(s)[i].price, PriceScale)
              = Tick(s, spec.base, spec[s][i]) * pair.tickSize
         /\ QuoteDecimal(HumanLevels(s)[i].amount, pair.baseDecimals)
              = spec[s][i].lots * pair.lotSize
<1> DEFINE tick == Tick(s, spec.base, spec[s][i])
           lots == spec[s][i].lots
<1>1. BookTypeOK /\ LevelsAgree(s)
  BY DEF BookInv, SpecInv
<1>2. spec[s] \in Seq(NativeLevel) /\ DOMAIN spec[s] = 1 .. Len(spec[s])
  BY <1>1, SpecSides
<1>3. tick \in Nat /\ tick <= MaxTick
  BY <1>1, BookAssumption DEF LevelsAgree, Absolute
<1>4. lots \in Nat /\ lots <= MaxTick
  BY <1>2, LevelFields
<1>5. HumanLevels(s)[i] = [ price |-> Decimal(tick * pair.tickSize, PriceScale),
                            amount |-> Decimal(lots * pair.lotSize, pair.baseDecimals) ]
  BY <1>2 DEF HumanLevels
<1>6. i \in DOMAIN HumanLevels(s)
  BY <1>2 DEF HumanLevels
<1>7. ~ TooLong(HumanLevels(s)[i].price) /\ ~ TooLong(HumanLevels(s)[i].amount)
  BY <1>6 DEF Readable
<1> HIDE DEF tick, lots
<1>8. /\ HumanLevels(s)[i].price = Decimal(tick * pair.tickSize, PriceScale)
      /\ HumanLevels(s)[i].amount = Decimal(lots * pair.lotSize, pair.baseDecimals)
  BY <1>5
<1> DEFINE t == pair.tickSize
           k == pair.lotSize
<1>9. /\ t \in Nat \ {0} /\ k \in Nat \ {0} /\ MaxTick * t <= MaxNative /\ MaxTick * k <= MaxNative
      /\ pair.baseDecimals \in Int /\ PriceScale \in Int /\ MaxTick \in Nat /\ MaxNative \in Nat
  BY <1>1, PairNumbers, BookAssumption
<1> HIDE DEF t, k
<1>10. tick * t <= MaxTick * t /\ lots * k <= MaxTick * k
  BY <1>3, <1>4, <1>9, MulMono
<1>11. /\ tick * t \in Nat /\ tick * t <= MaxNative
       /\ lots * k \in Nat /\ lots * k <= MaxNative
  BY <1>3, <1>4, <1>9, <1>10, MulInt
<1>12. /\ QuoteDecimal(Decimal(tick * t, PriceScale), PriceScale) = tick * t
       /\ QuoteDecimal(Decimal(lots * k, pair.baseDecimals), pair.baseDecimals) = lots * k
  BY <1>7, <1>8, <1>9, <1>11, DecimalRoundTrip DEF t, k
<1> QED
  BY <1>8, <1>12 DEF t, k, tick, lots

\* The steps from the specification to the router leave the specification alone.
LEMMA LaterStep ==
  ASSUME BookInv,
         PrepareSigningPayload \/ Prepare \/ SignFrame \/ SubmitFrameUpdate \/ RouterReads
  PROVE  BookInv'
<1>1. CASE Refuse
  BY <1>1, RefuseStep
<1>2. CASE ~ Refuse
  <2>1. UNCHANGED << pair, req, spec >>
    BY <1>2 DEF PrepareSigningPayload, Prepare, SignFrame, SubmitFrameUpdate, RouterReads
  <2>2. /\ phase \in {"spec", "payload", "prepared", "sent"}
        /\ phase' \in {"payload", "prepared", "onchain", "sent", "read"}
    BY <1>2 DEF PrepareSigningPayload, Prepare, SignFrame, SubmitFrameUpdate, RouterReads
  <2>3. SpecInv'
    <3>1. ~ Reading /\ ~ Reading'
      BY <2>2 DEF Reading
    <3> QED
      BY <2>1, <2>2, <3>1, SpecStays DEF BookInv
  <2>4. words' = CompactFrame(spec)'
    <3>1. CASE PrepareSigningPayload
      BY <1>2, <2>1, <3>1 DEF PrepareSigningPayload, CompactFrame
    <3>2. CASE ~ PrepareSigningPayload
      <4>1. Signed /\ words' = words
        BY <1>2, <3>2 DEF Prepare, SignFrame, SubmitFrameUpdate, RouterReads, Signed
      <4>2. words = CompactFrame(spec)
        BY <4>1 DEF BookInv, MadeInv
      <4> QED
        BY <2>1, <4>1, <4>2 DEF CompactFrame
    <3> QED
      BY <3>1, <3>2
  <2>5. \A s : HumanLevels(s)' = HumanLevels(s) /\ (Readable(s)' <=> Readable(s))
    BY <2>1 DEF HumanLevels, Readable, PriceScale
  <2>6. phase' \in {"prepared", "sent", "read"} =>
          /\ wire' = [ s \in Sides |-> HumanLevels(s) ]
          /\ Readable("bids") /\ Readable("asks")
    <3>1. CASE Prepare
      BY <1>2, <3>1 DEF Prepare
    <3>2. CASE SignFrame \/ RouterReads
      BY <1>2, <3>2 DEF SignFrame, RouterReads, BookInv, MadeInv
    <3>3. CASE PrepareSigningPayload \/ SubmitFrameUpdate
      BY <1>2, <3>3 DEF PrepareSigningPayload, SubmitFrameUpdate
    <3> QED
      BY <3>1, <3>2, <3>3
  <2>7. ASSUME phase' = "read", NEW s \in Sides
        PROVE  seen'[s] = [ i \in DOMAIN spec[s] |->
                              [ price |-> Tick(s, spec.base, spec[s][i]) * pair.tickSize,
                                depth |-> spec[s][i].lots * pair.lotSize ] ]
    <3>1. RouterReads
      BY <1>2, <2>7 DEF PrepareSigningPayload, Prepare, SignFrame, SubmitFrameUpdate, RouterReads
    <3>2. /\ wire = [ t \in Sides |-> HumanLevels(t) ] /\ Readable("bids") /\ Readable("asks")
          /\ ~ Reading
      BY <3>1 DEF RouterReads, BookInv, MadeInv, Reading
    <3>3. wire[s] = HumanLevels(s) /\ Readable(s)
      BY <3>2 DEF Sides
    <3>4. DOMAIN HumanLevels(s) = DOMAIN spec[s] /\ DOMAIN spec[s] = 1 .. Len(spec[s])
      <4>1. spec[s] \in Seq(NativeLevel)
        BY SpecSides DEF BookInv, SpecInv
      <4> QED
        BY <4>1 DEF HumanLevels
    <3>5. seen'[s] = [ i \in DOMAIN spec[s] |->
                         [ price |-> QuoteDecimal(HumanLevels(s)[i].price, PriceScale),
                           depth |-> QuoteDecimal(HumanLevels(s)[i].amount, pair.baseDecimals) ] ]
      BY <3>1, <3>3, <3>4 DEF RouterReads
    <3>6. \A i \in DOMAIN spec[s] :
            /\ QuoteDecimal(HumanLevels(s)[i].price, PriceScale)
                 = Tick(s, spec.base, spec[s][i]) * pair.tickSize
            /\ QuoteDecimal(HumanLevels(s)[i].amount, pair.baseDecimals)
                 = spec[s][i].lots * pair.lotSize
      BY <3>2, <3>3, <3>4, ReadsAsSigned
    <3> QED
      BY <3>5, <3>6
  <2>8. MadeInv'
    <3>1. phase' \in {"prepared", "sent", "read"} =>
            /\ wire' = [ s \in Sides |-> HumanLevels(s)' ]
            /\ Readable("bids")' /\ Readable("asks")'
      BY <2>5, <2>6
    <3>2. phase' = "read" => \A s \in Sides :
            seen'[s] = [ i \in DOMAIN spec'[s] |->
                           [ price |-> Tick(s, spec'.base, spec'[s][i]) * pair'.tickSize,
                             depth |-> spec'[s][i].lots * pair'.lotSize ] ]
      BY <2>1, <2>7
    <3> QED
      BY <2>4, <3>1, <3>2 DEF MadeInv, Tick
  <2> QED
    BY <2>3, <2>8 DEF BookInv
<1> QED
  BY <1>1, <1>2

\* BookInv is preserved by every step.
LEMMA BookStep == BookInv /\ [Next]_vars => BookInv'
<1> SUFFICES ASSUME BookInv, [Next]_vars PROVE BookInv'
  OBVIOUS
<1>1. CASE RefuseCall \/ \E side \in Sides : TooManyLevels(side)
  BY <1>1, RefuseStep DEF RefuseCall, TooManyLevels
<1>2. ASSUME NEW side \in Sides, NEW p \in Prices, NEW a \in Amounts,
             TakeLevel(side, [ price |-> p, amount |-> a ])
      PROVE  BookInv'
  <2>1. [ price |-> p, amount |-> a ] \in Asked
    BY BookAssumption DEF Asked, Decimals
  <2> QED
    BY <1>2, <2>1, TakeStep
<1>3. CASE EndBids
  <2>1. /\ UNCHANGED << pair, req, spec >> /\ Reading /\ Reading' /\ phase' = "asks"
    BY <1>3 DEF EndBids, Reading
  <2>2. SpecInv'
    BY <2>1, SpecStays DEF BookInv
  <2>3. MadeInv'
    BY <2>1 DEF MadeInv, Signed
  <2> QED
    BY <2>2, <2>3 DEF BookInv
<1>4. CASE QuoteSpec
  BY <1>4, QuoteSpecStep
<1>5. CASE PrepareSigningPayload \/ Prepare \/ SignFrame \/ SubmitFrameUpdate \/ RouterReads
  BY <1>5, LaterStep
<1>6. CASE UNCHANGED vars
  <2>1. UNCHANGED << phase, pair, req, spec, words, wire, seen >>
    BY <1>6 DEF vars
  <2>2. SpecInv'
    <3>1. (Reading' <=> Reading) /\ phase' \in {"bids", "asks", "spec", "payload", "prepared",
                                                "onchain", "sent", "read", "refused"}
      BY <2>1 DEF Reading, BookInv, SpecInv, BookTypeOK
    <3> QED
      BY <2>1, <3>1, SpecStays DEF BookInv
  <2>3. \A s : HumanLevels(s)' = HumanLevels(s) /\ (Readable(s)' <=> Readable(s))
    BY <2>1 DEF HumanLevels, Readable, PriceScale
  <2>4. CompactFrame(spec)' = CompactFrame(spec)
    BY <2>1 DEF CompactFrame
  <2>5. MadeInv'
    BY <2>1, <2>3, <2>4 DEF BookInv, MadeInv, Signed, Tick
  <2> QED
    BY <2>2, <2>5 DEF BookInv
<1> QED
  BY <1>1, <1>2, <1>3, <1>4, <1>5, <1>6 DEF Next

\* BookInv holds in every state.
LEMMA BookAlways == Spec => []BookInv
BY BookStart, BookStep, PTL DEF Spec

-----------------------------------------------------------------------------
(* The theorems *)

\* The words that are signed decode to the specification.
LEMMA WordsDecode ==
  ASSUME BookInv, Signed, NEW s \in Sides
  PROVE  /\ DecodeLevels(words[s]) = spec[s] /\ words.base = spec.base
         /\ DOMAIN spec[s] = 1 .. Len(spec[s]) /\ Len(spec[s]) \in Nat
         /\ ChainBook(s) = [ i \in 1 .. Len(spec[s]) |->
              [ tick |-> Tick(s, spec.base, spec[s][i]), lots |-> spec[s][i].lots ] ]
         /\ Len(ChainBook(s)) = Len(spec[s])
<1>1. BookTypeOK /\ LevelsAgree(s) /\ words = CompactFrame(spec)
  BY DEF BookInv, SpecInv, MadeInv
<1>2. words[s] = EncodeLevels(spec[s]) /\ words.base = spec.base
  BY <1>1 DEF CompactFrame, Sides
<1>3. /\ spec[s] \in Seq(NativeLevel) /\ Len(spec[s]) <= MaxLevels /\ Len(spec[s]) \in Nat
      /\ DOMAIN spec[s] = 1 .. Len(spec[s])
  BY <1>1, SpecSides DEF LevelsAgree
<1>4. DecodeLevels(words[s]) = spec[s]
  BY <1>2, <1>3, WordRoundTrip
<1> DEFINE n == Len(spec[s])
           book == [ i \in 1 .. n |->
                       [ tick |-> Tick(s, spec.base, spec[s][i]), lots |-> spec[s][i].lots ] ]
<1>5. ChainBook(s) = book
  BY <1>2, <1>3, <1>4 DEF ChainBook
<1>6. Len(book) = n
  BY <1>3
<1> QED
  BY <1>2, <1>3, <1>4, <1>5, <1>6

\* What quoteSpec accepts, encodeCompactFrame accepts too: its checks of the base, of each
\* level and of the words never reject a book that Publish has read, so a signing payload
\* can be made of every one.
THEOREM QuotedEncodes == Spec => [](phase = "spec" => Encodes(spec))
<1>1. ASSUME BookInv, phase = "spec" PROVE Encodes(spec)
  <2>1. /\ BookTypeOK /\ ~ Reading /\ \A s \in Sides : LevelsAgree(s) /\ BestFirst(s)
        /\ spec.base \in 1 .. MaxTick /\ spec.base \in Nat
    BY <1>1, BookAssumption DEF BookInv, SpecInv, Reading, BookTypeOK
  <2>2. ASSUME NEW s \in Sides
        PROVE  /\ spec[s] \in Seq(NativeLevel) /\ Len(spec[s]) <= MaxLevels
               /\ DOMAIN spec[s] = 1 .. Len(spec[s]) /\ Len(spec[s]) \in Nat
               /\ \A i \in 1 .. Len(spec[s]) :
                    spec[s][i].offset \in Nat /\ Tick(s, spec.base, spec[s][i]) \in 1 .. MaxTick
    <3>1. spec[s] \in Seq(NativeLevel) /\ Len(spec[s]) \in Nat
      BY <2>1, SpecSides
    <3>2. ASSUME NEW i \in 1 .. Len(spec[s])
          PROVE  spec[s][i].offset \in Nat /\ Tick(s, spec.base, spec[s][i]) \in 1 .. MaxTick
      <4>1. spec[s][i] \in NativeLevel
        BY <3>1
      <4>2. spec[s][i].offset \in Nat
        BY <4>1, LevelFields
      <4> QED
        BY <2>1, <4>2 DEF LevelsAgree, Absolute
    <3> QED
      BY <2>1, <3>1, <3>2 DEF LevelsAgree
  <2>3. ASSUME NEW s \in Sides
        PROVE  LevelsEncode(spec[s]) /\ WordIsValid(EncodeLevels(spec[s]))
    <3>1. ASSUME NEW i \in 1 .. Len(spec[s]), NEW j \in 1 .. Len(spec[s]), i < j
          PROVE  spec[s][i].offset < spec[s][j].offset
      <4>1. spec[s][i].offset \in Nat /\ spec[s][j].offset \in Nat
        BY <2>2
      <4>2. IF s = "bids"
            THEN Tick(s, spec.base, spec[s][j]) < Tick(s, spec.base, spec[s][i])
            ELSE Tick(s, spec.base, spec[s][i]) < Tick(s, spec.base, spec[s][j])
        BY <2>1, <3>1 DEF BestFirst, Absolute
      <4>3. CASE s = "bids"
        BY <2>1, <4>1, <4>2, <4>3 DEF Tick
      <4>4. CASE s # "bids"
        BY <2>1, <4>1, <4>2, <4>4 DEF Tick
      <4> QED
        BY <4>3, <4>4
    <3> QED
      BY <2>2, <3>1, WordAccepted
  <2>4. "bids" \in Sides /\ "asks" \in Sides
    BY DEF Sides
  <2> DEFINE w == CompactFrame(spec)
  <2>5. /\ w.base = spec.base
        /\ w.bids = EncodeLevels(spec.bids) /\ w.asks = EncodeLevels(spec.asks)
    BY DEF CompactFrame
  <2>6. DecodeLevels(w.bids) = spec.bids /\ DecodeLevels(w.asks) = spec.asks
    BY <2>2, <2>4, <2>5, WordRoundTrip
  <2>7. /\ \A i \in DOMAIN spec.bids : spec.bids[i].offset < spec.base
        /\ \A i \in DOMAIN spec.asks : spec.asks[i].offset + spec.base <= MaxTick
    <3>1. ASSUME NEW i \in DOMAIN spec.bids PROVE spec.bids[i].offset < spec.base
      <4>1. spec.bids[i].offset \in Nat /\ Tick("bids", spec.base, spec.bids[i]) \in 1 .. MaxTick
        BY <2>2, <2>4
      <4> QED
        BY <2>1, <4>1, BookAssumption DEF Tick
    <3>2. ASSUME NEW i \in DOMAIN spec.asks PROVE spec.asks[i].offset + spec.base <= MaxTick
      <4>1. spec.asks[i].offset \in Nat /\ Tick("asks", spec.base, spec.asks[i]) \in 1 .. MaxTick
        BY <2>2, <2>4
      <4> QED
        BY <2>1, <4>1, BookAssumption DEF Tick
    <3> QED
      BY <3>1, <3>2
  <2> HIDE DEF w
  <2>8. FrameIsValid(w)
    BY <2>1, <2>3, <2>4, <2>5, <2>6, <2>7 DEF FrameIsValid
  <2> QED
    BY <2>1, <2>3, <2>4, <2>8 DEF Encodes, w
<1> QED
  BY <1>1, BookAlways, PTL

\* The signed words hold what the caller of Publish or SubmitFrameUpdate asked for: no
\* bid is raised, no ask lowered, no amount increased, each by less than a step.
THEOREM AskedIsSigned == Spec => []SignedWhatWasAsked
<1>1. ASSUME BookInv PROVE SignedWhatWasAsked
  <2> SUFFICES ASSUME Signed, NEW s \in Sides
      PROVE  /\ Len(ChainBook(s)) = Len(req[s])
             /\ \A i \in DOMAIN req[s] :
                  /\ RoundsTo(ChainBook(s)[i].tick, pair.tickSize, req[s][i].price, PriceScale, s = "asks")
                  /\ RoundsTo(ChainBook(s)[i].lots, pair.lotSize, req[s][i].amount, pair.baseDecimals, FALSE)
    BY DEF SignedWhatWasAsked
  <2>1. BookTypeOK /\ LevelsAgree(s) /\ ~ Reading
    BY <1>1 DEF BookInv, SpecInv, Signed, Reading
  <2>2. req[s] \in Seq(Asked) /\ Len(req[s]) = Len(spec[s])
    BY <2>1, SpecSides DEF LevelsAgree
  <2>3. Len(ChainBook(s)) = Len(req[s])
    BY <1>1, <2>2, WordsDecode
  <2>4. ASSUME NEW i \in DOMAIN req[s]
        PROVE  /\ RoundsTo(ChainBook(s)[i].tick, pair.tickSize, req[s][i].price, PriceScale, s = "asks")
               /\ RoundsTo(ChainBook(s)[i].lots, pair.lotSize, req[s][i].amount, pair.baseDecimals, FALSE)
    <3>1. i \in 1 .. Len(spec[s]) /\ req[s][i] \in Asked
      BY <2>2
    <3>2. /\ Absolute(s, i) = QuoteLevel(s, req[s][i]).offset
          /\ spec[s][i].lots = QuoteLevel(s, req[s][i]).lots
      BY <2>1, <3>1 DEF LevelsAgree
    <3>3. ChainBook(s)[i] = [ tick |-> Tick(s, spec.base, spec[s][i]), lots |-> spec[s][i].lots ]
      BY <1>1, <3>1, WordsDecode
    <3>4. /\ ChainBook(s)[i].tick = QuoteLevel(s, req[s][i]).offset
          /\ ChainBook(s)[i].lots = QuoteLevel(s, req[s][i]).lots
      BY <2>1, <3>2, <3>3 DEF Absolute
    <3>5. /\ RoundsTo(QuoteLevel(s, req[s][i]).offset, pair.tickSize, req[s][i].price, PriceScale, s = "asks")
          /\ RoundsTo(QuoteLevel(s, req[s][i]).lots, pair.lotSize, req[s][i].amount, pair.baseDecimals, FALSE)
      BY <2>1, <3>1, LevelRounds
    <3> QED
      BY <3>4, <3>5
  <2> QED
    BY <2>3, <2>4
<1> QED
  BY <1>1, BookAlways, PTL

\* A signed book is best first and not crossed, in its ticks as in the decimals that
\* were asked for (quoteSpec refuses a crossed input before it rounds).
THEOREM SoundBook == Spec => []SignedBookIsSound
<1>1. ASSUME BookInv PROVE SignedBookIsSound
  <2> SUFFICES ASSUME Signed
      PROVE  /\ ~ Crossed
             /\ \A s \in Sides : \A i, j \in DOMAIN ChainBook(s) : i < j =>
                  IF s = "bids" THEN ChainBook(s)[i].tick > ChainBook(s)[j].tick
                  ELSE ChainBook(s)[i].tick < ChainBook(s)[j].tick
             /\ \A i \in DOMAIN ChainBook("bids"), j \in DOMAIN ChainBook("asks") :
                  ChainBook("bids")[i].tick <= ChainBook("asks")[j].tick
    BY DEF SignedBookIsSound
  <2>1. BookTypeOK /\ ~ Reading /\ ~ Crossed
    BY <1>1 DEF BookInv, SpecInv, Signed, Reading
  <2>2. ASSUME NEW s \in Sides
        PROVE  /\ DOMAIN ChainBook(s) = 1 .. Len(spec[s])
               /\ \A i \in 1 .. Len(spec[s]) :
                    /\ ChainBook(s)[i].tick = Tick(s, spec.base, spec[s][i])
                    /\ Absolute(s, i) = Tick(s, spec.base, spec[s][i])
    BY <1>1, <2>1, WordsDecode DEF Absolute
  <2>3. ASSUME NEW s \in Sides, NEW i \in DOMAIN ChainBook(s), NEW j \in DOMAIN ChainBook(s), i < j
        PROVE  IF s = "bids" THEN ChainBook(s)[i].tick > ChainBook(s)[j].tick
               ELSE ChainBook(s)[i].tick < ChainBook(s)[j].tick
    <3>1. i \in 1 .. Len(spec[s]) /\ j \in 1 .. Len(spec[s])
      BY <2>2
    <3>2. /\ ChainBook(s)[i].tick = Absolute(s, i) /\ ChainBook(s)[j].tick = Absolute(s, j)
      BY <2>2, <3>1
    <3>3. BestFirst(s) /\ LevelsAgree(s)
      BY <1>1 DEF BookInv, SpecInv
    <3>4. Absolute(s, i) \in Int /\ Absolute(s, j) \in Int
      BY <3>1, <3>3 DEF LevelsAgree
    <3>5. IF s = "bids" THEN Absolute(s, j) < Absolute(s, i) ELSE Absolute(s, i) < Absolute(s, j)
      BY <2>3, <3>1, <3>3 DEF BestFirst
    <3> QED
      BY <3>2, <3>4, <3>5
  <2>4. ASSUME NEW i \in DOMAIN ChainBook("bids"), NEW j \in DOMAIN ChainBook("asks")
        PROVE  ChainBook("bids")[i].tick <= ChainBook("asks")[j].tick
    <3>1. "bids" \in Sides /\ "asks" \in Sides
      BY DEF Sides
    <3>2. i \in 1 .. Len(spec["bids"]) /\ j \in 1 .. Len(spec["asks"])
      BY <2>2, <3>1
    <3>3. spec["bids"][i] \in NativeLevel /\ spec["asks"][j] \in NativeLevel
      BY <2>1, <3>1, <3>2, SpecSides
    <3>4. spec["bids"][i].offset \in Nat /\ spec["asks"][j].offset \in Nat
      BY <3>3, LevelFields
    <3>5. spec.base \in Nat
      BY <2>1, BookAssumption DEF BookTypeOK
    <3>6. /\ ChainBook("bids")[i].tick = spec.base - spec["bids"][i].offset
          /\ ChainBook("asks")[j].tick = spec.base + spec["asks"][j].offset
      BY <2>2, <3>1, <3>2 DEF Tick
    <3> QED
      BY <3>4, <3>5, <3>6
  <2> QED
    BY <2>1, <2>3, <2>4
<1> QED
  BY <1>1, BookAlways, PTL

\* The native price and depth that the router parses from the readable decimals are the
\* ticks and lots of the signed words, and no readable level is refused.
THEOREM ReadableAgrees == Spec => []ReadableIsSigned
<1>1. ASSUME BookInv PROVE ReadableIsSigned
  <2> SUFFICES ASSUME phase = "read", NEW s \in Sides
      PROVE  seen[s] = [ i \in DOMAIN ChainBook(s) |->
                           [ price |-> ChainBook(s)[i].tick * pair.tickSize,
                             depth |-> ChainBook(s)[i].lots * pair.lotSize ] ]
    BY DEF ReadableIsSigned
  <2>1. Signed
    BY DEF Signed
  <2>2. /\ DOMAIN spec[s] = 1 .. Len(spec[s])
        /\ ChainBook(s) = [ i \in 1 .. Len(spec[s]) |->
             [ tick |-> Tick(s, spec.base, spec[s][i]), lots |-> spec[s][i].lots ] ]
    BY <1>1, <2>1, WordsDecode
  <2>3. seen[s] = [ i \in DOMAIN spec[s] |->
                      [ price |-> Tick(s, spec.base, spec[s][i]) * pair.tickSize,
                        depth |-> spec[s][i].lots * pair.lotSize ] ]
    BY <1>1 DEF BookInv, MadeInv
  <2> QED
    BY <2>2, <2>3
<1> QED
  BY <1>1, BookAlways, PTL

-----------------------------------------------------------------------------
(***************************************************************************)
(* The pair of a book comes from the listing client, which is a state      *)
(* machine of its own.                                                     *)
(***************************************************************************)

\* A run has no result before its end, and the pair of a run that was told its
\* pair is never chosen from a list.
ShopInv ==
  /\ registry \in Seq(Items)
  /\ pc # "end" => result.kind = "none"
  /\ args.job = "example" /\ args.pair # 0 => id = args.pair /\ pc # "list"
  /\ ShownIsUsable

\* An answer that ListPair accepts is one sound record with the IDs asked for (get,
\* decodePair and the checks of ListPair).
LEMMA AcceptedPair ==
  ASSUME NEW a, a.data \in Seq(Items), ListPair(a) = "ok"
  PROVE  /\ a.data[1] \in Items /\ a.data[1] \in ToSet(a.data)
         /\ a.data[1].tokens /\ a.data[1].sizes
         /\ a.data[1].chain = args.chain /\ a.data[1].id = id
<1>1. Len(a.data) = 1
  BY DEF ListPair
<1>2. DecodePair(a.data[1]) = "ok" /\ a.data[1].chain = args.chain /\ a.data[1].id = id
  BY DEF ListPair
<1>3. a.data[1] \in Items /\ 1 \in DOMAIN a.data
  BY <1>1
<1>4. a.data[1] \in ToSet(a.data)
  BY <1>3 DEF ToSet
<1> QED
  BY <1>2, <1>3, <1>4 DEF DecodePair

\* What the registry answers about one pair is a record that it holds, or a refusal.
LEMMA HonestRecord ==
  ASSUME registry \in Seq(Items)
  PROVE  /\ HonestPair.data \in Seq(Items)
         /\ ListPair(HonestPair) = "ok" =>
              HonestPair.data[1] \in ToSet(registry)
<1> DEFINE found == { p \in ToSet(registry) :
                        p.active /\ p.chain = args.chain /\ p.id = id }
           some == CHOOSE p \in found : TRUE
<1>1. CASE found = {}
  <2>1. HonestPair = NotFound
    BY <1>1 DEF HonestPair
  <2>2. NotFound.status = 404 /\ NotFound.reached /\ NotFound.data = << >>
    BY DEF NotFound, Healthy
  <2>3. ListPair(HonestPair) # "ok"
    BY <2>1, <2>2 DEF ListPair, Get, Failed
  <2> QED
    BY <2>1, <2>2, <2>3
<1>2. CASE found # {}
  <2>1. HonestPair = Healthy(<< some >>)
    BY <1>2 DEF HonestPair
  <2>2. some \in found
    BY <1>2
  <2>3. some \in ToSet(registry)
    BY <2>2
  <2>4. some \in Items
    <3> HIDE DEF some
    <3>1. PICK k \in DOMAIN registry : some = registry[k]
      BY <2>3 DEF ToSet
    <3> QED
      BY <3>1
  <2>5. HonestPair.data = << some >>
    BY <2>1 DEF Healthy
  <2> HIDE DEF some
  <2> QED
    BY <2>3, <2>4, <2>5
<1> QED
  BY <1>1, <1>2

\* An answer is accepted, or refused for what get or a decoder found.
LEMMA ListKinds ==
  ASSUME NEW a
  PROVE  ListPairs(a) # "shown" /\ ListPair(a) # "shown"
<1>1. ASSUME NEW item PROVE DecodePair(item) \in {"ok", "response", "config"}
  BY DEF DecodePair
<1>2. ASSUME NEW items, NEW chain PROVE DecodePairs(items, chain) # "shown"
  BY <1>1 DEF DecodePairs
<1>3. Get(a) \in {"ok", "transport", "api", "response"}
  BY DEF Get
<1>4. ListPairs(a) # "shown"
  BY <1>2, <1>3 DEF ListPairs
<1>5. ListPair(a) # "shown"
  BY <1>1, <1>3 DEF ListPair
<1> QED
  BY <1>4, <1>5

\* ShopInv holds before the first request.
LEMMA ShopInit == ListingInit => ShopInv
BY ListingAssumption DEF ListingInit, ShopInv, ShownIsUsable

\* The last request decides: what it answers is judged before it is shown.
LEMMA ShowPairKeeps ==
  ASSUME ShopInv, ShowPair
  PROVE  ShopInv'
<1> DEFINE a == answer'.response
           chosen == a.data[1]
<1>1. /\ args' = args /\ registry' = registry /\ id' = id /\ pc' = "end"
      /\ \/ answer'.honest /\ a = HonestPair
         \/ ~ answer'.honest /\ a \in Faults
  BY DEF ShowPair, Request, End
<1>2. /\ registry \in Seq(Items)
      /\ args.job = "example" /\ args.pair # 0 => id = args.pair
  BY DEF ShopInv
<1>3. a.data \in Seq(Items)
  BY <1>1, <1>2, HonestRecord, ListingAssumption DEF Answers
<1>4. \/ result'.kind # "shown"
      \/ /\ result' = [ kind |-> "shown", pair |-> chosen ]
         /\ ListPair(a) = "ok"
         /\ args.job = "example" => UsablePair(chosen)
  <2>1. CASE ListPair(a) # "ok"
    BY <2>1, ListKinds DEF ShowPair, End
  <2>2. CASE ListPair(a) = "ok" /\ args.job = "example" /\ ~ UsablePair(chosen)
    BY <2>2 DEF ShowPair, End
  <2>3. CASE ListPair(a) = "ok" /\ ~ (args.job = "example" /\ ~ UsablePair(chosen))
    BY <2>3 DEF ShowPair, End
  <2> QED
    BY <2>1, <2>2, <2>3
<1>5. ASSUME result'.kind = "shown", args.job = "example"
      PROVE  /\ UsablePair(result'.pair) /\ FrameParams(result'.pair)
             /\ result'.pair.id = id
             /\ result'.pair \in ToSet(a.data)
             /\ answer'.honest => result'.pair \in ToSet(registry)
  <2>1. result'.pair = chosen /\ ListPair(a) = "ok" /\ UsablePair(chosen)
    BY <1>4, <1>5
  <2>2. chosen \in ToSet(a.data) /\ chosen.tokens /\ chosen.sizes /\ chosen.id = id
    BY <1>3, <2>1, AcceptedPair
  <2>3. chosen.id # 0
    BY <2>1 DEF UsablePair
  <2>4. answer'.honest => chosen \in ToSet(registry)
    BY <1>1, <1>2, <2>1, HonestRecord
  <2> HIDE DEF chosen, a
  <2> QED
    BY <2>1, <2>2, <2>3, <2>4 DEF FrameParams
<1>6. ShownIsUsable'
  BY <1>1, <1>2, <1>5 DEF ShownIsUsable, UsablePair, FrameParams, ToSet
<1> QED
  BY <1>1, <1>2, <1>6 DEF ShopInv

\* ShopInv is preserved by every request and every edit of the registry.
LEMMA ShopStep ==
  ASSUME ShopInv, [ListingNext]_listingVars
  PROVE  ShopInv'
<1> USE DEF ShopInv, ShownIsUsable
<1>1. CASE RefuseInput
  BY <1>1 DEF RefuseInput, End
<1>2. CASE Start
  BY <1>2 DEF Start
<1>3. CASE ShowChains
  BY <1>3 DEF ShowChains, Request, End, ListChains, Get
<1>4. CASE ListUsablePairs
  BY <1>4, ListKinds DEF ListUsablePairs, Request, End
<1>5. CASE ShowPair
  BY <1>5, ShowPairKeeps
<1>6. CASE ChangeRegistry
  BY <1>6, ListingAssumption DEF ChangeRegistry
<1>7. CASE UNCHANGED listingVars
  BY <1>7 DEF listingVars, UsablePair
<1> QED
  BY <1>1, <1>2, <1>3, <1>4, <1>5, <1>6, <1>7 DEF ListingNext

\* The pair that the listing example shows is usable, is the one asked for and is what the
\* registry holds when it was the registry that answered, whatever was listed or edited before.
THEOREM ShownPairs == ListingSpec => []ShownIsUsable
<1>1. ShopInv => ShownIsUsable
  BY DEF ShopInv
<1>2. ShopInv /\ [ListingNext]_listingVars => ShopInv'
  BY ShopStep
<1>3. ListingInit => ShopInv
  BY ShopInit
<1> QED
  BY <1>1, <1>2, <1>3, PTL DEF ListingSpec

=============================================================================
