-------------------------- MODULE ExecutionProofs --------------------------
(***************************************************************************)
(* The arithmetic of an estimate and of its execution, for every fixed     *)
(* point, amount, fee, book and decay: the provers have no theory of       *)
(* division by a variable, so that each quotient is replaced by the two    *)
(* inequalities that define it (DivBounds) before products are compared.   *)
(* Sums over a book are reasoned about by induction over its levels.       *)
(***************************************************************************)
EXTENDS Execution, WellFoundedInduction, TLAPS

-----------------------------------------------------------------------------
(* Integer arithmetic *)

\* Division rounds down.
LEMMA DivBounds ==
  ASSUME NEW a \in Int, NEW b \in Nat \ {0}
  PROVE  a \div b \in Int /\ b * (a \div b) <= a /\ a < b * (a \div b) + b
OBVIOUS

\* Products keep the order.
LEMMA MulMono ==
  ASSUME NEW x \in Int, NEW y \in Int, NEW b \in Nat, x <= y
  PROVE  b * x <= b * y /\ x * b <= y * b
OBVIOUS

\* Products stay in their sets.
LEMMA MulInt ==
  ASSUME NEW x \in Int, NEW y \in Int
  PROVE  x * y \in Int /\ (x \in Nat /\ y \in Nat => x * y \in Nat)
OBVIOUS

\* A bound on a quotient from above ...
LEMMA DivAtMost ==
  ASSUME NEW a \in Int, NEW b \in Nat \ {0}, NEW q \in Int, a < b * q + b
  PROVE  a \div b <= q
<1> DEFINE d == a \div b
<1>1. d \in Int /\ b * d <= a
  BY DivBounds
<1> HIDE DEF d
<1>2. SUFFICES ASSUME q + 1 <= d PROVE FALSE
  BY <1>1 DEF d
<1>3. b * (q + 1) <= b * d
  BY <1>1, <1>2, MulMono
<1>4. b * (q + 1) = b * q + b
  OBVIOUS
<1> QED
  BY <1>1, <1>3, <1>4, MulInt

\* ... and from below.
LEMMA DivAtLeast ==
  ASSUME NEW a \in Int, NEW b \in Nat \ {0}, NEW q \in Int, b * q <= a
  PROVE  q <= a \div b
<1> DEFINE d == a \div b
<1>1. d \in Int /\ a < b * d + b
  BY DivBounds
<1> HIDE DEF d
<1>2. SUFFICES ASSUME d + 1 <= q PROVE FALSE
  BY <1>1 DEF d
<1>3. b * (d + 1) <= b * q
  BY <1>1, <1>2, MulMono
<1>4. b * (d + 1) = b * d + b
  BY <1>1
<1> QED
  BY <1>1, <1>3, <1>4, MulInt

\* Any part of the closed form fits in the amount, its fee included ...
LEMMA LegFits ==
  ASSUME NEW P \in Nat \ {0}, NEW f \in Nat, NEW a \in Nat, NEW s \in Nat,
         s <= ((a + 1) * P - 1) \div (P + f)
  PROVE  s + (s * f) \div P <= a
<1> DEFINE n == (a + 1) * P - 1
           B == n \div (P + f)
<1>0. n \in Int /\ P + f \in Nat \ {0}
  BY MulInt
<1> HIDE DEF n
<1>1. B \in Int /\ (P + f) * B <= n
  BY <1>0, DivBounds
<1> HIDE DEF B
<1>2. (P + f) * s <= (P + f) * B
  BY <1>0, <1>1, MulMono DEF B, n
<1>3. (P + f) * s = P * s + s * f /\ (a + 1) * P = a * P + P
  OBVIOUS
<1>4. P * (a - s) + P = a * P + P - P * s
  OBVIOUS
<1>5. s * f < P * (a - s) + P
  BY <1>1, <1>2, <1>3, <1>4, MulInt DEF n
<1>6. (s * f) \div P <= a - s
  BY <1>5, DivAtMost, MulInt
<1>7. (s * f) \div P \in Int
  BY DivBounds, MulInt
<1> QED
  BY <1>6, <1>7

\* ... and one unit more does not.
LEMMA LegMaximal ==
  ASSUME NEW P \in Nat \ {0}, NEW f \in Nat, NEW a \in Nat
  PROVE  LET t == ((a + 1) * P - 1) \div (P + f) + 1
         IN  t + (t * f) \div P > a
<1> DEFINE n == (a + 1) * P - 1
           B == n \div (P + f)
           t == B + 1
<1>0. n \in Int /\ P + f \in Nat \ {0}
  BY MulInt
<1> HIDE DEF n
<1>1. B \in Int /\ n < (P + f) * B + (P + f)
  BY <1>0, DivBounds
<1> HIDE DEF B
<1>2. (P + f) * B + (P + f) = P * t + t * f
  BY <1>1
<1> HIDE DEF t
<1>3. t \in Int
  BY <1>1 DEF t
<1>4. (a + 1) * P <= P * t + t * f
  BY <1>1, <1>2, <1>3, MulInt DEF n
<1>5. P * (a + 1 - t) = (a + 1) * P - P * t
  BY <1>3
<1>6. P * (a + 1 - t) <= t * f
  BY <1>3, <1>4, <1>5, MulInt
<1>7. a + 1 - t <= (t * f) \div P
  BY <1>3, <1>6, DivAtLeast, MulInt
<1>8. (t * f) \div P \in Int
  BY <1>3, DivBounds, MulInt
<1> QED
  BY <1>3, <1>7, <1>8 DEF t, B, n

\* Rounding up gives the least bound.
LEMMA CeilBounds ==
  ASSUME NEW a \in Int, NEW b \in Nat \ {0}
  PROVE  LET c == (a + b - 1) \div b
         IN  /\ c \in Int /\ a <= b * c
             /\ \A q \in Int : a <= b * q => c <= q
<1> DEFINE n == a + b - 1
           c == n \div b
<1>1. n \in Int
  OBVIOUS
<1>2. c \in Int /\ n < b * c + b
  BY <1>1, DivBounds
<1>3. a <= b * c
  BY <1>2, MulInt
<1>4. ASSUME NEW q \in Int, a <= b * q PROVE c <= q
  <2>1. n < b * q + b
    BY <1>4, MulInt
  <2> QED
    BY <1>1, <2>1, DivAtMost
<1> QED
  BY <1>2, <1>3, <1>4

\* A deduction never makes more of less ...
LEMMA NetMonotone ==
  ASSUME NEW P \in Nat \ {0}, NEW f \in 0 .. P, NEW h \in Nat, NEW x \in Nat, h <= x
  PROVE  h - (h * f) \div P <= x - (x * f) \div P
<1> DEFINE D2 == (h * f) \div P
           D3 == (x * f) \div P
<1>1. D2 \in Int /\ h * f < P * D2 + P
  BY DivBounds, MulInt
<1>2. D3 \in Int
  BY DivBounds, MulInt
<1> HIDE DEF D2
<1>3. (x - h) * f <= (x - h) * P
  BY MulMono
<1>4. x * f = h * f + (x - h) * f
  OBVIOUS
<1>5. P * (D2 + (x - h)) = P * D2 + (x - h) * P
  BY <1>1
<1>6. x * f < P * (D2 + (x - h)) + P
  BY <1>1, <1>3, <1>4, <1>5, MulInt
<1>7. D3 <= D2 + (x - h)
  BY <1>1, <1>6, DivAtMost, MulInt
<1> QED
  BY <1>1, <1>2, <1>7 DEF D2

\* ... and what remains is the share, rounded up.
LEMMA NetBounds ==
  ASSUME NEW P \in Nat \ {0}, NEW f \in 0 .. P, NEW x \in Nat
  PROVE  LET y == x - (x * f) \div P
         IN  y \in Nat /\ y <= x /\ x * (P - f) <= P * y /\ P * y < x * (P - f) + P
<1> DEFINE D == (x * f) \div P
           y == x - D
<1>1. D \in Int /\ P * D <= x * f /\ x * f < P * D + P
  BY DivBounds, MulInt
<1>2. 0 <= D
  BY DivAtLeast, MulInt
<1>3. x * f < P * x + P
  BY MulMono, MulInt
<1>4. D <= x
  BY <1>3, DivAtMost, MulInt
<1> HIDE DEF D
<1>5. P * y = P * x - P * D /\ x * (P - f) = P * x - x * f
  BY <1>1
<1> QED
  BY <1>1, <1>2, <1>4, <1>5, MulInt DEF D

\* Decay and fee, each rounded, leave at least the tolerance of what the fee left.
LEMMA MinimumMet ==
  ASSUME NEW P \in Nat \ {0}, NEW f \in 0 .. P, NEW x \in Nat,
         NEW d \in Nat, NEW s \in 0 .. P, d <= s
  PROVE  LET h == x - (x * d) \div P
             g1 == x - (x * f) \div P
             g2 == h - (h * f) \div P
         IN  (g1 * (P - s)) \div P <= g2 /\ g2 <= g1
<1> DEFINE h == x - (x * d) \div P
           g1 == x - (x * f) \div P
           g2 == h - (h * f) \div P
           r == P - s
           e == P - f
<1>0. d \in 0 .. P
  OBVIOUS
<1>1. h \in Nat /\ h <= x /\ x * (P - d) <= P * h
  BY <1>0, NetBounds
<1>2. g1 \in Nat /\ P * g1 < x * e + P
  BY NetBounds
<1> HIDE DEF h
<1>3. g2 \in Nat /\ h * e <= P * g2
  BY <1>1, NetBounds
<1>4. g2 <= g1
  BY <1>1, NetMonotone
<1> HIDE DEF g1, g2
<1>5. r \in Nat /\ e \in Nat /\ r <= P
  OBVIOUS
<1>6. x * r <= P * h
  <2>1. x * r <= x * (P - d)
    BY MulMono
  <2> QED
    BY <2>1, <1>1, MulInt
<1> HIDE DEF r, e
<1>7. e * (x * r) <= e * (P * h)
  BY <1>1, <1>5, <1>6, MulMono, MulInt
<1>8. P * (h * e) <= P * (P * g2)
  BY <1>1, <1>3, <1>5, MulMono, MulInt
<1>9. r * (P * g1) <= r * (x * e + P - 1)
  BY <1>2, <1>5, MulMono, MulInt
<1>10. /\ e * (P * h) = P * (h * e)
       /\ r * (P * g1) = P * (g1 * r)
       /\ r * (x * e + P - 1) = e * (x * r) + r * (P - 1)
  BY <1>1, <1>2, <1>5, Z3
<1>11. r * (P - 1) <= P * (P - 1) /\ P * (P - 1) < P * P
  BY <1>5, MulMono, MulInt
<1>12. P * (g1 * r) < P * (P * g2) + P * P
  BY <1>1, <1>2, <1>3, <1>5, <1>7, <1>8, <1>9, <1>10, <1>11, MulInt
<1>13. P * (P * g2 + P) = P * (P * g2) + P * P
  BY <1>3, MulInt
<1>14. g1 * r < P * g2 + P
  <2> DEFINE u == g1 * r
             v == P * g2 + P
  <2>1. u \in Int /\ v \in Int
    BY <1>2, <1>3, <1>5, MulInt
  <2>2. P * u < P * v
    BY <1>12, <1>13
  <2> HIDE DEF u, v
  <2>3. SUFFICES ASSUME v <= u PROVE FALSE
    BY <2>1 DEF u, v
  <2>4. P * v <= P * u
    BY <2>1, <2>3, MulMono
  <2> QED
    BY <2>1, <2>2, <2>4, MulInt
<1>15. (g1 * r) \div P <= g2
  BY <1>2, <1>3, <1>5, <1>14, DivAtMost, MulInt
<1> QED
  BY <1>4, <1>15 DEF g1, g2, h, r
-----------------------------------------------------------------------------
(* The inductive invariant *)

\* What the caller nets of a gross output.
Net(gross) == IF order.feeOn = "out" THEN gross - Deduction(gross, order.fee) ELSE gross

\* The types of the match.
MatchTypes ==
  /\ order \in Orders
  /\ levels \in Seq(Level)
  /\ i \in 0 .. Len(levels) /\ out \in Nat /\ leg \in Nat
  /\ budget \in 0 .. leg

\* No level pays better than the first.
NoBetterLevel ==
  levels # << >> /\ levels[1].price > 0 =>
    IF order.buy THEN (leg - budget) * Scale >= out * levels[1].price
    ELSE out * Scale <= (leg - budget) * levels[1].price

\* The setting and the clock, the age that was checked, the match and its result.
ExecutionInv ==
  /\ cfg \in DecayConfigs /\ slippage \in 0 .. PPM
  /\ updatedAt \in Nat /\ now \in Nat /\ askedAt \in Nat
  /\ Accepted => Fresh(askedAt)
  /\ MatchTypes
  /\ leg = LegBudget(order)
  /\ Book(order.buy, levels)
  /\ NoBetterLevel
  /\ phase = "done" => result = Net(out)

\* A book is a sequence of levels.
LEMMA BooksAreSequences == Books \subseteq Seq(Level)
<1> SUFFICES ASSUME NEW book \in Books PROVE book \in Seq(Level)
  OBVIOUS
<1>1. PICK n \in 0 .. MaxLevels : book \in [1 .. n -> Level]
  BY DEF Books
<1> QED
  BY <1>1, MatchingAssumption

\* The numbers of an order ...
LEMMA OrderNumbers ==
  ASSUME NEW o \in Orders
  PROVE  o.amountIn \in Nat \ {0} /\ o.fee \in 0 .. PPM /\ o.fee \in Nat
<1>1. o.amountIn \in Amounts /\ o.fee \in 0 .. PPM - 1
  BY DEF Orders
<1>2. PPM \in Nat /\ Limit \in Nat /\ Amounts \subseteq 1 .. Limit
  BY MatchingAssumption
<1>3. o.amountIn \in 1 .. Limit
  BY <1>1, <1>2, Zenon
<1> QED
  BY <1>1, <1>2, <1>3

\* ... and of a level.
LEMMA LevelNumbers ==
  ASSUME NEW level \in Level
  PROVE  level.price \in Nat /\ level.depth \in Nat \ {0}
<1>1. level.price \in Prices /\ level.depth \in Depths
  BY DEF Level
<1>2. Limit \in Nat /\ Prices \subseteq 0 .. Limit /\ Depths \subseteq 1 .. Limit
  BY MatchingAssumption
<1>3. level.price \in 0 .. Limit /\ level.depth \in 1 .. Limit
  BY <1>1, <1>2, Zenon
<1> QED
  BY <1>2, <1>3

\* The closed form is a natural number.
LEMMA LegIsNatural == ASSUME NEW o \in Orders PROVE LegBudget(o) \in Nat
<1>1. o.amountIn \in Nat \ {0} /\ o.fee \in Nat
  BY OrderNumbers
<1>2. CASE o.feeOn # "in"
  BY <1>1, <1>2 DEF LegBudget
<1>3. CASE o.feeOn = "in"
  <2> DEFINE n == (o.amountIn + 1) * PPM - 1
  <2>1. n \in Nat /\ PPM + o.fee \in Nat \ {0}
    BY <1>1, MatchingAssumption, MulInt
  <2> HIDE DEF n
  <2>2. n \div (PPM + o.fee) \in Int /\ 0 <= n \div (PPM + o.fee)
    BY <2>1, DivBounds, DivAtLeast
  <2> QED
    BY <1>3, <2>2 DEF LegBudget, n
<1> QED
  BY <1>2, <1>3

\* Quote starts with a setting of the expected type.
LEMMA ExecutionStarts == ExecutionInit => ExecutionInv
<1> SUFFICES ASSUME ExecutionInit PROVE ExecutionInv
  OBVIOUS
<1>1. PICK o \in Orders, book \in Books : \E s \in Settings(o, book) :
        /\ Book(o.buy, book) /\ Start(o, book, "call")
        /\ cfg = s.cfg /\ updatedAt = s.updatedAt /\ slippage = s.slippage
        /\ now = 0 /\ askedAt = 0
  BY DEF ExecutionInit
<1>2. PICK s \in Setting :
        /\ cfg = s.cfg /\ updatedAt = s.updatedAt /\ slippage = s.slippage
        /\ now = 0 /\ askedAt = 0
  BY <1>1, ExecutionAssumption
<1>3. s.cfg \in DecayConfigs /\ s.updatedAt \in Nat /\ s.slippage \in 0 .. PPM
  BY <1>2 DEF Setting
<1>4. /\ order = o /\ levels = book /\ i = 0 /\ out = 0 /\ phase = "call"
      /\ budget = LegBudget(o) /\ leg = budget
  BY <1>1 DEF Start
<1>5. leg \in Nat /\ MatchTypes
  BY <1>4, LegIsNatural, BooksAreSequences DEF MatchTypes
<1>6. NoBetterLevel
  <2> SUFFICES ASSUME levels # << >> PROVE
        0 * Scale >= 0 * levels[1].price /\ 0 * Scale <= 0 * levels[1].price
    BY <1>4, <1>5 DEF NoBetterLevel
  <2>1. levels[1].price \in Int
    <3>1. levels[1] \in Level
      BY <1>5 DEF MatchTypes
    <3> QED
      BY <3>1, LevelNumbers
  <2> QED
    BY <2>1, MatchingAssumption
<1> QED
  BY <1>1, <1>2, <1>3, <1>4, <1>5, <1>6 DEF ExecutionInv, Accepted

\* The level that is visited: its numbers, and its price beside the first one's.
LEMMA VisitedLevel ==
  ASSUME MatchTypes, Book(order.buy, levels), Visit, levels[i + 1].price > 0
  PROVE  /\ levels # << >> /\ i + 1 \in DOMAIN levels
         /\ levels[i + 1].price \in Nat /\ levels[i + 1].depth \in Nat \ {0}
         /\ levels[1].price \in Nat
         /\ levels[1].price > 0 =>
              IF order.buy THEN levels[1].price <= levels[i + 1].price
              ELSE levels[i + 1].price <= levels[1].price
<1>1. i + 1 \in 1 .. Len(levels) /\ 1 \in 1 .. Len(levels)
  BY DEF Visit, MatchTypes
<1>2. levels[i + 1] \in Level /\ levels[1] \in Level /\ DOMAIN levels = 1 .. Len(levels)
  BY <1>1 DEF MatchTypes
<1>3. /\ levels[i + 1].price \in Nat /\ levels[i + 1].depth \in Nat \ {0}
      /\ levels[1].price \in Nat
  BY <1>2, LevelNumbers
<1>4. levels[1].price > 0 =>
        IF order.buy THEN levels[1].price <= levels[i + 1].price
        ELSE levels[i + 1].price <= levels[1].price
  <2>1. CASE i = 0
    BY <2>1, <1>3
  <2>2. CASE i # 0
    <3>1. 1 < i + 1
      BY <2>2 DEF MatchTypes
    <3> QED
      BY <3>1, <1>1, <1>2, <1>3 DEF Book
  <2> QED
    BY <2>1, <2>2
<1> QED
  BY <1>1, <1>2, <1>3, <1>4

\* What is taken from an ask fits in the budget and costs no less than the first price.
LEMMA AskSteps ==
  ASSUME MatchTypes, Book(order.buy, levels), NoBetterLevel, Ask
  PROVE  MatchTypes' /\ NoBetterLevel'
<1> DEFINE price == levels[i + 1].price
           depth == levels[i + 1].depth
           best == levels[1].price
           whole == QuoteCost(depth, price) <= budget
           take == IF whole THEN depth ELSE BaseAffordable(budget, price)
           cost == QuoteCost(take, price)
<1>1. /\ Visit /\ order.buy /\ price > 0
      /\ out' = out + take
      /\ budget' = IF take = 0 THEN budget ELSE budget - cost
      /\ i' = i + 1 /\ UNCHANGED << order, levels, leg >>
  BY DEF Ask
<1>2. /\ levels # << >> /\ price \in Nat /\ depth \in Nat \ {0} /\ best \in Nat
      /\ best > 0 => best <= price
  BY <1>1, VisitedLevel
<1>3. budget \in Nat /\ leg \in Nat /\ budget <= leg /\ out \in Nat /\ i \in Nat
  BY DEF MatchTypes
<1> HIDE DEF price, depth, best
<1>4. /\ \A b \in Nat : /\ QuoteCost(b, price) \in Int
                        /\ b * price <= Scale * QuoteCost(b, price)
                        /\ \A q \in Int : b * price <= Scale * q => QuoteCost(b, price) <= q
  BY <1>2, CeilBounds, MulInt, MatchingAssumption DEF QuoteCost, CeilDiv
<1>5. take \in Nat /\ cost <= budget
  <2>1. CASE whole
    BY <2>1, <1>2
  <2>2. CASE ~ whole
    <3> DEFINE n == budget * Scale
    <3>1. n \in Nat /\ price \in Nat \ {0}
      BY <1>1, <1>2, <1>3, MulInt, MatchingAssumption
    <3>2. take = n \div price
      BY <2>2 DEF BaseAffordable
    <3>3. take \in Int /\ price * take <= n /\ 0 <= take
      <4> HIDE DEF n, take
      <4> QED
        BY <3>1, <3>2, DivBounds, DivAtLeast
    <3> HIDE DEF take
    <3>4. take \in Nat /\ take * price <= Scale * budget
      BY <3>3, <1>2, <1>3, MulInt, MatchingAssumption
    <3> QED
      BY <3>4, <1>3, <1>4
  <2> QED
    BY <2>1, <2>2
<1> HIDE DEF take
<1>6. cost \in Int /\ take * price <= Scale * cost
  BY <1>4, <1>5
<1>7. 0 <= cost
  <2>1. 0 <= take * price
    BY <1>2, <1>5, MulInt
  <2> HIDE DEF cost
  <2>2. SUFFICES ASSUME cost <= -1 PROVE FALSE
    BY <1>6
  <2>3. Scale * cost <= Scale * (-1)
    BY <2>2, <1>6, MulMono, MatchingAssumption
  <2> QED
    BY <2>1, <2>3, <1>6, MulInt, <1>2, <1>5, MatchingAssumption
<1> HIDE DEF cost
<1>8. budget' \in 0 .. leg /\ leg - budget' \in Nat
  BY <1>1, <1>3, <1>5, <1>6, <1>7
<1>9. MatchTypes'
  <2>1. i + 1 \in 0 .. Len(levels) /\ out + take \in Nat
    BY <1>1, <1>3, <1>5 DEF Visit, MatchTypes
  <2> QED
    BY <1>1, <1>8, <2>1 DEF MatchTypes
<1>10. NoBetterLevel'
  <2> SUFFICES ASSUME best > 0 PROVE (leg - budget') * Scale >= (out + take) * best
    BY <1>1, <1>9 DEF NoBetterLevel, best
  <2>1. (leg - budget) * Scale >= out * best
    BY <1>1, <1>2 DEF NoBetterLevel, best
  <2>2. take * best <= take * price
    BY <1>2, <1>5, MulMono
  <2>3. CASE take = 0
    <3>1. budget' = budget /\ out + take = out
      BY <2>3, <1>1, <1>3
    <3> QED
      BY <3>1, <2>1
  <2>4. CASE take # 0
    <3>1. leg - budget' = (leg - budget) + cost
      BY <2>4, <1>1, <1>3, <1>6
    <3>2. ((leg - budget) + cost) * Scale = (leg - budget) * Scale + Scale * cost
      BY <1>3, <1>6, MatchingAssumption
    <3>3. (out + take) * best = out * best + take * best
      BY <1>2, <1>3, <1>5
    <3> QED
      BY <2>1, <2>2, <3>1, <3>2, <3>3, <1>2, <1>3, <1>5, <1>6, MulInt, MatchingAssumption
  <2> QED
    BY <2>3, <2>4
<1> QED
  BY <1>9, <1>10

\* What is sold into a bid fits in the budget and yields no more than the first price.
LEMMA BidSteps ==
  ASSUME MatchTypes, Book(order.buy, levels), NoBetterLevel, Bid
  PROVE  MatchTypes' /\ NoBetterLevel'
<1> DEFINE price == levels[i + 1].price
           depth == levels[i + 1].depth
           best == levels[1].price
           take == IF depth > budget THEN budget ELSE depth
           value == QuoteValue(take, price)
<1>1. /\ Visit /\ ~ order.buy /\ price > 0
      /\ out' = out + value
      /\ budget' = budget - take
      /\ i' = i + 1 /\ UNCHANGED << order, levels, leg >>
  BY DEF Bid
<1>2. /\ levels # << >> /\ price \in Nat /\ depth \in Nat \ {0} /\ best \in Nat
      /\ best > 0 => price <= best
  BY <1>1, VisitedLevel
<1>3. budget \in Nat /\ leg \in Nat /\ budget <= leg /\ out \in Nat /\ i \in Nat
  BY DEF MatchTypes
<1>4. take \in Nat /\ take <= budget
  BY <1>2, <1>3
<1> HIDE DEF price, depth, best, take
<1>5. value \in Nat /\ Scale * value <= take * price
  <2> DEFINE n == take * price
  <2>1. n \in Nat
    BY <1>2, <1>4, MulInt
  <2> HIDE DEF n
  <2>2. n \div Scale \in Int /\ Scale * (n \div Scale) <= n /\ 0 <= n \div Scale
    BY <2>1, DivBounds, DivAtLeast, MatchingAssumption
  <2> QED
    BY <2>2 DEF QuoteValue, n
<1> HIDE DEF value
<1>6. MatchTypes'
  <2>1. i + 1 \in 0 .. Len(levels) /\ out + value \in Nat /\ budget - take \in 0 .. leg
    BY <1>1, <1>3, <1>4, <1>5 DEF Visit, MatchTypes
  <2> QED
    BY <1>1, <2>1 DEF MatchTypes
<1>7. NoBetterLevel'
  <2> SUFFICES ASSUME best > 0 PROVE (out + value) * Scale <= (leg - budget') * best
    BY <1>1, <1>6 DEF NoBetterLevel, best
  <2>1. out * Scale <= (leg - budget) * best
    BY <1>1, <1>2 DEF NoBetterLevel, best
  <2>2. take * price <= take * best
    BY <1>2, <1>4, MulMono
  <2>3. leg - budget' = (leg - budget) + take
    BY <1>1, <1>3, <1>4
  <2>4. /\ (out + value) * Scale = out * Scale + Scale * value
        /\ ((leg - budget) + take) * best = (leg - budget) * best + take * best
    BY <1>2, <1>3, <1>4, <1>5, MatchingAssumption
  <2> QED
    BY <2>1, <2>2, <2>3, <2>4, <1>2, <1>3, <1>4, <1>5, MulInt, MatchingAssumption
<1> QED
  BY <1>6, <1>7

\* A step samples the clock or leaves the accepted age alone, and matches soundly.
LEMMA ExecutionSteps == ExecutionInv /\ [ExecutionNext]_allVars => ExecutionInv'
<1> SUFFICES ASSUME ExecutionInv, [ExecutionNext]_allVars PROVE ExecutionInv'
  OBVIOUS
<1> USE DEF ExecutionInv
<1>1. CASE Validate
  BY <1>1 DEF Validate, setting, Accepted, Fresh, MatchTypes, NoBetterLevel
<1>2. CASE Match
  <2>1. Next /\ UNCHANGED << cfg, slippage, updatedAt, now, askedAt >>
    BY <1>2 DEF Match, setting
  <2>2. phase \in {"match", "fee"} /\ UNCHANGED << order, levels, leg >>
    BY <2>1 DEF Next, MalformedLevel, Ask, Bid, LeaveLoop, ApplyOutputFee, Visit
  <2>3. MatchTypes' /\ NoBetterLevel'
    <3>1. CASE Ask
      BY <3>1, AskSteps
    <3>2. CASE Bid
      BY <3>2, BidSteps
    <3>3. CASE MalformedLevel \/ LeaveLoop \/ ApplyOutputFee
      BY <3>3 DEF MalformedLevel, LeaveLoop, ApplyOutputFee, MatchTypes, NoBetterLevel
    <3> QED
      BY <2>1, <3>1, <3>2, <3>3 DEF Next
  <2>4. phase' = "done" => result' = Net(out)'
    BY <2>1 DEF Next, MalformedLevel, Ask, Bid, LeaveLoop, ApplyOutputFee, Return, Net
  <2> QED
    BY <2>1, <2>2, <2>3, <2>4 DEF Accepted, Fresh
<1>3. CASE Tick
  BY <1>3 DEF Tick, vars, setting, Accepted, Fresh, MatchTypes, NoBetterLevel, Net
<1>4. CASE UNCHANGED allVars
  BY <1>4 DEF allVars, vars, setting, Accepted, Fresh, MatchTypes, NoBetterLevel, Net
<1> QED
  BY <1>1, <1>2, <1>3, <1>4 DEF ExecutionNext

\* The invariant holds throughout.
LEMMA ExecutionInvariant == ExecutionSpec => []ExecutionInv
  BY ExecutionStarts, ExecutionSteps, PTL DEF ExecutionSpec

\* The ramp stays between zero and the largest decay.
LEMMA DecayAtMost ==
  ASSUME ExecutionInv, Executable(now)
  PROVE  DecayPPM(now) \in Nat /\ DecayPPM(now) <= cfg.maxPpm /\ DecayPPM(now) <= PPM
<1>1. /\ cfg.start \in Nat /\ cfg.end \in Nat /\ cfg.maxPpm \in Nat
      /\ now \in Nat /\ updatedAt \in Nat
  BY DEF ExecutionInv, DecayConfigs
<1>2. cfg.start < cfg.end /\ cfg.maxPpm < PPM /\ updatedAt <= now
  BY DEF Executable, Valid
<1> DEFINE k == (now - updatedAt) - cfg.start
           w == cfg.end - cfg.start
           m == cfg.maxPpm
           n == m * k
<1>3. CASE now - updatedAt <= cfg.start \/ now - updatedAt >= cfg.end
  BY <1>1, <1>2, <1>3, MatchingAssumption DEF DecayPPM
<1>4. CASE ~ (now - updatedAt <= cfg.start \/ now - updatedAt >= cfg.end)
  <2>1. k \in Nat /\ w \in Nat \ {0} /\ m \in Nat /\ k <= w
    BY <1>1, <1>2, <1>4
  <2>2. DecayPPM(now) = n \div w
    BY <1>4 DEF DecayPPM
  <2> HIDE DEF k, w, m
  <2>3. n \in Nat /\ n <= w * m
    BY <2>1, MulMono, MulInt
  <2> HIDE DEF n
  <2>4. n < w * m + w
    BY <2>1, <2>3, MulInt
  <2>5. n \div w \in Int /\ n \div w <= m /\ 0 <= n \div w
    BY <2>1, <2>3, <2>4, DivBounds, DivAtMost, DivAtLeast
  <2> QED
    BY <2>2, <2>5, <1>1, <1>2, MatchingAssumption DEF m
<1> QED
  BY <1>3, <1>4

-----------------------------------------------------------------------------
(* Theorems *)

\* For every configuration, frame and time: what Quote accepts is executable and
\* undecayed at the second it was accepted.
THEOREM FreshPaysGross == ExecutionSpec => []FreshIsUndecayed
<1>1. ASSUME ExecutionInv PROVE FreshIsUndecayed
  <2> SUFFICES ASSUME Accepted, Valid PROVE Executable(askedAt) /\ DecayPPM(askedAt) = 0
    BY DEF FreshIsUndecayed
  <2> QED
    BY <1>1 DEF ExecutionInv, DecayConfigs, Valid, Fresh, Executable, DecayPPM
<1> QED
  BY <1>1, ExecutionInvariant, PTL

\* For every book, amount, fee and fixed point: the match never spends more than
\* amountIn, its fee included, and the budget it starts from is the largest possible.
THEOREM ExactBudget == ExecutionSpec => []BudgetIsExact
<1>1. ASSUME ExecutionInv PROVE BudgetIsExact
  <2> DEFINE a == order.amountIn
             f == order.fee
             s == leg - budget
  <2>1. /\ order \in Orders /\ leg = LegBudget(order) /\ budget \in 0 .. leg /\ leg \in Nat
    BY <1>1 DEF ExecutionInv, MatchTypes
  <2>2. a \in Nat /\ f \in Nat /\ s \in Nat /\ s <= leg
    BY <2>1, OrderNumbers
  <2>3. CASE order.feeOn # "in"
    BY <2>1, <2>2, <2>3 DEF BudgetIsExact, Spent, LegBudget
  <2>4. CASE order.feeOn = "in"
    <3>1. leg = ((a + 1) * PPM - 1) \div (PPM + f)
      BY <2>1, <2>4 DEF LegBudget
    <3> HIDE DEF a, f, s
    <3>2. s + (s * f) \div PPM <= a
      BY <3>1, <2>2, LegFits, MatchingAssumption
    <3>3. (leg + 1) + ((leg + 1) * f) \div PPM > a
      BY <3>1, <2>2, LegMaximal, MatchingAssumption
    <3> QED
      BY <2>1, <2>4, <3>2, <3>3 DEF BudgetIsExact, Spent, Deduction, a, f, s
  <2> QED
    BY <2>3, <2>4
<1> QED
  BY <1>1, ExecutionInvariant, PTL

\* For every book: rounding level by level never beats the best price.
THEOREM NoBetterThanBest == ExecutionSpec => []NeverBetterThanBest
<1>1. ASSUME ExecutionInv PROVE NeverBetterThanBest
  <2> SUFFICES ASSUME Ended, i > 0, levels[1].price > 0
               PROVE IF order.buy THEN Spent * Scale >= out * levels[1].price
                     ELSE out * Scale <= Spent * levels[1].price
    BY DEF NeverBetterThanBest
  <2>1. levels # << >>
    BY <1>1 DEF ExecutionInv, MatchTypes
  <2> QED
    BY <1>1, <2>1 DEF ExecutionInv, NoBetterLevel, Spent
<1> QED
  BY <1>1, ExecutionInvariant, PTL

\* For every setting: however late the swap is included, a tolerance of the largest
\* decay is enough for the minimum, and the estimate is never exceeded.
THEOREM MinimumSurvives == ExecutionSpec => []MinOutSurvivesDecay
<1>1. ASSUME ExecutionInv PROVE MinOutSurvivesDecay
  <2> DEFINE f == IF order.feeOn = "out" THEN order.fee ELSE 0
             d == DecayPPM(now)
             h == out - (out * d) \div PPM
  <2> SUFFICES ASSUME phase = "done", Executable(now)
               PROVE (slippage >= cfg.maxPpm => Payout >= MinOut) /\ Payout <= result
    BY DEF MinOutSurvivesDecay
  <2>1. /\ order \in Orders /\ out \in Nat /\ slippage \in 0 .. PPM
        /\ result = Net(out)
    BY <1>1 DEF ExecutionInv, MatchTypes
  <2>2. f \in 0 .. PPM
    BY <2>1, OrderNumbers, MatchingAssumption
  <2>3. d \in Nat /\ d <= cfg.maxPpm /\ d \in 0 .. PPM
    BY <1>1, DecayAtMost, MatchingAssumption
  <2> HIDE DEF d
  <2>4. ASSUME NEW x \in Nat PROVE Net(x) = x - (x * f) \div PPM
    <3>1. (x * 0) \div PPM = 0
      BY MatchingAssumption
    <3> QED
      BY <3>1, <2>4 DEF Net, Deduction
  <2> HIDE DEF f
  <2>5. h \in Nat
    BY <2>1, <2>3, NetBounds, MatchingAssumption
  <2>6. Payout = Net(h)
    BY DEF Payout, ApplyDecay, Deduction, Net, d
  <2>7. Payout = h - (h * f) \div PPM /\ result = out - (out * f) \div PPM
    BY <2>1, <2>4, <2>5, <2>6
  <2>8. h <= out
    BY <2>1, <2>3, NetBounds, MatchingAssumption
  <2>9. Payout <= result
    BY <2>1, <2>2, <2>5, <2>7, <2>8, NetMonotone, MatchingAssumption
  <2>10. ASSUME slippage >= cfg.maxPpm PROVE Payout >= MinOut
    <3>1. d <= slippage
      BY <1>1, <2>1, <2>3, <2>10 DEF ExecutionInv, DecayConfigs
    <3>2. (result * (PPM - slippage)) \div PPM <= Payout
      BY <2>1, <2>2, <2>3, <2>7, <3>1, MinimumMet, MatchingAssumption
    <3>3. Payout \in Int /\ MinOut \in Int
      <4>1. Payout \in Nat /\ result \in Nat
        BY <2>1, <2>2, <2>5, <2>7, NetBounds, MatchingAssumption
      <4> QED
        BY <4>1, <2>1, DivBounds, MulInt, MatchingAssumption DEF MinOut
    <3> QED
      BY <3>2, <3>3 DEF MinOut
  <2> QED
    BY <2>9, <2>10
<1> QED
  BY <1>1, ExecutionInvariant, PTL

-----------------------------------------------------------------------------
(* Induction *)

\* A set of natural numbers that is not empty has a least element.
LEMMA LeastNumber ==
  ASSUME NEW T \in SUBSET Nat, T # {}
  PROVE  \E x \in T : \A y \in T : x <= y
<1> DEFINE R == OpToRel(<, Nat)
<1>1. IsWellFoundedOn(R, Nat)
  BY NatLessThanWellFounded
<1>2. \A x, y \in Nat : << y, x >> \in R <=> y < x
  BY DEF OpToRel
<1> HIDE DEF R
<1>3. PICK x \in T : \A y \in T : ~ (<< y, x >> \in R)
  BY <1>1, WFMin
<1>4. ASSUME NEW y \in T PROVE x <= y
  <2>1. x \in Nat /\ y \in Nat
    OBVIOUS
  <2>2. ~ (y < x)
    BY <1>2, <1>3, <2>1
  <2> QED
    BY <2>1, <2>2
<1> QED
  BY <1>4

\* Induction over the natural numbers, stated for a set instead of a predicate.
LEMMA Induction ==
  ASSUME NEW S \in SUBSET Nat, 0 \in S, \A n \in S : n + 1 \in S
  PROVE  S = Nat
<1> DEFINE T == Nat \ S
<1>1. SUFFICES ASSUME T # {} PROVE FALSE
  OBVIOUS
<1>2. PICK k \in T : \A y \in T : k <= y
  BY <1>1, LeastNumber
<1>3. k \in Nat /\ k # 0
  BY <1>2
<1>4. k - 1 \in Nat /\ k - 1 \notin T
  BY <1>2, <1>3
<1> QED
  BY <1>2, <1>3, <1>4

-----------------------------------------------------------------------------
(* The depth of a book *)

\* f[n] is the depth of the first n levels.
Sums(f, k) ==
  /\ f \in [0 .. k -> Nat] /\ f[0] = 0
  /\ \A n \in 1 .. k : f[n] = f[n - 1] + levels[n].depth

\* The first levels of a book have a depth, however many they are.
LEMMA SumsExist ==
  ASSUME levels \in Seq(Level)
  PROVE  \E f : Sums(f, Len(levels))
<1> DEFINE P(k) == k <= Len(levels) => \E f : Sums(f, k)
           S == {k \in Nat : P(k)}
<1>1. P(0)
  <2> DEFINE f == [n \in 0 .. 0 |-> 0]
  <2>1. Sums(f, 0)
   BY DEF Sums
  <2> QED
    BY <2>1
<1>2. ASSUME NEW k \in Nat, P(k) PROVE P(k + 1)
  <2> SUFFICES ASSUME k + 1 <= Len(levels) PROVE \E f : Sums(f, k + 1)
    OBVIOUS
  <2>1. PICK f : Sums(f, k)
    BY <1>2
  <2>2. k + 1 \in 1 .. Len(levels)
    OBVIOUS
  <2>3. levels[k + 1] \in Level
    BY <2>2
  <2>4. levels[k + 1].depth \in Nat
    BY <2>3, LevelNumbers
  <2> DEFINE d == levels[k + 1].depth
             g == [n \in 0 .. k + 1 |-> IF n = k + 1 THEN f[k] + d ELSE f[n]]
  <2>5. g \in [0 .. k + 1 -> Nat] /\ g[0] = 0
    BY <2>1, <2>4 DEF Sums
  <2>6. ASSUME NEW n \in 1 .. k + 1 PROVE g[n] = g[n - 1] + levels[n].depth
    BY <2>1, <2>4, <2>6 DEF Sums
  <2> QED
    BY <2>5, <2>6 DEF Sums
<1> HIDE DEF P
<1>3. 0 \in S /\ \A n \in S : n + 1 \in S
  BY <1>1, <1>2
<1>4. S = Nat
  BY <1>3, Induction
<1>5. P(Len(levels))
  BY <1>4
<1> QED
  BY <1>5 DEF P

\* TotalDepth is the last of the sums.
LEMMA TotalIsSum ==
  ASSUME levels \in Seq(Level)
  PROVE  \E f : Sums(f, Len(levels)) /\ TotalDepth = f[Len(levels)]
<1> DEFINE Is(f) == f = [n \in 0 .. Len(levels) |->
                           IF n = 0 THEN 0 ELSE f[n - 1] + levels[n].depth]
           sum == CHOOSE f : Is(f)
<1>0. Len(levels) \in Nat
  OBVIOUS
<1>1. PICK f : Sums(f, Len(levels))
  BY SumsExist
<1>2. Is(f)
  BY <1>0, <1>1 DEF Sums
<1>3. TotalDepth = sum[Len(levels)]
  BY DEF TotalDepth
<1> HIDE DEF Is
<1>4. Is(sum)
  BY <1>2
<1> HIDE DEF sum
<1>5. sum = [n \in 0 .. Len(levels) |-> IF n = 0 THEN 0 ELSE sum[n - 1] + levels[n].depth]
  BY <1>4 DEF Is
<1> DEFINE N == Len(levels)
           S == {n \in Nat : n <= N => sum[n] = f[n]}
<1>6. 0 \in S
  BY <1>0, <1>1, <1>5 DEF Sums
<1>7. ASSUME NEW n \in S PROVE n + 1 \in S
  <2>1. n \in Nat /\ (n <= N => sum[n] = f[n])
    OBVIOUS
  <2> SUFFICES ASSUME n + 1 <= N PROVE sum[n + 1] = f[n + 1]
    BY <2>1
  <2>2. n + 1 \in 1 .. N /\ n + 1 \in 0 .. N /\ n \in 0 .. N /\ (n + 1) - 1 = n /\ n + 1 # 0
    BY <1>0, <2>1
  <2>3. sum[n + 1] = sum[n] + levels[n + 1].depth
    BY <1>5, <2>2
  <2>4. f[n + 1] = f[n] + levels[n + 1].depth
    BY <1>1, <2>2 DEF Sums
  <2> QED
    BY <2>1, <2>2, <2>3, <2>4
<1>8. N \in S
  <2> HIDE DEF S
  <2>1. S \in SUBSET Nat
    BY DEF S
  <2> QED
    BY <1>0, <1>6, <1>7, <2>1, Induction
<1> QED
  BY <1>0, <1>1, <1>3, <1>8

-----------------------------------------------------------------------------
(* What is left of the budget *)

\* Every level of the book could be converted.
WellFormed == \A j \in DOMAIN levels : levels[j].price > 0

\* As long as the loop runs, the output is the whole depth of the levels visited.  It
\* ends with the book or the budget used up, or with less left than one unit costs.
ResidualInv ==
  order.buy /\ WellFormed =>
    /\ phase \in {"call", "match"} => \A f : Sums(f, Len(levels)) => out = f[i]
    /\ Ended =>
         \/ /\ i = Len(levels) \/ budget = 0
            /\ \A f : Sums(f, Len(levels)) => out = f[i]
         \/ i > 0 /\ levels[i].price > Scale * budget

\* One unit at a price above the budget cannot be bought.
LEMMA CostsMore ==
  ASSUME NEW price \in Nat, NEW b \in Nat, price > Scale * b
  PROVE  QuoteCost(1, price) > b
<1> DEFINE cost == QuoteCost(1, price)
<1>1. cost \in Int /\ price <= Scale * cost
  BY CeilBounds, MatchingAssumption DEF QuoteCost, CeilDiv
<1> HIDE DEF cost
<1>2. SUFFICES ASSUME cost <= b PROVE FALSE
  BY <1>1 DEF cost
<1>3. Scale * cost <= Scale * b
  BY <1>1, <1>2, MulMono, MatchingAssumption
<1> QED
  BY <1>1, <1>3, MulInt, MatchingAssumption

\* A level is taken whole, or what the budget leaves is below its price.
LEMMA AskLeaves ==
  ASSUME MatchTypes, Book(order.buy, levels), Ask
  PROVE  LET price == levels[i + 1].price
             depth == levels[i + 1].depth
         IN  \/ out' = out + depth /\ phase' \in {"match", "overflow"}
             \/ phase' = "fee" /\ budget' \in Nat /\ price > Scale * budget'
<1> DEFINE price == levels[i + 1].price
           depth == levels[i + 1].depth
           whole == QuoteCost(depth, price) <= budget
           take == IF whole THEN depth ELSE BaseAffordable(budget, price)
           cost == QuoteCost(take, price)
           n == budget * Scale
<1>1. /\ Visit /\ price > 0
      /\ out' = out + take
      /\ budget' = IF take = 0 THEN budget ELSE budget - cost
      /\ phase' = IF take < depth THEN "fee"
                  ELSE IF out' > Limit THEN "overflow" ELSE "match"
  BY DEF Ask
<1>2. price \in Nat \ {0} /\ depth \in Nat \ {0} /\ budget \in Nat /\ Scale \in Nat \ {0}
  BY <1>1, VisitedLevel, MatchingAssumption DEF MatchTypes
<1> HIDE DEF price, depth
<1>3. CASE whole
  <2>1. take = depth
    BY <1>3
  <2> HIDE DEF take
  <2> QED
    BY <1>1, <1>2, <2>1 DEF price, depth
<1>4. CASE ~ whole
  <2>1. take = n \div price /\ n \in Nat
    BY <1>2, <1>4, MulInt DEF BaseAffordable
  <2>2. take \in Int /\ price * take <= n /\ n < price * take + price /\ 0 <= take
    <3> HIDE DEF n, take
    <3> QED
      BY <1>2, <2>1, DivBounds, DivAtLeast
  <2>3. \A b \in Nat : /\ QuoteCost(b, price) \in Int
                       /\ b * price <= Scale * QuoteCost(b, price)
                       /\ \A q \in Int : b * price <= Scale * q => QuoteCost(b, price) <= q
    BY <1>2, CeilBounds, MulInt DEF QuoteCost, CeilDiv
  <2> DEFINE full == QuoteCost(depth, price)
  <2>4. full \in Int /\ ~ (full <= budget) /\ ~ (depth * price <= Scale * budget)
    BY <1>2, <1>4, <2>3
  <2>5. n = Scale * budget
    BY <1>2
  <2> HIDE DEF take, full, whole
  <2>6. take \in Nat /\ take < depth
    <3>1. SUFFICES ASSUME depth <= take PROVE FALSE
      BY <1>2, <2>2
    <3>2. price * depth <= price * take
      BY <1>2, <2>2, <3>1, MulMono
    <3>3. price * depth = depth * price
      BY <1>2
    <3> QED
      BY <1>2, <2>1, <2>2, <2>4, <2>5, <3>2, <3>3, MulInt
  <2>7. phase' = "fee"
    BY <1>1, <2>6
  <2>8. cost \in Int /\ take * price <= Scale * cost /\ cost <= budget
    <3>1. take * price = price * take
      BY <1>2, <2>2
    <3>2. take * price <= Scale * budget
      BY <2>2, <2>5, <3>1
    <3> QED
      BY <1>2, <2>3, <2>6, <3>2
  <2> HIDE DEF cost
  <2>9. CASE take = 0
    <3>1. budget' = budget
      BY <1>1, <2>9
    <3>2. n < price
      BY <1>2, <2>1, <2>2, <2>9
    <3> QED
      BY <1>2, <2>5, <2>7, <3>1, <3>2 DEF price
  <2>10. CASE take # 0
    <3>1. budget' = budget - cost /\ budget' \in Nat
      BY <1>1, <1>2, <2>8, <2>10
    <3>2. Scale * budget' = Scale * budget - Scale * cost
      BY <1>2, <2>8, <3>1
    <3>3. take * price = price * take
      BY <1>2, <2>2
    <3>4. price > Scale * budget'
      BY <1>2, <2>1, <2>2, <2>5, <2>8, <3>2, <3>3, MulInt
    <3> QED
      BY <2>7, <3>1, <3>4 DEF price
  <2> QED
    BY <2>9, <2>10
<1> QED
  BY <1>3, <1>4

\* Every step accounts for the depth it takes, or leaves less than one unit costs.
LEMMA ResidualSteps ==
  ASSUME ExecutionInv, ResidualInv, [ExecutionNext]_allVars
  PROVE  ResidualInv'
<1> USE DEF ExecutionInv
<1>0. levels \in Seq(Level) /\ i \in 0 .. Len(levels) /\ Len(levels) \in Nat
      /\ budget \in Nat
  BY DEF MatchTypes
<1>1. UNCHANGED << order, levels >>
  BY DEF ExecutionNext, Validate, Match, Tick, Next, MalformedLevel, Ask, Bid, LeaveLoop,
         ApplyOutputFee, allVars, vars
<1>2. SUFFICES ASSUME order.buy, WellFormed
      PROVE /\ phase' \in {"call", "match"} =>
                 \A f : Sums(f, Len(levels)) => out' = f[i']
            /\ Ended' =>
                 \/ /\ i' = Len(levels) \/ budget' = 0
                    /\ \A f : Sums(f, Len(levels)) => out' = f[i']
                 \/ i' > 0 /\ levels[i'].price > Scale * budget'
  BY <1>1 DEF ResidualInv, WellFormed, Sums, Ended
<1>3. CASE Ask
  <2>1. phase = "match" /\ i' = i + 1 /\ i < Len(levels)
    BY <1>3 DEF Ask, Visit
  <2>2. CASE out' = out + levels[i + 1].depth /\ phase' \in {"match", "overflow"}
    <3>1. ASSUME NEW f, Sums(f, Len(levels)) PROVE out' = f[i']
      <4>1. out = f[i]
        BY <1>2, <2>1, <3>1 DEF ResidualInv
      <4>2. f[i + 1] = f[i] + levels[i + 1].depth
        BY <1>0, <2>1, <3>1 DEF Sums
      <4> QED
        BY <2>1, <2>2, <4>1, <4>2
    <3> QED
      BY <2>2, <3>1 DEF Ended
  <2>3. CASE phase' = "fee" /\ budget' \in Nat /\ levels[i + 1].price > Scale * budget'
    BY <1>0, <2>1, <2>3 DEF Ended
  <2> QED
    BY <1>3, <2>2, <2>3, AskLeaves
<1>4. CASE LeaveLoop
  <2>1. phase = "match" /\ UNCHANGED << i, budget, out >> /\ phase' = "fee"
    BY <1>4 DEF LeaveLoop
  <2>2. i = Len(levels) \/ budget = 0
    BY <1>0, <1>4, <2>1 DEF LeaveLoop, Visit
  <2>3. \A f : Sums(f, Len(levels)) => out = f[i]
    BY <1>2, <2>1 DEF ResidualInv
  <2> QED
    BY <2>1, <2>2, <2>3
<1>5. CASE ApplyOutputFee
  <2>1. phase = "fee" /\ UNCHANGED << i, budget, out >> /\ phase' \notin {"call", "match"}
    BY <1>5 DEF ApplyOutputFee, Return
  <2> QED
    BY <1>2, <2>1 DEF ResidualInv, Ended
<1>6. CASE MalformedLevel \/ Bid
  <2>1. FALSE
    <3>1. CASE Bid
      BY <1>2, <3>1 DEF Bid
    <3>2. CASE MalformedLevel
      <4>1. i + 1 \in DOMAIN levels /\ levels[i + 1].price = 0
        BY <1>0, <3>2 DEF MalformedLevel, Visit
      <4> QED
        BY <1>2, <4>1 DEF WellFormed
    <3> QED
      BY <1>6, <3>1, <3>2
  <2> QED
    BY <2>1
<1>7. CASE Validate
  <2>1. phase = "call" /\ UNCHANGED << i, budget, out >> /\ phase' \in {"match", "refused"}
    BY <1>7 DEF Validate
  <2> QED
    BY <1>2, <2>1 DEF ResidualInv, Ended
<1>8. CASE Tick \/ UNCHANGED allVars
  <2>1. UNCHANGED << phase, i, budget, out >>
    BY <1>8 DEF Tick, allVars, vars
  <2> QED
    BY <1>2, <2>1 DEF ResidualInv, Ended
<1> QED
  BY <1>3, <1>4, <1>5, <1>6, <1>7, <1>8 DEF ExecutionNext, Match, Next

\* Nothing is bought at first.
LEMMA ResidualStarts == ExecutionInit => ResidualInv
<1> SUFFICES ASSUME ExecutionInit PROVE ResidualInv
  OBVIOUS
<1>1. out = 0 /\ i = 0 /\ phase = "call"
  BY DEF ExecutionInit, Start
<1> QED
  BY <1>1 DEF ResidualInv, Sums, Ended

\* When a buy ends before the book does, what is left of the budget buys no unit of this
\* level or of a later one, for every book and fixed point (matchQuote leaves the loop
\* after a partial level).
THEOREM NothingMore == ExecutionSpec => []ResidualBuysNothing
<1>1. ASSUME ExecutionInv, ResidualInv PROVE ResidualBuysNothing
  <2> SUFFICES ASSUME order.buy, Ended, out < TotalDepth, WellFormed,
                      NEW j \in DOMAIN levels, j >= i
               PROVE  QuoteCost(1, levels[j].price) > budget
    BY DEF ResidualBuysNothing, WellFormed
  <2>1. levels \in Seq(Level) /\ i \in 0 .. Len(levels) /\ budget \in Nat /\ out \in Nat
    BY <1>1 DEF ExecutionInv, MatchTypes
  <2>2. levels[j].price \in Nat /\ levels[j].price > 0
    <3>1. levels[j] \in Level
      BY <2>1
    <3> QED
      BY <3>1, LevelNumbers DEF WellFormed
  <2>3. CASE budget = 0
    <3>1. levels[j].price > Scale * budget
      BY <2>2, <2>3, MatchingAssumption
    <3> QED
      BY <2>1, <2>2, <3>1, CostsMore
  <2>4. CASE i > 0 /\ levels[i].price > Scale * budget
    <3>1. i \in DOMAIN levels
      BY <2>1, <2>4
    <3>2. levels[i] \in Level /\ levels[i].price > 0
      BY <2>1, <3>1 DEF WellFormed
    <3>3. levels[i].price \in Nat /\ levels[i].price <= levels[j].price
      <4>1. levels[i].price \in Nat
        BY <3>2, LevelNumbers
      <4>2. i < j => levels[i].price < levels[j].price
        BY <1>1, <2>2, <3>1, <3>2 DEF ExecutionInv, Book
      <4> QED
        BY <2>1, <2>2, <4>1, <4>2
    <3>4. levels[j].price > Scale * budget
      BY <2>1, <2>2, <2>4, <3>3, MulInt, MatchingAssumption
    <3> QED
      BY <2>1, <2>2, <3>4, CostsMore
  <2>5. CASE i = Len(levels) /\ \A f : Sums(f, Len(levels)) => out = f[i]
    <3>1. PICK f : Sums(f, Len(levels)) /\ TotalDepth = f[Len(levels)]
      BY <2>1, TotalIsSum
    <3>2. out = TotalDepth
      BY <2>5, <3>1
    <3> QED
      BY <2>1, <3>2
  <2> QED
    BY <1>1, <2>3, <2>4, <2>5 DEF ResidualInv
<1>2. ExecutionSpec => []ResidualInv
  BY ResidualStarts, ResidualSteps, ExecutionInvariant, PTL DEF ExecutionSpec
<1> QED
  BY <1>1, <1>2, ExecutionInvariant, PTL

=============================================================================
