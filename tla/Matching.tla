------------------------------ MODULE Matching ------------------------------
(***************************************************************************)
(* The local estimate of a swap: matchQuote and its rounding rules         *)
(* (src/pkg/router/quote.go).                                              *)
(*                                                                         *)
(* One behaviour is one call of Quote on a book in native units, one step  *)
(* per level of the loop.  Scale, PPM and Limit stand for 1e18, 1e6 and    *)
(* 2^256 - 1.  A level that quoteDecimal cannot convert to positive native *)
(* units has price zero.                                                   *)
(***************************************************************************)
EXTENDS Integers, Sequences

CONSTANTS
  Scale,      \* priceScale18, the fixed point of prices
  PPM,        \* quotePPM
  Limit,      \* the largest uint256
  Amounts,    \* values of amountIn
  Prices,     \* prices of a level in native units, zero if malformed
  Depths,     \* depths of a level in native base units
  MaxLevels   \* levels of one side

ASSUME MatchingAssumption ==
  /\ Scale \in Nat \ {0} /\ PPM \in Nat \ {0} /\ Limit \in Nat /\ MaxLevels \in Nat
  /\ Amounts \subseteq 1 .. Limit
  /\ Prices \subseteq 0 .. Limit /\ Depths \subseteq 1 .. Limit

VARIABLES
  order,    \* the arguments: buy, amountIn, fee (its rate) and feeOn (a token)
  levels,   \* bids when selling base, asks when buying it
  i,        \* levels visited so far
  budget,   \* input that the leg may still spend
  out,      \* gross output so far
  leg,      \* history: the budget at the start
  result,   \* what Quote returns: a net output or an error
  phase

vars == << order, levels, i, budget, out, leg, result, phase >>

Level == [ price: Prices, depth: Depths ]
Orders ==
  [ buy: BOOLEAN, amountIn: Amounts, fee: 0 .. PPM - 1, feeOn: {"none", "in", "out"} ]

\* A market frame lists the best price first, and no price twice.
Book(buy, book) ==
  \A j, k \in DOMAIN book :
    j < k /\ book[j].price > 0 /\ book[k].price > 0 =>
      IF buy THEN book[j].price < book[k].price ELSE book[j].price > book[k].price

Books == UNION {[1 .. n -> Level] : n \in 0 .. MaxLevels}

\* validateQuote: a fee has a rate exactly when it has a token.
ValidFee(o) == (o.fee = 0) <=> (o.feeOn = "none")

-----------------------------------------------------------------------------
(* Rounding *)

CeilDiv(a, b) == (a + b - 1) \div b

QuoteCost(base, price) == CeilDiv(base * price, Scale)

QuoteValue(base, price) == (base * price) \div Scale

\* Fault: whole lots of two native units.
BaseAffordableLots(funds, price) == 2 * ((funds * Scale) \div (2 * price))

BaseAffordable(funds, price) == (funds * Scale) \div price

Deduction(amount, rate) == (amount * rate) \div PPM

\* Fault: the fee is taken off the amount instead of fitting around the leg.
LegBudgetDeducts(o) ==
  IF o.feeOn # "in" THEN o.amountIn ELSE o.amountIn - Deduction(o.amountIn, o.fee)

LegBudget(o) ==
  IF o.feeOn # "in" THEN o.amountIn
  ELSE ((o.amountIn + 1) * PPM - 1) \div (PPM + o.fee)

-----------------------------------------------------------------------------
(* matchQuote *)

\* The arguments, and the budget, which depends on nothing else.
Start(o, book, place) ==
  /\ order = o
  /\ levels = book
  /\ i = 0
  /\ budget = LegBudget(o)
  /\ leg = budget
  /\ out = 0
  /\ result = 0
  /\ phase = place

Init ==
  \E o \in {x \in Orders : ValidFee(x)} :
    \E book \in {x \in Books : Book(o.buy, x)} : Start(o, book, "match")

Visit == i < Len(levels) /\ budget > 0 /\ phase = "match"

Return(value) == result' = value /\ phase' = "done"

MalformedLevel ==
  /\ Visit
  /\ levels[i + 1].price = 0
  /\ phase' = "malformed"
  /\ UNCHANGED << order, levels, i, budget, out, leg, result >>

\* The whole level, or as much of it as the budget pays for; a partial level is
\* the last, and it leaves the loop before the test of the output's width.
Ask ==
  /\ Visit /\ order.buy
  /\ LET price == levels[i + 1].price
         depth == levels[i + 1].depth
         whole == QuoteCost(depth, price) <= budget
         take == IF whole THEN depth ELSE BaseAffordable(budget, price)
     IN  /\ price > 0
         /\ out' = out + take
         /\ budget' = IF take = 0 THEN budget ELSE budget - QuoteCost(take, price)
         /\ i' = i + 1
         /\ phase' = IF take < depth THEN "fee"
                     ELSE IF out' > Limit THEN "overflow" ELSE "match"
  /\ UNCHANGED << order, levels, leg, result >>

\* Fault: the value of a level is rounded up.
BidRoundsUp ==
  /\ Visit /\ ~ order.buy
  /\ LET price == levels[i + 1].price
         depth == levels[i + 1].depth
         take == IF depth > budget THEN budget ELSE depth
     IN  /\ price > 0
         /\ out' = out + QuoteCost(take, price)
         /\ budget' = budget - take
         /\ i' = i + 1
         /\ phase' = IF out' > Limit THEN "overflow" ELSE "match"
  /\ UNCHANGED << order, levels, leg, result >>

Bid ==
  /\ Visit /\ ~ order.buy
  /\ LET price == levels[i + 1].price
         depth == levels[i + 1].depth
         take == IF depth > budget THEN budget ELSE depth
     IN  /\ price > 0
         /\ out' = out + QuoteValue(take, price)
         /\ budget' = budget - take
         /\ i' = i + 1
         /\ phase' = IF out' > Limit THEN "overflow" ELSE "match"
  /\ UNCHANGED << order, levels, leg, result >>

LeaveLoop ==
  /\ phase = "match" /\ ~ Visit
  /\ phase' = "fee"
  /\ UNCHANGED << order, levels, i, budget, out, leg, result >>

\* A net output of zero is an error.
ApplyOutputFee ==
  /\ phase = "fee"
  /\ LET net == IF order.feeOn = "out" THEN out - Deduction(out, order.fee) ELSE out
     IN  IF net = 0 THEN phase' = "zero" /\ UNCHANGED result ELSE Return(net)
  /\ UNCHANGED << order, levels, i, budget, out, leg >>

Next == MalformedLevel \/ Ask \/ Bid \/ LeaveLoop \/ ApplyOutputFee

Spec == Init /\ [][Next]_vars

-----------------------------------------------------------------------------
(* Properties *)

Ended == phase \in {"fee", "done", "zero"}

Spent == leg - budget

TotalDepth ==
  LET sum[n \in 0 .. Len(levels)] == IF n = 0 THEN 0 ELSE sum[n - 1] + levels[n].depth
  IN  sum[Len(levels)]

\* The budget is exact in both directions: what the levels cost, rounded up level by
\* level, plus the input fee on it, fits in amountIn (Quote: "amountIn is a maximum
\* spend"), and with an input fee a leg of one native unit more would not
\* (legBudgetWithInputFee: "the largest leg").
BudgetIsExact ==
  /\ budget >= 0
  /\ Spent + (IF order.feeOn = "in" THEN Deduction(Spent, order.fee) ELSE 0)
       <= order.amountIn
  /\ order.feeOn = "in" => (leg + 1) + Deduction(leg + 1, order.fee) > order.amountIn

\* After a partial level nothing more can be bought: one further native unit, at
\* this price or at any later ask, costs more than what is left, so that leaving
\* the loop early loses no output (matchQuote: "residual budget buys nothing more").
ResidualBuysNothing ==
  order.buy /\ Ended /\ out < TotalDepth /\ (\A j \in DOMAIN levels : levels[j].price > 0) =>
    \A j \in DOMAIN levels : j >= i => QuoteCost(1, levels[j].price) > budget

\* Rounding every level by itself favours the maker: the average price is never
\* better than the best price of the book, in either direction.
NeverBetterThanBest ==
  Ended /\ i > 0 /\ levels[1].price > 0 =>
    IF order.buy THEN Spent * Scale >= out * levels[1].price
    ELSE out * Scale <= Spent * levels[1].price

\* The error text of matchQuote, "quote output exceeds uint256": no other result
\* is returned for an output that does not fit.
ResultIsUint256 == phase = "done" => result <= Limit

=============================================================================
