-------------------------------- MODULE Book --------------------------------
(***************************************************************************)
(* The way of one order book from the maker's decimals to the router's     *)
(* native units: rounding to ticks and lots (src/pkg/maker/quote.go), the  *)
(* compact words that are signed (src/pkg/frame/codec.go), the readable    *)
(* decimals that travel beside them (decimal.go, prepare.go) and the       *)
(* parser of the router (quoteDecimal in src/pkg/router/quote.go).         *)
(*                                                                         *)
(* A plain decimal is a record: n, its digits read as a number, and f, how *)
(* many of them follow the point.  Its value is n / Radix^f.               *)
(***************************************************************************)
EXTENDS Integers, Sequences, FiniteSetsExt

CONSTANTS
  Radix,         \* of decimals: 10
  PriceDecimals, \* of native prices: 18
  MaxTick,       \* the largest uint24
  MaxLevels,     \* levels of one side: 5
  MaxLength,     \* characters of a decimal: 64
  MaxNative,     \* the largest uint256
  MaxUint32,
  Pairs,         \* PairParams: tickSize, lotSize, baseDecimals, quoteDecimals
  Prices,        \* decimals a caller may ask for ...
  Amounts        \* ... as a price and as an amount

ASSUME BookAssumption ==
  /\ Radix \in Nat \ {0, 1} /\ PriceDecimals \in Nat /\ MaxLength \in Nat \ {0}
  /\ MaxTick \in Nat \ {0} /\ MaxLevels \in Nat \ {0}
  /\ MaxUint32 \in Nat /\ MaxTick < MaxUint32 /\ MaxNative \in Nat
  /\ \A d \in Prices \cup Amounts : d \in [ n: Nat, f: Nat ]

\* Sizes that ValidatePair lets pass are positive uint128, so that a uint24 of them
\* is a uint256; decimals are uint8.
ASSUME PairsAssumption ==
  \A p \in Pairs :
    /\ p.tickSize \in Nat \ {0} /\ MaxTick * p.tickSize <= MaxNative
    /\ p.lotSize \in Nat \ {0} /\ MaxTick * p.lotSize <= MaxNative
    /\ p.baseDecimals \in Nat /\ p.quoteDecimals \in Nat

Sides == {"bids", "asks"}

VARIABLES
  phase,   \* how far the book has come
  pair,    \* params.Pair
  req,     \* params.Bids and params.Asks as far as they were read
  spec,    \* FrameSpec: base and the levels of both sides
  words,   \* CompactFrame: the base tick and one word for each side
  wire,    \* MarketFrame: the readable levels of both sides
  seen     \* price and depth of each level as the router reads them

vars == << phase, pair, req, spec, words, wire, seen >>

NoLevels == [ s \in Sides |-> << >> ]
NoWords == [ base |-> 0, bids |-> 0, asks |-> 0 ]

-----------------------------------------------------------------------------
(* Decimals *)

Power(b, n) == LET p[k \in Nat] == IF k = 0 THEN 1 ELSE b * p[k - 1] IN p[n]

PriceScale == PriceDecimals + pair.quoteDecimals - pair.baseDecimals

\* The value of d, multiplied by Radix^scale, is Num(d, scale) / Den(d, scale).
Num(d, scale) == d.n * Power(Radix, IF scale >= 0 THEN scale ELSE 0)
Den(d, scale) == Power(Radix, d.f) * Power(Radix, IF scale < 0 THEN - scale ELSE 0)

TooLong(d) ==
  IF d.f = 0 THEN d.n >= Power(Radix, MaxLength)
  ELSE d.n >= Power(Radix, MaxLength - 1) \/ d.f + 2 > MaxLength

\* Fault: zeros before the point are trimmed too.
DecimalTrimsAll(n, scale) ==
  LET zeros == Max({k \in 0 .. n : n % Power(Radix, k) = 0})
  IN  [ n |-> n \div Power(Radix, zeros), f |-> IF scale > zeros THEN scale - zeros ELSE 0 ]

\* frame.decimal: n / Radix^scale without trailing zeros after the point.
Decimal(n, scale) ==
  IF scale <= 0 THEN [ n |-> n * Power(Radix, - scale), f |-> 0 ]
  ELSE LET zeros == Max({k \in 0 .. scale : n % Power(Radix, k) = 0})
       IN  [ n |-> n \div Power(Radix, zeros), f |-> scale - zeros ]

\* router.quoteDecimal: the native units of d, or 0 for an error.
QuoteDecimal(d, scale) ==
  LET shift == scale - d.f
      cut == IF shift < 0 THEN Power(Radix, - shift) ELSE 1
      v == IF shift < 0 THEN d.n \div cut ELSE d.n * Power(Radix, shift)
  IN  IF TooLong(d) \/ d.n % cut # 0 \/ v > MaxNative THEN 0 ELSE v

-----------------------------------------------------------------------------
(* maker.quoteUnits, quoteLevels and quoteSpec *)

\* Fault: every value is rounded down.
QuoteUnitsDown(d, scale, step, roundUp) == Num(d, scale) \div (Den(d, scale) * step)

QuoteUnits(d, scale, step, roundUp) ==
  LET den == Den(d, scale) * step
      count == Num(d, scale) \div den
  IN  IF roundUp /\ Num(d, scale) % den # 0 THEN count + 1 ELSE count

Uint24(count) == count \in 1 .. MaxTick

\* One level, with its absolute price tick for the offset.
QuoteLevel(side, l) ==
  [ offset |-> QuoteUnits(l.price, PriceScale, pair.tickSize, side = "asks"),
    lots |-> QuoteUnits(l.amount, pair.baseDecimals, pair.lotSize, FALSE) ]

InOrder(side, before, level) ==
  before # << >> =>
    IF side = "bids" THEN level.offset < before[Len(before)].offset
    ELSE level.offset > before[Len(before)].offset

LevelIsValid(side, l) ==
  /\ ~ TooLong(l.price) /\ ~ TooLong(l.amount)
  /\ Uint24(QuoteLevel(side, l).offset) /\ Uint24(QuoteLevel(side, l).lots)
  /\ InOrder(side, spec[side], QuoteLevel(side, l))

\* The input is crossed: its best bid exceeds its best ask.
Crossed ==
  /\ req.bids # << >> /\ req.asks # << >>
  /\ LET b == req.bids[1].price  a == req.asks[1].price
     IN  b.n * Power(Radix, a.f) > a.n * Power(Radix, b.f)

Base ==
  IF spec.bids # << >> THEN spec.bids[1].offset
  ELSE IF spec.asks # << >> THEN spec.asks[1].offset
  ELSE 1

\* Offsets are uint32: a subtraction may wrap.
Relative(side, l) ==
  [ l EXCEPT !.offset = (IF side = "bids" THEN Base - l.offset ELSE l.offset - Base)
                          % (MaxUint32 + 1) ]

-----------------------------------------------------------------------------
(* frame.encodeLevels, DecodeLevels and encodeCompactFrame *)

Slot == (MaxTick + 1) * (MaxTick + 1)

LevelsEncode(levels) ==
  /\ Len(levels) <= MaxLevels
  /\ \A i \in DOMAIN levels :
       /\ levels[i].offset <= MaxTick /\ Uint24(levels[i].lots)
       /\ i > 1 => levels[i].offset > levels[i - 1].offset

\* The first level fills the lowest slot of the word; from[i] holds the levels from i on.
EncodeLevels(levels) ==
  LET from[i \in 1 .. Len(levels) + 1] ==
        IF i > Len(levels) THEN 0
        ELSE levels[i].offset * (MaxTick + 1) + levels[i].lots + Slot * from[i + 1]
  IN  from[1]

SlotAt(word, i) ==
  LET v == (word \div Power(Slot, i - 1)) % Slot
  IN  [ offset |-> v \div (MaxTick + 1), lots |-> v % (MaxTick + 1) ]

ActiveSlots(word) == {i \in 1 .. MaxLevels : SlotAt(word, i) # [ offset |-> 0, lots |-> 0 ]}

DecodeLevels(word) ==
  [ i \in 1 .. Cardinality(ActiveSlots(word)) |-> SlotAt(word, i) ]

WordIsValid(word) ==
  /\ word < Power(Slot, MaxLevels)
  /\ \A i \in ActiveSlots(word) :
       /\ SlotAt(word, i).lots # 0
       /\ \A j \in 1 .. i - 1 : j \in ActiveSlots(word)
       /\ i > 1 => SlotAt(word, i).offset > SlotAt(word, i - 1).offset

CompactFrame(s) ==
  [ base |-> s.base, bids |-> EncodeLevels(s.bids), asks |-> EncodeLevels(s.asks) ]

\* decodeCompactFrame.
FrameIsValid(w) ==
  /\ w.base # 0
  /\ WordIsValid(w.bids) /\ WordIsValid(w.asks)
  /\ \A i \in DOMAIN DecodeLevels(w.bids) : DecodeLevels(w.bids)[i].offset < w.base
  /\ \A i \in DOMAIN DecodeLevels(w.asks) : DecodeLevels(w.asks)[i].offset + w.base <= MaxTick

\* encodeCompactFrame accepts the specification.
Encodes(s) ==
  /\ s.base \in 1 .. MaxTick
  /\ LevelsEncode(s.bids) /\ LevelsEncode(s.asks)
  /\ FrameIsValid(CompactFrame(s))

-----------------------------------------------------------------------------
(* frame.humanLevels *)

Tick(side, base, l) == IF side = "bids" THEN base - l.offset ELSE base + l.offset

HumanLevels(side) ==
  [ i \in DOMAIN spec[side] |->
      [ price |-> Decimal(Tick(side, spec.base, spec[side][i]) * pair.tickSize, PriceScale),
        amount |-> Decimal(spec[side][i].lots * pair.lotSize, pair.baseDecimals) ] ]

Readable(side) ==
  \A i \in DOMAIN HumanLevels(side) :
    ~ TooLong(HumanLevels(side)[i].price) /\ ~ TooLong(HumanLevels(side)[i].amount)

-----------------------------------------------------------------------------
Init ==
  /\ phase = "bids"
  /\ pair \in Pairs
  /\ req = NoLevels
  /\ spec = [ base |-> 1, bids |-> << >>, asks |-> << >> ]
  /\ words = NoWords
  /\ wire = NoLevels
  /\ seen = NoLevels

\* Publish or SubmitFrameUpdate returns an error and the book is dropped.
Refuse ==
  /\ phase' = "refused"
  /\ req' = NoLevels
  /\ spec' = [ base |-> 1, bids |-> << >>, asks |-> << >> ]
  /\ words' = NoWords
  /\ wire' = NoLevels
  /\ UNCHANGED << pair, seen >>

\* A call that fails whatever its levels are: a canceled context, pair parameters
\* that ValidatePair refuses, a zero chain, proxy or maker, or one of another client.
RefuseCall ==
  /\ phase = "bids"
  /\ req = NoLevels
  /\ Refuse

\* One round of the loop of quoteLevels.
TakeLevel(side, l) ==
  /\ phase = side
  /\ Len(spec[side]) < MaxLevels
  /\ \/ /\ LevelIsValid(side, l)
        /\ req' = [req EXCEPT ![side] = Append(@, l)]
        /\ spec' = [spec EXCEPT ![side] = Append(@, QuoteLevel(side, l))]
        /\ UNCHANGED << phase, pair, words, wire, seen >>
     \/ ~ LevelIsValid(side, l) /\ Refuse

TooManyLevels(side) ==
  /\ phase = side
  /\ Len(spec[side]) = MaxLevels
  /\ Refuse

EndBids ==
  /\ phase = "bids"
  /\ phase' = "asks"
  /\ UNCHANGED << pair, req, spec, words, wire, seen >>

\* Fault: a crossed input is left to the rounded ticks.
QuoteSpecUnchecked ==
  /\ phase = "asks"
  /\ phase' = "spec"
  /\ spec' = [ base |-> Base,
               bids |-> [ i \in DOMAIN spec.bids |-> Relative("bids", spec.bids[i]) ],
               asks |-> [ i \in DOMAIN spec.asks |-> Relative("asks", spec.asks[i]) ] ]
  /\ UNCHANGED << pair, req, words, wire, seen >>

QuoteSpec ==
  /\ phase = "asks"
  /\ \/ Crossed /\ Refuse
     \/ /\ ~ Crossed
        /\ phase' = "spec"
        /\ spec' = [ base |-> Base,
                     bids |-> [ i \in DOMAIN spec.bids |-> Relative("bids", spec.bids[i]) ],
                     asks |-> [ i \in DOMAIN spec.asks |-> Relative("asks", spec.asks[i]) ] ]
        /\ UNCHANGED << pair, req, words, wire, seen >>

PrepareSigningPayload ==
  /\ phase = "spec"
  /\ IF Encodes(spec)
     THEN /\ phase' = "payload"
          /\ words' = CompactFrame(spec)
          /\ UNCHANGED << pair, req, spec, wire, seen >>
     ELSE Refuse

Prepare ==
  /\ phase = "payload"
  /\ \/ ~ (Readable("bids") /\ Readable("asks")) /\ Refuse
     \/ /\ Readable("bids") /\ Readable("asks")
        /\ phase' = "prepared"
        /\ wire' = [ s \in Sides |-> HumanLevels(s) ]
        /\ UNCHANGED << pair, req, spec, words, seen >>

\* BuildAndSign, after Prepare: SignFrame refuses a missing signer, an error of the
\* signer, a canceled context, a signature that is not canonical and one that
\* recovers to another address.
SignFrame ==
  /\ phase = "prepared"
  /\ \/ Refuse
     \/ phase' = "sent" /\ UNCHANGED << pair, req, spec, words, wire, seen >>

\* SubmitFrameUpdate signs and sends the payload without readable decimals.
SubmitFrameUpdate ==
  /\ phase = "payload"
  /\ \/ Refuse
     \/ phase' = "onchain" /\ UNCHANGED << pair, req, spec, words, wire, seen >>

\* The router reads the levels of the frame that it received.
RouterReads ==
  /\ phase = "sent"
  /\ phase' = "read"
  /\ seen' = [ s \in Sides |-> [ i \in DOMAIN wire[s] |->
                 [ price |-> QuoteDecimal(wire[s][i].price, PriceScale),
                   depth |-> QuoteDecimal(wire[s][i].amount, pair.baseDecimals) ] ] ]
  /\ UNCHANGED << pair, req, spec, words, wire >>

Next ==
  \/ \E side \in Sides :
       \/ TooManyLevels(side)
       \/ \E p \in Prices, a \in Amounts : TakeLevel(side, [ price |-> p, amount |-> a ])
  \/ RefuseCall \/ EndBids \/ QuoteSpec \/ PrepareSigningPayload \/ Prepare \/ SignFrame
  \/ SubmitFrameUpdate \/ RouterReads

Spec == Init /\ [][Next]_vars

-----------------------------------------------------------------------------
(* Properties *)

Signed == phase \in {"payload", "prepared", "sent", "onchain", "read"}

\* What the contract executes: the ticks and lots in the signed words.
ChainBook(side) ==
  [ i \in DOMAIN DecodeLevels(words[side]) |->
      [ tick |-> Tick(side, words.base, DecodeLevels(words[side])[i]),
        lots |-> DecodeLevels(words[side])[i].lots ] ]

\* The units u of size step are the value of d, rounded down or up by less than one.
RoundsTo(u, step, d, scale, up) ==
  LET v == Num(d, scale)  unit == step * Den(d, scale)
  IN  IF up THEN (u - 1) * unit < v /\ v <= u * unit
      ELSE u * unit <= v /\ v < (u + 1) * unit

\* The signed words hold, level by level, what the caller asked for: no bid is
\* raised, no ask lowered, no amount increased, each by less than one tick or lot
\* (PriceLevel in src/pkg/maker/types.go).
SignedWhatWasAsked ==
  Signed => \A s \in Sides :
    /\ Len(ChainBook(s)) = Len(req[s])
    /\ \A i \in DOMAIN req[s] :
         /\ RoundsTo(ChainBook(s)[i].tick, pair.tickSize, req[s][i].price, PriceScale, s = "asks")
         /\ RoundsTo(ChainBook(s)[i].lots, pair.lotSize, req[s][i].amount, pair.baseDecimals, FALSE)

\* A signed book is best first and not crossed, in its ticks and in the decimals
\* that were asked for: rounding outwards never repairs a crossed input.
SignedBookIsSound ==
  Signed =>
    /\ ~ Crossed
    /\ \A s \in Sides : \A i, j \in DOMAIN ChainBook(s) : i < j =>
         IF s = "bids" THEN ChainBook(s)[i].tick > ChainBook(s)[j].tick
         ELSE ChainBook(s)[i].tick < ChainBook(s)[j].tick
    /\ \A i \in DOMAIN ChainBook("bids"), j \in DOMAIN ChainBook("asks") :
         ChainBook("bids")[i].tick <= ChainBook("asks")[j].tick

\* The two forms of one book agree: the native price and depth that the router
\* parses from the decimals are the ticks and lots that were signed, and no
\* readable level is refused (comments "price = ... = tick * priceTickSize" and
\* "depth = ... = qtyLots * lotSize" in matchQuote).
ReadableIsSigned ==
  phase = "read" => \A s \in Sides :
    seen[s] = [ i \in DOMAIN ChainBook(s) |->
                  [ price |-> ChainBook(s)[i].tick * pair.tickSize,
                    depth |-> ChainBook(s)[i].lots * pair.lotSize ] ]

=============================================================================
