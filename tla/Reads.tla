-------------------------------- MODULE Reads --------------------------------
(***************************************************************************)
(* Contract reads while the chain grows: loadQuoteConfig of the router     *)
(* example (src/examples/router/quote.go) and the reads of the protocol    *)
(* client that it calls (src/pkg/protocol/read.go, decay.go).              *)
(*                                                                         *)
(* The chain (external) is a sequence of the settings that each block      *)
(* holds; it grows and is not reorganised.  One step is one RPC, which may *)
(* fail or time out.  Addresses are abstracted to what the checks compare: *)
(* "zero", the "base" and "quote" token of the pair, any "other" token.    *)
(***************************************************************************)
EXTENDS Integers, Sequences

CONSTANTS
  PPM,         \* PPMDenominator
  MaxDecimals, \* the largest uint8
  Blocks,      \* the settings that a block may hold
  MaxBlocks    \* bound: the length of the chain

FeeTokens == {"zero", "base", "quote", "other"}

\* What the contract and the two tokens answer at one block.
BlockSettings ==
  [ sound: BOOLEAN,       \* distinct nonzero tokens, positive uint128 scales
    active: BOOLEAN,
    feeRate: Nat,
    feeToken: FeeTokens,
    recipient: BOOLEAN,   \* a fee recipient is set
    start: Nat, end: Nat, maxAge: Nat, maxPpm: Nat,
    baseDecimals: Nat, quoteDecimals: Nat ]

ASSUME ReadsAssumption ==
  /\ PPM \in Nat \ {0} /\ MaxDecimals \in Nat /\ MaxBlocks \in Nat \ {0}
  /\ Blocks \subseteq BlockSettings /\ Blocks # {}

VARIABLES
  chain,       \* the settings of block 1, 2, ...
  reading,     \* the RPC that loadQuoteConfig makes next, or how it ended
  block,       \* its local: the block number
  params,      \* its local: the QuoteConfig read so far
  startedAt    \* history: the head when it was called

readVars == << chain, reading, block, params, startedAt >>
reader == << reading, block, params, startedAt >>

Calls == {"number", "pair", "recipient", "decay", "baseDecimals", "quoteDecimals"}

\* A router.QuoteConfig, as far as the settings differ between blocks.
QuoteConfigs ==
  [ feeRate: Nat, feeToken: FeeTokens, start: Nat, baseDecimals: Nat, quoteDecimals: Nat ]

NoParams ==
  [ feeRate |-> 0, feeToken |-> "zero", start |-> 0, baseDecimals |-> 0, quoteDecimals |-> 0 ]

ReadsInit ==
  /\ \E first \in Blocks : chain = << first >>
  /\ reading = "idle" /\ block = 0 /\ params = NoParams /\ startedAt = 0

\* The caller is done with the result.
Forget == reading' = "idle" /\ block' = 0 /\ params' = NoParams /\ startedAt' = 0

-----------------------------------------------------------------------------
(* The chain *)

Mine ==
  /\ Len(chain) < MaxBlocks
  /\ \E next \in Blocks : chain' = Append(chain, next)
  /\ UNCHANGED reader

-----------------------------------------------------------------------------
(* The checks of the protocol client on what it read *)

\* PairConfig: the fee has a rate exactly when it has a token of the pair.
ValidPair(s) ==
  /\ s.sound
  /\ s.feeRate < PPM
  /\ (s.feeRate = 0) <=> (s.feeToken = "zero")
  /\ s.feeToken # "other"

\* GlobalDecayConfig.Validate
ValidDecay(s) ==
  s.maxAge # 0 /\ s.start < s.end /\ s.end < s.maxAge /\ s.maxPpm < PPM

\* router.validateQuote on the fee of a QuoteConfig
QuotableFee(p) ==
  p.feeRate < PPM /\ ((p.feeRate = 0) <=> (p.feeToken = "zero")) /\ p.feeToken # "other"

-----------------------------------------------------------------------------
(* loadQuoteConfig *)

StartReading ==
  /\ reading' = "number"
  /\ params' = NoParams
  /\ block' = 0
  /\ startedAt' = Len(chain)

Reading == reading \in Calls

\* The answer to a call at the block that the function chose.
Answer == chain[block]

Proceed(ok, next, value) ==
  /\ reading' = IF ok THEN next ELSE "failed"
  /\ params' = IF ok THEN value ELSE params
  /\ UNCHANGED << chain, block, startedAt >>

ReadNumber ==
  /\ reading = "number"
  /\ block' = Len(chain)
  /\ reading' = "pair"
  /\ UNCHANGED << chain, params, startedAt >>

ReadPair ==
  /\ reading = "pair"
  /\ Proceed(ValidPair(Answer), "recipient",
             [params EXCEPT !.feeRate = Answer.feeRate, !.feeToken = Answer.feeToken])

\* EffectivePairConfig: without a recipient no fee is collected.
Effective(p, recipient) ==
  IF recipient THEN p ELSE [p EXCEPT !.feeRate = 0, !.feeToken = "zero"]

\* Fault: FeeRecipient is asked for the latest block.
ReadRecipientLatest ==
  /\ reading = "recipient"
  /\ Proceed(Answer.active, "decay", Effective(params, chain[Len(chain)].recipient))

\* The rest of EffectivePairConfig, and the test of Active by its caller.
ReadRecipient ==
  /\ reading = "recipient"
  /\ Proceed(Answer.active, "decay", Effective(params, Answer.recipient))

ReadDecay ==
  /\ reading = "decay"
  /\ Proceed(ValidDecay(Answer), "baseDecimals", [params EXCEPT !.start = Answer.start])

ReadBaseDecimals ==
  /\ reading = "baseDecimals"
  /\ Proceed(Answer.baseDecimals <= MaxDecimals, "quoteDecimals",
             [params EXCEPT !.baseDecimals = Answer.baseDecimals])

ReadQuoteDecimals ==
  /\ reading = "quoteDecimals"
  /\ Proceed(Answer.quoteDecimals <= MaxDecimals, "done",
             [params EXCEPT !.quoteDecimals = Answer.quoteDecimals])

\* An RPC fails, reverts, answers malformed data or exceeds the deadline.
ReadFails ==
  /\ Reading
  /\ reading' = "failed"
  /\ UNCHANGED << chain, block, params, startedAt >>

Read ==
  \/ ReadNumber \/ ReadPair \/ ReadRecipient \/ ReadDecay
  \/ ReadBaseDecimals \/ ReadQuoteDecimals \/ ReadFails

-----------------------------------------------------------------------------
(* Properties *)

\* What one atomic look at a block would give.
SettingsOf(s) ==
  [ feeRate |-> IF s.recipient THEN s.feeRate ELSE 0,
    feeToken |-> IF s.recipient THEN s.feeToken ELSE "zero",
    start |-> s.start,
    baseDecimals |-> s.baseDecimals, quoteDecimals |-> s.quoteDecimals ]

\* Six reads in a row amount to one look at one block, not older than the call,
\* whose pair is active and whose settings are valid, and Quote accepts the fee
\* (loadQuoteConfig: "reads all settings at one block so the quote uses consistent
\* fees, decay timing and token scales").
SettingsOfOneBlock ==
  reading = "done" =>
    /\ \E b \in startedAt .. Len(chain) :
         /\ params = SettingsOf(chain[b])
         /\ chain[b].active /\ ValidPair(chain[b]) /\ ValidDecay(chain[b])
    /\ QuotableFee(params)

=============================================================================
