# Verification of the Takapu protocol SDK

TLA+ models of the Go SDK in `src/`: its streaming clients for routers and
makers, the arithmetic of quotes, transactions and contract reads, the listing
client, and the examples that compose them. TLC checks small instances; TLAPS
proves the main invariants, and that the router client implements an abstract
feed, for every value of the constants.

## 1. Inventory

| Component | State | Operations | Hard behaviour | What makes it correct |
|---|---|---|---|---|
| Connection lifecycle (`internal/client.go`, `connection.go`, `reconnect.go`, `wire.go`) | one record under `client.mu` (current session, status, stop flag, event queue), sessions with their context, first failure and write gate | dial, install, discard, stop, Reconnect, Close, write, heartbeat, read loop | five kinds of goroutine fail, replace and stop the same session; nested stops on a full event queue; wakeups through a channel that is replaced | a stop is final, no session is leaked, the first cause wins and a terminal one is never masked |
| Router subscriptions (`internal/subscription.go`, `quote.go`, `router.go`) | pending, saved and accepted request, revision, `ready`, frame queue, sequencer `subscribeGate` | Subscribe, ack, server error, update, restore | acknowledgements carry no identifier, so a late one looks like the next one; restoration races with callers | every answer and every frame belongs to the newest request; a connected client is never silently unsubscribed |
| Maker publication (`internal/maker.go`, `pkg/maker/maker.go`) | none of its own | Publish, Next | a write whose outcome is unknown; one WebSocket writer | outcomes are truthful, nothing is replayed |
| Reconnect delays (`internal/reconnect.go`, `config.go`) | `delay` in `run` | normalise, wait, double | settings close to the largest duration | delays stay in bounds and never overflow |
| Order books (`pkg/maker/quote.go`, `pkg/frame`, `quoteDecimal`) | none | round, encode, format, parse | one book in two encodings by two packages, negative scales, unsigned offsets | both encodings mean the same, rounded outwards from what was asked |
| Quote matching and decay (`pkg/router/quote.go`, `pkg/protocol/decay.go`) | none | Quote, DecayPPM, ApplyDecay | rounding level by level, fees, early exits, boundary seconds, an estimate executed later | never overspends, never beats the best price, the minimum is met as long as the frame can be executed |
| Transactions (`pkg/protocol/transaction.go`, `swap.go`, `receipt.go`) | none of its own; shared options | Swap, SwapExactIn, UpdateFrameBySig, ApproveToken, WaitReceipt, ParseSwapReceipt | a signing callback that may alter its argument, lost answers of the node, options shared by goroutines | only what was prepared is sent; what was sent can be followed up |
| Contract reads (`pkg/protocol/read.go`) | none | PairConfig, EffectivePairConfig, FeeRecipient, GlobalDecayConfig | blocks are mined between reads | one consistent block |
| Maker example (`examples/maker`) | configuration file, its lock, a nonce | lock, reserve a version, sign, publish or submit | kills, power loss between rename and sync, failed saves, stale locks | no version is signed twice |
| Router example (`examples/router`) | cache of frames, what was shown, last generation and revision | accept, sync, observe, loadQuoteConfig, showSwap, exit | a status read long before it is used, a goroutine to join on every exit | a swap only for a live subscription, every cached frame is shown, the program ends |
| Listing client and example (`pkg/listing`, `examples/listing`) | none between calls | chains, list, details | a registry that changes between requests, answers of every kind | what is shown is usable now |
| Signing primitives, generated types, command lines | none | single calls | input validation only | see section 8 |

Components meet in five places. The goroutines of one client share the record
under `client.mu` and two kinds of gate (channels of capacity one). The client
and the server exchange messages over an ordered connection that may break at
any moment. A maker's book reaches the router twice inside one frame, as signed
words and as decimals. The router's estimate is executed by a chain that deducts
decay which the router leaves out. And the router example reads the status of a
client and the settings of a chain that both move on while it works.

`PROJECT.json` lists the hazards of this code line by line, with the properties
that would catch them.

## 2. Modules

| Module | Models | EXTENDS |
|---|---|---|
| `Client` | every critical section of `client.mu` as an operator on one record: `StopLocked`, `EmitLocked`, `Install`, `Discard`, `BeginSubscription`, `Ack`, `TooLarge`, `Update` | |
| `Stream` | the goroutines both clients share: `run` with its read loop, the heartbeat, `write`, Reconnect callers, Close and cancellation | `Client` |
| `Router` | Subscribe callers, restoration, message handlers, and the server | `Stream` |
| `Maker` | Publish callers and the server that takes frames | `Stream` |
| `Feed` | what a router promises an application: subscription epochs | |
| `Reads` | `loadQuoteConfig` and the contract reads over a growing chain | |
| `Observer` | the event loop of the router example, over the steps of `Feed` | `Reads` |
| `Backoff` | reconnect settings and delays with the width of a duration | |
| `Book` | one order book from decimals to ticks, words, decimals and native units | |
| `Matching` | `matchQuote` level by level | |
| `Execution` | an estimate from the check of its age to its execution | `Matching` |
| `Transact` | concurrent transactions from their arguments to their receipts | |
| `Listing` | the listing client and the example that chooses a pair with it | |
| `Versions` | processes of the maker example that share a configuration file | |
| `MC*` | constants of the instances that TLC checks | |
| `StreamProofs` | lemmas about `Client` and `Stream` that both clients use | `Stream` |
| `RouterProofs`, `MakerProofs` | theorems about the two clients; in the second also the one about `Backoff` | `StreamProofs`; `Backoff` |
| `BookProofs` | theorems about `Book` and `Listing` | `Book`, `Listing` |
| `*Proofs` | theorems about `Versions`, `Execution`, `Observer`, `Transact` | |

Operators whose comment begins with `Fault:` are plausible mistakes in one
definition; each is paired in `PROJECT.json` with the property that exposes it.

### How the client models correspond to the code

* The variable `c` is the struct `client` with the fields of `Router` and the
  session fields that `client.mu` protects; `c.closed` and `c.cancelled` are the
  sessions whose connection is closed and whose context is cancelled. Statistics
  are left out. A value of `changed` is not kept; `c.waiting` is the set of
  callers parked on the present channel, and `SignalLocked` empties it.
* A step is one critical section, or one blocking operation with the critical
  section after it. `pc` names the place of each goroutine, `loc` its locals.
  A token in a gate is a Boolean.
* Time is not modelled: a deadline may expire in every state in which the code
  can observe it, and a read or write may fail at any time. `ReadErrors` names the
  classes of `classifyReadError` and `connectionAck`; only "authentication" and
  "protocol" are terminal.
* `write` takes four steps: queue for the gate, the checks with the callback
  `before`, the bytes, the outcome. `context.AfterFunc` of a write that times out
  is the alternative of `WriteFail` that discards the session.
* The server (external) is honest unless `"fault"` is in `Disturbances`. It
  answers requests in order, may refuse a request as too large, and sends frames
  for the request it serves. A faulty one sends any well-formed message.
* History: `revision` and `source` in messages say which request a message was
  sent for. The client never reads them; the properties do.

### The other models

* `Observer` composes the router example with `Feed`, the abstract client that
  `Router` is proved to implement, its event channel, and the chain of `Reads`. A
  step of the loop is one case of the `select`, or the code between two looks at
  shared state; each call of `Status()` is a look of its own, and each RPC is a step
  that may fail. `shown` and `answered` are history. That the epochs follow `Feed` is
  what `ImplementsFeed` proves; that each `Feed*` step but `FeedAsk`, `FeedDeliver` and
  a stop queues one event is `ChangesAreReported`, proved of the same client; which
  kind of event it is, and that a stop queues one only if it fits, is read off
  `install`, `discard`, `ack`, `serverError` and `stopLocked`.
* `Reads`: a block holds what the contract and the two tokens answer at that block.
  The chain grows and is not reorganised. Each check of the protocol client is
  made on the answer it follows.
* `Transact`: bind, the signing callback, the node and the chain are external. The
  callback may alter the unsigned transaction in place and return anything; the
  node may accept a transaction and still answer with an error. `local` is the copy
  of the shared `opts`.
* `Listing`: one step is one HTTP request; an answer is what the decoder found in
  it, and the checks are applied in the code's order. The registry changes between
  requests; `Faults` are answers that are not the registry's.
* `Versions`: `file` is what the path shows, `disk` what survives a power loss, so
  that `Rename` and `SyncDirectory` differ; a data file that was not synced may
  come back `Torn`. The operator removes a lock only after its process died, as
  the error text asks; running two copies of one configuration is excluded by the
  comment on `reserveVersion`.
* `Book`: a decimal is its digits and the number of digits after the point. Words
  are numbers with two fields for each level, as in `codec.go`; `EncodeLevels` builds
  one from its last level to its first, and `Power` is a function, both so that they
  can be proved about. Header fields
  other than the base tick are passed through and left out. A signer that fails or
  signs with another key is a refusal.
* `Matching`: books are in native units, a level that `quoteDecimal` refuses has
  price zero. `Scale`, `PPM` and `Limit` are parameters.
* `Execution`: a clock runs from the check of the frame's age through the match to
  the inclusion of the swap. `Payout` (external) is the order of deductions that the
  package documents; the book is the same at the execution.
* `Backoff`: `Wrapped` is int64 arithmetic; a caller's settings include negative
  ones and the largest duration.

## 3. What the runs check

| Run | Instance | Properties |
|---|---|---|
| `router_subscribe` | two Subscribe callers, the heartbeat, two requests, two sessions, honest server | `TypeOK`, `PendingIsInFlight`, `AckAnswersRequest`, `FramesAnswerRequest`, `HonestServerNotAccused`, `NotSilentlyUnsubscribed`, `RefinesFeed` |
| `router_lifecycle` | one Subscribe and one Reconnect caller, Close, cancellation, pongs, reported and terminal errors, an event queue of one | `NoLeak`, `NoSessionAfterFatal`, `StopIsFinal`, `DroppedWithCause`, `ChangesAreReported` |
| `router_live` | any message at any time, cancellation, a Subscribe caller, fair goroutines | `FramesAreCurrent`, `StopCompletes`, `SubscribeReturns` |
| `maker` | a publisher, a Reconnect caller, heartbeat, pongs, two sessions, automatic reconnect disabled, fair goroutines | `OutcomeIsTruthful`, `OneWriter`, `CallsReturn`, `StopCompletes` |
| `backoff` | every setting in -1 .. 15 | `BackoffBounded` |
| `versions` | two processes, two runs each, two crashes | `VersionUsedOnce`, `NoncesDistinct`, `LockReleased` |
| `execution` | every book of two levels, both directions, every fee; for orders into deep books every decay setting, tolerance and second | `BudgetIsExact`, `ResidualBuysNothing`, `NeverBetterThanBest`, `FreshIsUndecayed`, `MinOutSurvivesDecay` |
| `book` | five pairs with price scales from -1 to 2, two levels a side | `SignedWhatWasAsked`, `SignedBookIsSound`, `ReadableIsSigned` |
| `observer` | two streams, one of them traded, two connections, two requests, two blocks of three kinds | `SwapOutlivesRead`, `SettingsOfOneBlock`, `CachedIsShown`, `ExitCompletes` |
| `transact` | two callers on the same options, five calls, two nonces, three kinds of receipt | `ExecutedAsPrepared`, `BroadcastIsKnown`, `SuccessIsSent`, `ReceiptArrives` |
| `listing` | six registries, every combination of status, flags and body | `ShownIsUsable` |
| `matching_width` | outputs close to the largest uint256 | `ResultIsUint256`, violated |

The one disagreement: a buy that ends in a partly filled level leaves the loop of
`matchQuote` before the test whose error reads "quote output exceeds uint256", so
that a larger number can be returned. Depths of a uint24 of lots never come near
that width; only a frame whose decimals say more can reach it.

A remark on `BackoffBounded`: its lower bound for a wait is half the delay, which
is zero for an `InitialDelay` of one nanosecond, although the comment on the jitter
calls it positive.

A remark on `SwapOutlivesRead`: the recheck after `loadQuoteConfig` makes the claim
true at the last answer of the chain, not at the moment the swap is shown. The
client may lose its connection in between; no recheck could rule that out.

`CallsReturn` is `PublishReturns` together with `ReconnectReturns`. In `maker` a
Reconnect caller waits for the signal of `install` or of a stop; a router client's
caller also waits for the one at the end of `restore`, which no run checks:
`router_live` with such a caller is too large an instance. `StopCompletes` is checked
in `router_live` with a server that sends anything, and in `maker` with the heartbeat,
whose write may be stuck when `run` joins it.

### Bounds

* Two sessions are enough for each property about a session and its successor: a
  late callback, a restoration, a masked error concern two neighbours. `MaxSessions`
  bounds the dials.
* One call per caller and two callers show the races between two requests. A
  request that times out and the next one are those of two callers. The `maker` run
  has one publisher: its writes meet those of the heartbeat and of the pongs.
* Queues of one or two elements reach their limit within a few steps; a nested
  stop in `EmitLocked` happens in `Install`, `Discard` and `Ack`.
* `MaxInbox` bounds messages in flight: two are needed for a frame behind an
  acknowledgement.
* `router_lifecycle` uses a filter that no frame passes, because frames do not
  matter there.
* `book` uses radix 2, three-bit ticks and two levels, so that every remainder,
  the ends of the range, trailing zeros and over-long decimals occur.
* `execution` has small `Scale` and `PPM`, so that every remainder occurs; prices lie
  on both sides of `Scale`. Ages run from the future to beyond `maxAge`.
* `observer`: two generations and two revisions give a frame of an epoch that has
  ended, the restoration of the same frame, and an end of the epoch during each of
  the six reads; a cache of one makes the second stream overflow it; one frame
  contents is enough, since the question is whether the same one is shown again.
* `transact`: two nonces allow one transaction behind another and two callers on
  the same nonce. Calls that must be refused are among the five.
* `versions`: minor versions 0 .. 2 reach "exhausted"; two crashes allow one
  during the recovery from the other.
* Deadlock is not checked: every client may stop, every call may end, every
  bounded run does.

### Fairness

`router_live` and `maker` assume weak fairness of each goroutine of the client,
never of the server, the network, the consumer or the caller. The code justifies
it: each wait of a goroutine has a deadline or a context (`SubscribeTimeout`,
`WriteTimeout`, `ReadIdleTimeout` and the dial's handshake timeout), so that some
step of it always becomes possible, and the Go scheduler runs what can run. Expiry
of such a deadline is one of the fair steps; that a read fails is not, because
closing the connection is what ends the read loop.

`observer` assumes weak fairness of the code between two selects (each RPC is
answered or times out) and of the end of Subscribe, which has a deadline. Strong
fairness of the ticker's case and of `ctx.Done()` is what Go's `select` gives, which
chooses at random among the cases that are ready, so that other ready cases cannot
win for ever. Nothing is assumed of the client or the chain.

`transact` assumes weak fairness of a caller in `WaitReceipt`, whose timer fires and
whose RPC is answered or fails. `versions` assumes weak fairness of a living process
and nothing of crashes.

## 4. What is proved

All theorems hold for any number of callers, sessions, keys, requests, blocks and
processes and any buffer size, under the `ASSUME`s of the modules, which TLC
evaluates in every run.

* `RouterProofs`, with any server, also one that sends any message at any time:
  `Typing`, `CurrentFrames`, `TrueStatus`, `SessionOwnership`, `FinalStop`, `ReportedChanges`,
  `ImplementsFeed`, `RouterOneWriter`, `RouterNoLeak`, `RouterFatal`, `RouterDropped`,
  `PendingInFlight`.
* `RouterProofs`, with a server that answers each request once, in order, and sends
  frames of the request it serves (`"fault" \notin Disturbances`, which also holds in
  the run that checks the same properties): `OwnAnswer`, `OwnFrames`, `NotAccused`,
  `NotSilent`.
* `MakerProofs`: `MakerTyping`, `TruthfulOutcome`, `MakerOneWriter`,
  `MakerNoLeak`, `MakerFatal`, `MakerStatus`, `MakerFinalStop`, `MakerReported`, `MakerDropped`;
  `BoundedBackoff`, about `Backoff`.
* `VersionsProofs`: `VersionsTyping`, `SignedOnce`, `OwnNonces`, `Exclusion`,
  `DurableUse`.
* `ExecutionProofs`: `FreshPaysGross`, `ExactBudget`, `NoBetterThanBest`, `NothingMore`,
  `MinimumSurvives`.
* `ObserverProofs`: `OneBlock`, `SwapSafe`.
* `TransactProofs`: `Known`, `Sent`, `Prepared`, `Executed`.
* `BookProofs`: `WordRoundTrip`, `DecimalRoundTrip`, `QuotedEncodes`, `AskedIsSigned`,
  `SoundBook`, `ReadableAgrees`; `ShownPairs`, about `Listing`.

**Both clients.** `StreamInv` is `StreamTypeOK /\ Consistent(c) /\ RunOwnsSession /\
LocalsAgree` with the bound of the frame queue. None of the properties is inductive
alone: that a queued frame is current needs that delivery is open only on the current
session; that needs that only `run` installs sessions; and that needs, for each label
of `run`, what its local session is. The argument has three layers, all in
`StreamProofs`.

1. Each operator of `Client` is one of ten relations between two records (`Cleared`,
   `Halted`, `Connected`, `Lost`, `Begun`, `Answered`, `Delivered`, ...), and each
   relation keeps `Consistent` (`StepConsistent`), the bounds (`StepBounded`) and a stop
   (`StoppedStep`), and queues an event where it must (`StepTold`).
2. Each action of `Stream` is such a relation on `c` and keeps the locals in agreement
   (`Progress`).
3. `LifeInv` is the account that `run` keeps of its sessions: the one it holds is the
   last dialed, every other is closed and cancelled, and so is the last once its read
   loop has returned; a terminal error stays in `run`'s hands until the client stops,
   whatever cause another goroutine recorded first; the heartbeat and restoration live
   only inside `runSession`. `NoLeak` and `NoSessionAfterFatal` follow from it.
   `GateInv` says that whoever writes has taken the token of that connection, which
   makes `OneWriter` inductive.

**The maker.** `MakerInv` adds `PublishInv`: a frame of a later call is not on the wire;
before its bytes are out a frame's count on the wire is zero and after them one; and at
the end of a write `started` and the error say which of the two. `OutcomeIsTruthful`
is a part of it.

**The router, with any server.** `IndInv` is `StreamInv` with the types of the messages;
`FeedStep` maps each relation of the first layer to a step of `Feed` or a stutter, which
gives the refinement. `RouterInv` adds three invariants.
`SequencerInv`: the token of `subscribeGate` has one holder, `run` hands it to restoration
together with the flag `restoring`, and a caller that still holds it while `run` waits
works on an earlier session. `QuietNet`: between the teardown of a session and the next
installation the connection is empty. `FlightInv`: while its session lives, the caller of
the pending request is between the start of the write and the end of the wait, on the
current session, with no reply yet. The last is `PendingIsInFlight`; it needs the
sequencer, because a second caller could otherwise replace the pending request.

**The router, with an honest server.** Acknowledgements carry no identifier, so that
`AckAnswersRequest` is a statement about everything that is on the wire. `TurnInv` says,
while `run` serves a session, that requests and answers take turns (`NetTurn`): at most
one of them is on its way, it belongs to the pending request and carries its revision,
behind an acknowledgement there are only frames of its subscription, and the server
serves the newest request whenever delivery is open; and that a caller about to write
finds the wire free of both (`WriteTurn`). A request that times out leaves its late
answer behind; the turn is kept because the session is discarded with it and the next
starts on an empty connection (`QuietNet`). `SavedInv` says that a saved request is
acknowledged, in flight or refused, or that restoration has not written it yet or is
about to give the session up (`RestoreBusy`). `HonestInv` is the conjunction of these
with `RouterInv`, `AckAnswersRequest` and `FramesAnswerRequest`.

**The observer.** `OneBlock` rests on `ReadInv`: once the number is read, the block
lies between the head at the call and the present head, and each answered call has
put that block's setting in `params`; a new block leaves the chosen one in place.
`SwapSafe` rests on `EpochInv`. Whatever the queue, the cache and the loop hold
carries an epoch that the client has reached (`Past`); epochs only grow and a
generation is connected once (`Grows`, from the steps of `Feed`). When the recheck
finds the frame's epoch to be the present one, the last answer of the chain lies
between two equal epochs, hence in the same one, and the connection was up.

**Transactions.** `TxInv`: a caller's transaction is nil until the callback's answer
was checked against what bind had prepared, is then what the call returns on every
path, and the options never change under the callers. Each action of a caller is a
`StepOf(c)`, which leaves the others' part alone (`StepKeeps`). `ReceiptInv` adds that a
caller waits only for what it signed and what it reads is the receipt of that
transaction; `SwapLogsCount`, by induction over the logs, says that the loop of
`ParseSwapReceipt` yields one event for each Swap log.

**Execution.** `ExecutionInv` keeps the types, the budget's relation to the input, the
order of the book (`NoBetterLevel`) and the relation of the result to the gross
output. The arithmetic is in lemmas on rounding: the inverse of a rounded-up
deduction is exact, a sum of rounded-down legs is no more than the whole at the best
price, and deductions taken one after the other are bounded by one of the tolerance.
`NothingMore` rests on `ResidualInv`: while the loop runs, the output is the whole depth of
the levels visited (`Sums`, by induction over the book), and it ends with the book or
the budget used up or with less left than one unit of the last level costs.

**Versions.** `VersionInv == TypeOK /\ DiskAgrees /\ UsedIsDurable /\ VersionUsedOnce`
and `ProcAgrees` for each process. That a version is signed once follows from
`UsedIsDurable` (every signed version lies before the one on disk), which in turn
needs that the version in the memory of the holder lies before both `file` and
`disk` once the directory is synced, and that all others are outside the lock.
`OwnNonces` needs `NonceInv`: the nonces that a run has used lie below the node's pending
nonce when it broadcasts, and below `opts.Nonce` when it only signs.

**Books.** For every radix, number of decimals, step, width of a tick and number of
levels. `BookInv` says that each level is the rounded form of the one asked for, with
a tick that is a positive uint24 (`LevelsAgree`), that the best comes first
(`BestFirst`), that the input of a finished book is not crossed, and what the words,
the decimals and the router's numbers were made of (`MadeInv`). Its ticks are absolute
while levels are read and relative afterwards; the two agree because the offsets do not
wrap (`RelativeKeeps`), and they do not because an input that is not crossed is rounded
apart (`RoundApart`, `BidsBelowAsks`). `WordRoundTrip` is an induction over the slots of a
word: shifting it by j slots leaves the word of the levels behind the first j
(`ShiftedWord`), and a slot holds its two fields (`SlotHolds`). `DecimalRoundTrip` says
that the zeros cut off by `decimal` are those that `quoteDecimal` puts back, within its
limits. `PairsAssumption` says of a pair what `ValidatePair` checks: sizes are positive
and a uint24 of them is a native amount. `QuotedEncodes` shows that the checks of
`encodeCompactFrame` are never what refuses a published book. The provers know neither
powers nor division by a variable: both are reduced to the inequalities that define them
(`PowerIs`, `DivUnique`, `DivTwice`).

**Listing.** `ShopInv` adds to `ShownIsUsable` that a run has no result before its end and
that a run which was told its pair never chooses one from a list. Nothing is needed of
the list: the last request decides (`ShowPairKeeps`).

**Backoff.** `DelayInv == DelayTyped /\ BackoffBounded`; `Doubled` does not wrap because its
second comparison is made before the multiplication.

**Induction.** The library's induction theorems take a predicate as a parameter, which
the provers cannot instantiate. `Induction` in `ExecutionProofs`, `TransactProofs` and
`BookProofs` is the same fact for a set of natural numbers, from the theorem that a set of them has a least
element (`WFMin`, `NatLessThanWellFounded`); the existence of a recursive function over a
sequence, and what it computes, follow from it.

## 5. Only model-checked

Liveness and everything under fairness (`StopCompletes`, `SubscribeReturns`,
`CallsReturn`, `LockReleased`, `CachedIsShown`,
`ExitCompletes`, `ReceiptArrives`), which the prover cannot express, as it cannot
ENABLED. Every other property of a passing run is a theorem as well.

RECURSIVE operators would cost the prover its SMT backend; these modules have none and
write loops as recursive functions.

## 6. Checking

    tlc -workers 2 -config MCRouter_sub.cfg MCRouter
    tlapm RouterProofs.tla      # about seven minutes from nothing

## 7. Plan

1. Done: `Client`, `Stream`, `Router` with `Feed`, `Maker`; `Backoff`, `Versions`,
   `Book`; `Matching` with `Execution`; `Observer` over `Feed` with `Reads`; `Transact`;
   `Listing`; the proofs above.
2. Done: the theorems of section 4, which state every safety property that a passing
   run checks.
3. Open: a proof of the liveness properties, when the prover can express fairness.

## 8. Not modelled

* `SimulateSwap`, `BuildSwap`, the table of revert selectors, `Allowance` and
  `NewClient` of the protocol client: stateless ABI packing around at most one RPC;
  the contract is not in this repository.
* Hashing and elliptic curves of `signing.go`.
* URL, key and size checks of `config.go` and of the listing client, one comparison
  each.
* Gas settings of a transaction, which behave like its nonce.
* Generated protobuf code, statistics counters, logging, redaction and the order in
  which quotes are displayed.
* The protocol example and the command lines of the other examples, which are linear
  programs over operations that are modelled.
