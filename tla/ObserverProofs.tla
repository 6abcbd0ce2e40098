--------------------------- MODULE ObserverProofs ---------------------------
(***************************************************************************)
(* The observer for any number of streams, frames, connections, requests   *)
(* and blocks.                                                             *)
(*                                                                         *)
(* That a swap outlives the reads of the chain rests on the client's       *)
(* epochs, which only grow and in which a generation is connected once:    *)
(* the epoch of the frame was reached before the reads and is the present  *)
(* one after them, hence it was in force, and connected, in between.       *)
(***************************************************************************)
EXTENDS Observer, TLAPS

-----------------------------------------------------------------------------
(* Contract reads *)

\* What the calls that have been answered have put in params.
PairRead == reading \in {"recipient", "decay", "baseDecimals", "quoteDecimals", "done"}
FeeRead == reading \in {"decay", "baseDecimals", "quoteDecimals", "done"}
DecayRead == reading \in {"baseDecimals", "quoteDecimals", "done"}
BaseRead == reading \in {"quoteDecimals", "done"}

\* One block has been chosen, not older than the call, and every setting read so far
\* is that block's.
ReadInv ==
  /\ chain \in Seq(BlockSettings) /\ Len(chain) > 0
  /\ reading \in Calls \cup {"idle", "failed", "done"}
  /\ params \in QuoteConfigs
  /\ startedAt \in Nat /\ startedAt <= Len(chain) /\ block \in Nat
  /\ reading \in Calls \cup {"done"} => startedAt > 0
  /\ reading = "pair" \/ PairRead => block \in startedAt .. Len(chain)
  /\ PairRead => ValidPair(chain[block])
  /\ reading = "recipient" =>
       params.feeRate = chain[block].feeRate /\ params.feeToken = chain[block].feeToken
  /\ FeeRead =>
       /\ chain[block].active
       /\ params.feeRate = SettingsOf(chain[block]).feeRate
       /\ params.feeToken = SettingsOf(chain[block]).feeToken
  /\ DecayRead => ValidDecay(chain[block]) /\ params.start = chain[block].start
  /\ BaseRead => params.baseDecimals = chain[block].baseDecimals
  /\ reading = "done" => params.quoteDecimals = chain[block].quoteDecimals

\* The empty configuration has the type of a configuration.
LEMMA NoParamsTyped == NoParams \in QuoteConfigs
  BY DEF NoParams, QuoteConfigs, FeeTokens

\* No block is older than the call when reading starts.
LEMMA StartKeeps == ReadInv /\ StartReading /\ UNCHANGED chain => ReadInv'
  BY NoParamsTyped DEF ReadInv, StartReading, Calls, PairRead, FeeRead, DecayRead, BaseRead

\* Nothing is claimed of an idle reader.
LEMMA ForgetKeeps == ReadInv /\ Forget /\ UNCHANGED chain => ReadInv'
  BY NoParamsTyped DEF ReadInv, Forget, Calls, PairRead, FeeRead, DecayRead, BaseRead

\* A new block leaves the chosen one where it is.
LEMMA MineKeeps == ReadInv /\ Mine => ReadInv'
<1> SUFFICES ASSUME ReadInv, Mine PROVE ReadInv'
  OBVIOUS
<1>1. PICK next \in Blocks : chain' = Append(chain, next)
  BY DEF Mine
<1>2. next \in BlockSettings
  BY ReadsAssumption, Zenon
<1>3. chain' \in Seq(BlockSettings) /\ Len(chain') = Len(chain) + 1
  BY <1>1, <1>2 DEF ReadInv
<1>4. \A b \in 1 .. Len(chain) : chain'[b] = chain[b]
  BY <1>1, <1>2 DEF ReadInv
<1>5. UNCHANGED << reading, block, params, startedAt >>
  BY DEF Mine, reader
<1>6. reading = "pair" \/ PairRead => block \in 1 .. Len(chain)
  BY DEF ReadInv, PairRead, Calls
<1> QED
  BY <1>3, <1>4, <1>5, <1>6 DEF ReadInv, PairRead, FeeRead, DecayRead, BaseRead

\* A block answers with settings.
LEMMA AnswerTyped ==
  ASSUME ReadInv, reading = "pair" \/ PairRead
  PROVE  block \in 1 .. Len(chain) /\ Answer \in BlockSettings
<1>1. block \in 1 .. Len(chain)
  BY DEF ReadInv, PairRead, Calls
<1> QED
  BY <1>1 DEF ReadInv, Answer

\* Every call keeps what the calls before it have found.
LEMMA ReadKeeps == ReadInv /\ Read => ReadInv'
<1> SUFFICES ASSUME ReadInv, Read PROVE ReadInv'
  OBVIOUS
<1> USE DEF ReadInv, PairRead, FeeRead, DecayRead, BaseRead, Calls
<1>1. CASE ReadNumber
  BY <1>1 DEF ReadNumber
<1>2. CASE ReadPair
  <2>1. Answer \in BlockSettings /\ chain[block] = Answer
    BY <1>2, AnswerTyped DEF ReadPair, Answer
  <2>2. [params EXCEPT !.feeRate = Answer.feeRate, !.feeToken = Answer.feeToken] \in QuoteConfigs
    BY <2>1 DEF QuoteConfigs, BlockSettings
  <2> QED
    BY <1>2, <2>1, <2>2 DEF ReadPair, Proceed, QuoteConfigs
<1>3. CASE ReadRecipient
  <2>1. Answer \in BlockSettings /\ chain[block] = Answer
    BY <1>3, AnswerTyped DEF ReadRecipient, Answer
  <2>2. /\ Effective(params, Answer.recipient) \in QuoteConfigs
        /\ Effective(params, Answer.recipient).feeRate = SettingsOf(Answer).feeRate
        /\ Effective(params, Answer.recipient).feeToken = SettingsOf(Answer).feeToken
    BY <1>3, <2>1 DEF ReadRecipient, Effective, SettingsOf, QuoteConfigs, FeeTokens
  <2> QED
    BY <1>3, <2>1, <2>2 DEF ReadRecipient, Proceed
<1>4. CASE ReadDecay
  <2>1. Answer \in BlockSettings /\ chain[block] = Answer
    BY <1>4, AnswerTyped DEF ReadDecay, Answer
  <2>2. [params EXCEPT !.start = Answer.start] \in QuoteConfigs
    BY <2>1 DEF QuoteConfigs, BlockSettings
  <2> QED
    BY <1>4, <2>1, <2>2 DEF ReadDecay, Proceed, QuoteConfigs
<1>5. CASE ReadBaseDecimals
  <2>1. Answer \in BlockSettings /\ chain[block] = Answer
    BY <1>5, AnswerTyped DEF ReadBaseDecimals, Answer
  <2>2. [params EXCEPT !.baseDecimals = Answer.baseDecimals] \in QuoteConfigs
    BY <2>1 DEF QuoteConfigs, BlockSettings
  <2> QED
    BY <1>5, <2>1, <2>2 DEF ReadBaseDecimals, Proceed, QuoteConfigs
<1>6. CASE ReadQuoteDecimals
  <2>1. Answer \in BlockSettings /\ chain[block] = Answer
    BY <1>6, AnswerTyped DEF ReadQuoteDecimals, Answer
  <2>2. [params EXCEPT !.quoteDecimals = Answer.quoteDecimals] \in QuoteConfigs
    BY <2>1 DEF QuoteConfigs, BlockSettings
  <2> QED
    BY <1>6, <2>1, <2>2 DEF ReadQuoteDecimals, Proceed, QuoteConfigs
<1>7. CASE ReadFails
  BY <1>7 DEF ReadFails
<1> QED
  BY <1>1, <1>2, <1>3, <1>4, <1>5, <1>6, <1>7 DEF Read

\* The first block, and nothing read.
LEMMA ReadsStart == ReadsInit => ReadInv
<1> SUFFICES ASSUME ReadsInit PROVE ReadInv
  OBVIOUS
<1>1. PICK first \in Blocks : chain = << first >>
  BY DEF ReadsInit
<1>2. first \in BlockSettings
  BY ReadsAssumption, Zenon
<1> QED
  BY <1>1, <1>2, NoParamsTyped
     DEF ReadsInit, ReadInv, Calls, PairRead, FeeRead, DecayRead, BaseRead

\* All settings read from one block make up what the property asks for.
LEMMA ReadInvSuffices == ReadInv => SettingsOfOneBlock
<1> SUFFICES ASSUME ReadInv, reading = "done" PROVE SettingsOfOneBlock
  BY DEF SettingsOfOneBlock
<1>1. block \in 1 .. Len(chain) /\ chain[block] \in BlockSettings /\ block \in startedAt .. Len(chain)
  BY AnswerTyped DEF ReadInv, PairRead, Answer
<1>2. /\ ValidPair(chain[block]) /\ chain[block].active /\ ValidDecay(chain[block])
      /\ params.feeRate = SettingsOf(chain[block]).feeRate
      /\ params.feeToken = SettingsOf(chain[block]).feeToken
      /\ params.start = chain[block].start
      /\ params.baseDecimals = chain[block].baseDecimals
      /\ params.quoteDecimals = chain[block].quoteDecimals
      /\ params \in QuoteConfigs
  BY DEF ReadInv, PairRead, FeeRead, DecayRead, BaseRead
<1>3. params = SettingsOf(chain[block])
  BY <1>1, <1>2 DEF SettingsOf, QuoteConfigs
<1>4. QuotableFee(params)
  BY <1>1, <1>2, ReadsAssumption DEF QuotableFee, ValidPair, SettingsOf, BlockSettings
<1> QED
  BY <1>1, <1>2, <1>3, <1>4 DEF SettingsOfOneBlock

\* A step of the program starts a reading, makes one call of it, forgets it, lets the
\* chain grow, or does not touch it.
LEMMA ReadsStep ==
  [Next]_vars =>
    \/ Read \/ Mine \/ UNCHANGED readVars
    \/ StartReading /\ UNCHANGED chain
    \/ Forget /\ UNCHANGED chain
<1> SUFFICES ASSUME [Next]_vars
    PROVE  \/ Read \/ Mine \/ UNCHANGED readVars
           \/ StartReading /\ UNCHANGED chain
           \/ Forget /\ UNCHANGED chain
  OBVIOUS
<1>1. CASE Client
  BY <1>1 DEF Client, FeedConnect, FeedLose, FeedAsk, FeedAccept, FeedRefuse,
              FeedDeliver, FeedStop, FeedReport, Beside
<1>2. CASE Cancel \/ SubscribeFails
  BY <1>2 DEF Cancel, SubscribeFails
<1>3. CASE ChainGrows
  BY <1>3 DEF ChainGrows
<1>4. CASE Select
  BY <1>4 DEF Select, SelectDone, SelectReply, SelectFrame, SelectFramesClosed, SelectEvent,
              SelectEventsClosed, SelectStatus, SelectTick, Exit
<1>5. CASE Work
  <2>1. CASE AcceptUpdate \/ (\E k \in Keys : NextQuote(k)) \/ ObserveEnds \/ Recheck
    BY <2>1 DEF AcceptUpdate, NextQuote, ObserveEnds, Recheck
  <2>2. CASE Display
    BY <2>2 DEF Display
  <2>3. CASE ReadSettings
    BY <2>3 DEF ReadSettings
  <2>4. CASE Confirm \/ ShowSwap
    BY <2>4 DEF Confirm, ShowSwap
  <2>5. CASE CloseClient \/ JoinSubscribe
    BY <2>5 DEF CloseClient, JoinSubscribe
  <2> QED
    BY <1>5, <2>1, <2>2, <2>3, <2>4, <2>5 DEF Work
<1>6. CASE UNCHANGED vars
  BY <1>6 DEF vars
<1> QED
  BY <1>1, <1>2, <1>3, <1>4, <1>5, <1>6 DEF Next

\* Whatever blocks are mined between two of the six reads, a configuration that
\* loadQuoteConfig returns is one block's.
THEOREM OneBlock == Spec => []SettingsOfOneBlock
<1>1. Init => ReadInv
  BY ReadsStart DEF Init
<1>2. ReadInv /\ [Next]_vars => ReadInv'
  <2> SUFFICES ASSUME ReadInv, [Next]_vars PROVE ReadInv'
    OBVIOUS
  <2>1. CASE UNCHANGED readVars
    BY <2>1 DEF readVars, ReadInv, PairRead, FeeRead, DecayRead, BaseRead
  <2> QED
    BY <2>1, ReadsStep, ReadKeeps, MineKeeps, StartKeeps, ForgetKeeps
<1> QED
  BY <1>1, <1>2, ReadInvSuffices, PTL DEF Spec

-----------------------------------------------------------------------------
(* Epochs *)

\* The client has reached the epoch of u.
Past(u) == u \in Updates /\ u.generation <= generation /\ u.revision <= revision

\* Epochs only grow, and a generation is connected once.
Grows ==
  /\ generation' \in Nat /\ generation <= generation'
  /\ revision' \in Nat /\ revision <= revision'
  /\ phase' = "connected" /\ generation' = generation => phase = "connected"

\* The client, whose queue holds frames of epochs it has reached.
ClientInv ==
  /\ generation \in Nat /\ revision \in Nat
  /\ queue \in Seq(Updates)
  /\ \A i \in 1 .. Len(queue) : Past(queue[i])

\* So does the cache.
CacheInv ==
  /\ latest \in [Keys -> Updates \cup {NoUpdate}]
  /\ \A k \in Keys : latest[k] # NoUpdate => Past(latest[k])

\* So does the loop; what it has yet to visit is cached.
LoopInv ==
  /\ pc \in {"observe", "recheck", "display", "read", "confirm", "show"} =>
       todo \subseteq {k \in Keys : latest[k] # NoUpdate}
  /\ pc \in {"accept", "recheck", "display", "read", "confirm", "show"} => Past(held)

\* The last answer of the chain lies between the frame and the present, and no
\* connection of its generation came after it.
AnswerInv ==
  pc \in {"confirm", "show"} =>
    /\ \E p : answered = << p, answered[2], answered[3] >>
    /\ answered[2] \in Nat /\ held.generation <= answered[2] /\ answered[2] <= generation
    /\ answered[3] \in Nat /\ held.revision <= answered[3] /\ answered[3] <= revision
    /\ answered[2] = generation /\ phase = "connected" => answered[1] = "connected"

EpochInv == ClientInv /\ CacheInv /\ LoopInv /\ AnswerInv /\ SwapOutlivesRead

\* What was reached stays reached.
LEMMA PastKeeps ==
  ASSUME NEW u, Past(u), ClientInv, Grows
  PROVE  u \in Updates /\ u.generation <= generation' /\ u.revision <= revision'
  BY DEF Past, ClientInv, Grows, Updates

\* The promises of Feed that the epochs rest on.
LEMMA FeedGrows ==
  ASSUME ClientInv,
         \/ F!Connect \/ F!Lose \/ F!Ask \/ F!Accept \/ F!Refuse
         \/ F!Deliver \/ F!Take \/ F!Stop \/ UNCHANGED feed
  PROVE  Grows
  BY DEF ClientInv, Grows, feed, F!Connect, F!Lose, F!Ask, F!Accept, F!Refuse, F!Deliver,
         F!Take, F!Stop

\* Every step of the program is one of Feed's, or leaves the client alone.
LEMMA NextGrows == ClientInv /\ [Next]_vars => Grows
<1> SUFFICES ASSUME ClientInv, [Next]_vars
    PROVE  \/ F!Connect \/ F!Lose \/ F!Ask \/ F!Accept \/ F!Refuse
           \/ F!Deliver \/ F!Take \/ F!Stop \/ UNCHANGED feed
  BY FeedGrows
<1>1. CASE Client
  BY <1>1 DEF Client, FeedConnect, FeedLose, FeedAsk, FeedAccept, FeedRefuse,
              FeedDeliver, FeedStop, FeedReport
<1>2. CASE Cancel \/ SubscribeFails \/ ChainGrows
  BY <1>2 DEF Cancel, SubscribeFails, ChainGrows
<1>3. CASE Select
  BY <1>3 DEF Select, SelectDone, SelectReply, SelectFrame, SelectFramesClosed, SelectEvent,
              SelectEventsClosed, SelectStatus, SelectTick, Exit
<1>4. CASE Work
  BY <1>4 DEF Work, AcceptUpdate, NextQuote, ObserveEnds, Recheck, Display, ReadSettings,
              Confirm, ShowSwap, CloseClient, JoinSubscribe, Observing
<1>5. CASE UNCHANGED vars
  BY <1>5 DEF vars
<1> QED
  BY <1>1, <1>2, <1>3, <1>4, <1>5 DEF Next

\* The queue gains a frame of the present epoch, loses its head, or is emptied.
LEMMA ClientKeeps == ClientInv /\ [Next]_vars => ClientInv'
<1> SUFFICES ASSUME ClientInv, [Next]_vars PROVE ClientInv'
  OBVIOUS
<1>1. Grows
  BY NextGrows
<1>2. CASE queue' = queue
  BY <1>1, <1>2, PastKeeps DEF ClientInv, Past, Grows
<1>3. CASE queue' = << >>
  BY <1>1, <1>3 DEF ClientInv, Grows
<1>4. CASE queue # << >> /\ queue' = Tail(queue)
  <2>1. queue' \in Seq(Updates) /\ \A i \in 1 .. Len(queue') : \E j \in 1 .. Len(queue) : queue'[i] = queue[j]
    <3>1. queue \in Seq(Updates)
      BY DEF ClientInv
    <3>2. queue' \in Seq(Updates) /\ Len(queue') = Len(queue) - 1
          /\ \A i \in 1 .. Len(queue') : queue'[i] = queue[i + 1]
      BY <1>4, <3>1
    <3> QED
      BY <3>1, <3>2
  <2> QED
    BY <1>1, <2>1, PastKeeps DEF ClientInv, Past, Grows
<1>5. CASE FeedDeliver
  <2>1. PICK k \in Keys, w \in Wires :
          queue' = Append(queue, [ generation |-> generation, revision |-> revision,
                                   key |-> k, wire |-> w ])
    BY <1>5 DEF FeedDeliver
  <2> DEFINE u == [ generation |-> generation, revision |-> revision, key |-> k, wire |-> w ]
  <2>2. UNCHANGED << generation, revision >>
    BY <1>5 DEF FeedDeliver, F!Deliver
  <2>3. Past(u)
    BY DEF Past, Updates, ClientInv
  <2>4. u \in Updates
    BY <2>3 DEF Past
  <2> HIDE DEF u
  <2>5. queue' \in Seq(Updates) /\ \A i \in 1 .. Len(queue') :
           queue'[i] = u \/ \E j \in 1 .. Len(queue) : queue'[i] = queue[j]
    <3>1. queue \in Seq(Updates) /\ queue' = Append(queue, u)
      BY <2>1 DEF ClientInv, u
    <3> QED
      BY <3>1, <2>4
  <2> QED
    BY <2>2, <2>3, <2>5 DEF ClientInv, Past
<1>6. queue' = queue \/ queue' = << >> \/ (queue # << >> /\ queue' = Tail(queue)) \/ FeedDeliver
  <2>1. CASE Client
    BY <2>1 DEF Client, FeedConnect, FeedLose, FeedAsk, FeedAccept, FeedRefuse, FeedStop,
                FeedReport, F!Connect, F!Lose, F!Ask, F!Accept, F!Refuse, F!Stop, F!Shut, feed
  <2>2. CASE Cancel \/ SubscribeFails \/ ChainGrows
    BY <2>2 DEF Cancel, SubscribeFails, ChainGrows, feed
  <2>3. CASE Select
    BY <2>3 DEF Select, SelectDone, SelectReply, SelectFrame, SelectFramesClosed, SelectEvent,
                SelectEventsClosed, SelectStatus, SelectTick, Exit, feed, F!Take
  <2>4. CASE Work
    BY <2>4 DEF Work, AcceptUpdate, NextQuote, ObserveEnds, Recheck, Display, ReadSettings,
                Confirm, ShowSwap, CloseClient, JoinSubscribe, Observing, feed, F!Stop, F!Shut
  <2>5. CASE UNCHANGED vars
    BY <2>5 DEF vars, feed
  <2> QED
    BY <2>1, <2>2, <2>3, <2>4, <2>5 DEF Next
<1> QED
  BY <1>2, <1>3, <1>4, <1>5, <1>6

\* A synchronised cache holds what it held or nothing.
LEMMA SyncedCache == Synced.latest = latest \/ Synced.latest = NoQuotes
  BY DEF Synced

\* The cache gains only the frame in hand.
LEMMA CacheKeeps == EpochInv /\ [Next]_vars => CacheInv'
<1> SUFFICES ASSUME EpochInv, [Next]_vars PROVE CacheInv'
  OBVIOUS
<1> USE DEF EpochInv
<1>1. Grows
  BY NextGrows
<1>2. CASE latest' = latest
  BY <1>1, <1>2, PastKeeps DEF CacheInv, Past
<1>3. CASE latest' = NoQuotes
  BY <1>3 DEF CacheInv, NoQuotes
<1>4. CASE pc = "accept" /\ \E q \in {latest, NoQuotes} : latest' = [q EXCEPT ![held.key] = held]
  <2>1. PICK q \in {latest, NoQuotes} : latest' = [q EXCEPT ![held.key] = held]
    BY <1>4
  <2>2. q \in [Keys -> Updates \cup {NoUpdate}] /\ \A k \in Keys : q[k] # NoUpdate => Past(q[k])
    BY DEF CacheInv, NoQuotes
  <2>3. Past(held) /\ held \in Updates
    BY <1>4 DEF LoopInv, Past
  <2>4. latest' \in [Keys -> Updates \cup {NoUpdate}]
    BY <2>1, <2>2, <2>3
  <2>5. \A k \in Keys : latest'[k] = held \/ latest'[k] = q[k]
    BY <2>1, <2>2
  <2>6. \A k \in Keys : latest'[k] # NoUpdate => Past(latest'[k])
    BY <2>2, <2>3, <2>5
  <2>7. \A k \in Keys : latest'[k] # NoUpdate =>
          /\ latest'[k] \in Updates
          /\ latest'[k].generation <= generation' /\ latest'[k].revision <= revision'
    BY <1>1, <2>6, PastKeeps
  <2> QED
    BY <2>4, <2>7 DEF CacheInv, Past
<1>5. \/ latest' = latest \/ latest' = NoQuotes
      \/ pc = "accept" /\ \E q \in {latest, NoQuotes} : latest' = [q EXCEPT ![held.key] = held]
  <2>1. CASE Client
    BY <2>1 DEF Client, FeedConnect, FeedLose, FeedAsk, FeedAccept, FeedRefuse,
                FeedDeliver, FeedStop, FeedReport, Beside, cache
  <2>2. CASE Cancel \/ SubscribeFails \/ ChainGrows
    BY <2>2 DEF Cancel, SubscribeFails, ChainGrows, cache
  <2>3. CASE Select
    BY <2>3, SyncedCache
       DEF Select, SelectDone, SelectReply, SelectFrame, SelectFramesClosed, SelectEvent,
           SelectEventsClosed, SelectStatus, SelectTick, Sync, SetCache, cache
  <2>4. CASE AcceptUpdate
    BY <2>4 DEF AcceptUpdate, Sync, SetCache, Synced
  <2>5. CASE (\E k \in Keys : NextQuote(k)) \/ ObserveEnds \/ Recheck \/ Display
             \/ ReadSettings \/ Confirm \/ ShowSwap \/ CloseClient \/ JoinSubscribe
    BY <2>5 DEF NextQuote, ObserveEnds, Recheck, Display, ReadSettings, Confirm, ShowSwap,
                CloseClient, JoinSubscribe, Observing, cache
  <2>6. CASE UNCHANGED vars
    BY <2>6 DEF vars, cache
  <2> QED
    BY <2>1, <2>2, <2>3, <2>4, <2>5, <2>6 DEF Next, Work
<1> QED
  BY <1>2, <1>3, <1>4, <1>5

\* Outside observe the loop holds at most the frame it has just taken.
LEMMA SelectLoop ==
  ASSUME EpochInv, Select
  PROVE  \/ pc' \in {"select", "exit"}
         \/ pc' = "accept" /\ Past(held')
         \/ pc' = "observe" /\ todo' = {k \in Keys : latest'[k] # NoUpdate}
<1>1. CASE SelectFrame
  <2>1. queue # << >> /\ held' = Head(queue) /\ pc' = "accept"
    BY <1>1 DEF SelectFrame, F!Take
  <2>2. queue \in Seq(Updates) /\ \A i \in 1 .. Len(queue) : Past(queue[i])
    BY DEF EpochInv, ClientInv
  <2>3. Head(queue) = queue[1] /\ 1 \in 1 .. Len(queue)
    BY <2>1, <2>2
  <2> QED
    BY <2>1, <2>2, <2>3
<1>2. CASE SelectTick
  BY <1>2 DEF SelectTick
<1>3. CASE SelectDone \/ SelectReply \/ SelectFramesClosed \/ SelectEvent
           \/ SelectEventsClosed \/ SelectStatus
  BY <1>3 DEF SelectDone, SelectReply, SelectFramesClosed, SelectEvent, SelectEventsClosed,
              SelectStatus, Exit, Goto, loop
<1> QED
  BY <1>1, <1>2, <1>3 DEF Select

\* What the loop has in hand it took from the queue or from the cache.
LEMMA LoopKeeps == EpochInv /\ [Next]_vars => LoopInv'
<1> SUFFICES ASSUME EpochInv, [Next]_vars PROVE LoopInv'
  OBVIOUS
<1> USE DEF EpochInv
<1>1. Grows
  BY NextGrows
<1>2. \A u : Past(u) => u \in Updates /\ u.generation <= generation' /\ u.revision <= revision'
  BY <1>1, PastKeeps
<1>3. CASE UNCHANGED << loop, latest >>
  BY <1>2, <1>3 DEF LoopInv, Past, loop
<1>4. CASE pc' \in {"select", "exit", "join", "done"}
  BY <1>4 DEF LoopInv
<1>5. CASE Select
  <2>1. CASE pc' = "accept" /\ Past(held')
    <3>1. held' \in Updates /\ held'.generation <= generation' /\ held'.revision <= revision'
      BY <1>2, <2>1
    <3> QED
      BY <2>1, <3>1 DEF LoopInv, Past
  <2>2. CASE pc' = "observe" /\ todo' = {k \in Keys : latest'[k] # NoUpdate}
    BY <2>2 DEF LoopInv
  <2> QED
    BY <1>4, <1>5, <2>1, <2>2, SelectLoop
<1>6. ASSUME NEW k \in Keys, NextQuote(k) PROVE LoopInv'
  <2>1. latest' = latest /\ todo' = todo \ {k} /\ pc = "observe" /\ k \in todo
    BY <1>6 DEF NextQuote, Observing
  <2>2. todo' \subseteq {j \in Keys : latest'[j] # NoUpdate} /\ latest[k] # NoUpdate
    BY <2>1 DEF LoopInv
  <2>3. Past(latest[k])
    BY <2>2 DEF CacheInv
  <2>4. CASE pc' = "recheck" /\ held' = latest[k]
    BY <1>2, <2>2, <2>3, <2>4 DEF LoopInv, Past
  <2>5. CASE pc' = "observe"
    BY <2>2, <2>5 DEF LoopInv
  <2> QED
    BY <1>6, <2>1, <2>4, <2>5 DEF NextQuote
<1>7. CASE Recheck \/ Display \/ ReadSettings \/ Confirm \/ ShowSwap
  <2>1. /\ latest' = latest /\ todo' = todo
        /\ pc \in {"recheck", "display", "read", "confirm", "show"}
        /\ \/ pc' \in {"display", "read", "confirm", "show"} /\ held' = held
           \/ pc' = "observe"
    BY <1>7 DEF Recheck, Display, ReadSettings, Confirm, ShowSwap, Observing, Goto, Continue, loop
  <2>2. todo' \subseteq {k \in Keys : latest'[k] # NoUpdate} /\ Past(held)
    BY <2>1 DEF LoopInv
  <2> QED
    BY <1>2, <2>1, <2>2 DEF LoopInv, Past
<1>8. CASE Client \/ Cancel \/ SubscribeFails \/ ChainGrows \/ UNCHANGED vars
  BY <1>3, <1>8 DEF Client, FeedConnect, FeedLose, FeedAsk, FeedAccept, FeedRefuse, FeedDeliver,
     FeedStop, FeedReport, Beside, Cancel, SubscribeFails, ChainGrows, vars, cache
<1>9. CASE AcceptUpdate \/ ObserveEnds \/ CloseClient \/ JoinSubscribe
  BY <1>4, <1>9 DEF AcceptUpdate, ObserveEnds, CloseClient, JoinSubscribe, Goto
<1> QED
  BY <1>5, <1>6, <1>7, <1>8, <1>9 DEF Next, Work

\* The last answer is taken in the epoch of the moment, after the frame; what the client
\* does later moves the present away from it, never back.
LEMMA AnswerKeeps == EpochInv /\ [Next]_vars => AnswerInv'
<1> SUFFICES ASSUME EpochInv, [Next]_vars, pc' \in {"confirm", "show"} PROVE AnswerInv'
  BY DEF AnswerInv
<1> USE DEF EpochInv
<1>1. Grows
  BY NextGrows
<1>2. CASE pc \in {"confirm", "show"} /\ UNCHANGED << held, answered >>
  BY <1>1, <1>2 DEF AnswerInv, Grows, ClientInv
<1>3. CASE ReadSettings
  <2>1. /\ answered' = << phase, generation, revision >> /\ held' = held /\ pc = "read"
        /\ UNCHANGED << phase, generation, revision >>
    BY <1>3 DEF ReadSettings, Observing, feed, Goto, loop
  <2>2. Past(held)
    BY <2>1 DEF LoopInv
  <2> QED
    BY <2>1, <2>2 DEF AnswerInv, ClientInv, Past
<1>4. CASE Client \/ Cancel \/ SubscribeFails \/ ChainGrows \/ UNCHANGED vars
  BY <1>2, <1>4 DEF Client, FeedConnect, FeedLose, FeedAsk, FeedAccept, FeedRefuse, FeedDeliver,
     FeedStop, FeedReport, Beside, Cancel, SubscribeFails, ChainGrows, vars, loop, history
<1>5. CASE Confirm
  BY <1>2, <1>5 DEF Confirm, Goto, Continue
<1>6. CASE Select
  BY <1>6, SelectLoop
<1>7. CASE AcceptUpdate \/ ObserveEnds \/ Recheck \/ Display \/ ShowSwap
           \/ CloseClient \/ JoinSubscribe \/ \E k \in Keys : NextQuote(k)
  BY <1>7 DEF AcceptUpdate, ObserveEnds, Recheck, Display, ShowSwap, CloseClient, JoinSubscribe,
              NextQuote, Goto, Continue
<1> QED
  BY <1>3, <1>4, <1>5, <1>6, <1>7 DEF Next, Work

\* The recheck closes the gap: the frame's epoch is the present one, hence the answer's.
LEMMA SwapKeeps == EpochInv /\ [Next]_vars => SwapOutlivesRead'
<1> SUFFICES ASSUME EpochInv, [Next]_vars, pc' = "show"
    PROVE  answered' = << "connected", held'.generation, held'.revision >>
  BY DEF SwapOutlivesRead
<1> USE DEF EpochInv
<1>1. CASE Confirm
  <2>1. pc = "confirm" /\ Current(held, epoch) /\ UNCHANGED << held, answered >>
    BY <1>1 DEF Confirm, Goto, Continue
  <2>2. held.generation = generation /\ held.revision = revision /\ phase = "connected"
    BY <2>1 DEF Current
  <2>3. /\ \E p : answered = << p, answered[2], answered[3] >>
        /\ answered[2] \in Nat /\ held.generation <= answered[2] /\ answered[2] <= generation
        /\ answered[3] \in Nat /\ held.revision <= answered[3] /\ answered[3] <= revision
        /\ answered[2] = generation /\ phase = "connected" => answered[1] = "connected"
    BY <2>1 DEF AnswerInv
  <2>4. answered[1] = "connected" /\ answered[2] = held.generation /\ answered[3] = held.revision
    BY <2>2, <2>3 DEF ClientInv
  <2>5. answered = << "connected", held.generation, held.revision >>
    BY <2>3, <2>4
  <2> QED
    BY <2>1, <2>5
<1>2. CASE Client \/ Cancel \/ SubscribeFails \/ ChainGrows \/ UNCHANGED vars
  <2>1. UNCHANGED << pc, held, answered >>
    BY <1>2 DEF Client, FeedConnect, FeedLose, FeedAsk, FeedAccept, FeedRefuse, FeedDeliver,
       FeedStop, FeedReport, Beside, Cancel, SubscribeFails, ChainGrows, vars, loop, history
  <2> QED
    BY <2>1 DEF SwapOutlivesRead
<1>3. CASE Select
  BY <1>3, SelectLoop
<1>4. CASE ReadSettings
  BY <1>4 DEF ReadSettings, Goto, loop
<1>5. CASE AcceptUpdate \/ ObserveEnds \/ Recheck \/ Display \/ ShowSwap
           \/ CloseClient \/ JoinSubscribe \/ \E k \in Keys : NextQuote(k)
  BY <1>5 DEF AcceptUpdate, ObserveEnds, Recheck, Display, ShowSwap, CloseClient, JoinSubscribe,
              NextQuote, Goto, Continue
<1> QED
  BY <1>1, <1>2, <1>3, <1>4, <1>5 DEF Next, Work

\* However long the chain takes, and whatever the client does meanwhile, a swap is built
\* only for a frame whose subscription was in force when the chain answered last.
THEOREM SwapSafe == Spec => []SwapOutlivesRead
<1>1. Init => EpochInv
  BY DEF Init, EpochInv, ClientInv, CacheInv, LoopInv, AnswerInv, SwapOutlivesRead, NoQuotes
<1>2. EpochInv /\ [Next]_vars => EpochInv'
  BY ClientKeeps, CacheKeeps, LoopKeeps, AnswerKeeps, SwapKeeps DEF EpochInv
<1>3. EpochInv => SwapOutlivesRead
  BY DEF EpochInv
<1> QED
  BY <1>1, <1>2, <1>3, PTL DEF Spec

=============================================================================
