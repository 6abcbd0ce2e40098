------------------------------ MODULE Observer ------------------------------
(***************************************************************************)
(* The router example: the event loop of run with its cache of frames      *)
(* (src/examples/router/router.go, output.go) over the router client and   *)
(* the chain.                                                              *)
(*                                                                         *)
(* The client is represented by what it promises, the steps of Feed, which *)
(* Router is shown to implement, and by its event channel.  A step of the  *)
(* loop is one case of its select, or the code between two looks at shared *)
(* state: Status() is read again and again while the client moves on, and  *)
(* a swap needs six reads of the chain in between.  The display order of   *)
(* quotes, log texts and redaction are left out.                           *)
(***************************************************************************)
EXTENDS Reads, FiniteSets

CONSTANTS
  Keys,          \* streams: chain, pair and maker
  SwapKeys,      \* the stream that cfg.Swap selects, or none
  Wires,         \* marshalled frames
  NoUpdate,      \* no cached frame
  NoWire,        \* no fingerprint
  MaxCache,      \* options.maxCache
  FrameBuffer,   \* options.frameBuffer
  EventBuffer,   \* the SDK's EventBufferSize
  MaxGeneration, \* bound: connections
  MaxRevision    \* bound: subscription requests

ASSUME ObserverAssumption ==
  /\ SwapKeys \subseteq Keys
  /\ MaxCache \in Nat \ {0} /\ FrameBuffer \in Nat \ {0} /\ EventBuffer \in Nat \ {0}
  /\ MaxGeneration \in Nat \ {0} /\ MaxRevision \in Nat
  /\ NoWire \notin Wires /\ NoUpdate \notin [ generation: Nat, revision: Nat, key: Keys, wire: Wires ]

VARIABLES
  phase, generation, revision, asked, open, queue,   \* the client, as in Feed
  events,      \* the client's event channel
  cancelled,   \* ctx
  subscribing, \* the goroutine that calls Subscribe, and its reply
  listening,   \* frames is not nil
  latest,      \* quoteObserver.latest
  seen,        \* quoteObserver.seen
  epoch,       \* quoteObserver.generation and revision
  pc,          \* the place in run or observe
  todo,        \* local of observe: quotes not visited yet
  held,        \* the update or quote in hand
  shown,       \* history: what was displayed in the present epoch
  answered     \* history: the client's phase and epoch when the chain answered last

F == INSTANCE Feed

feed == << phase, generation, revision, asked, open, queue >>
cache == << latest, seen, epoch >>
loop == << pc, todo, held >>
history == << shown, answered >>
vars == << feed, events, cancelled, subscribing, listening, cache, loop, history, readVars >>

Updates == [ generation: Nat, revision: Nat, key: Keys, wire: Wires ]
EventKinds == {"connection", "accepted", "rejected", "error"}
NoQuotes == [k \in Keys |-> NoUpdate]
NothingSeen == [k \in Keys |-> NoWire]
NoEpoch == << 0, 0 >>
NoAnswer == << "stopped", 0, 0 >>

\* router.Dial returned, and Subscribe is called beside the loop.
Init ==
  /\ phase = "connected" /\ generation = 1 /\ revision = 0
  /\ asked = FALSE /\ open = FALSE /\ queue = << >>
  /\ events = << "connection" >>
  /\ cancelled = FALSE
  /\ subscribing = "waiting"
  /\ listening = FALSE
  /\ latest = NoQuotes /\ seen = NothingSeen /\ epoch = NoEpoch
  /\ pc = "select" /\ todo = {} /\ held = NoUpdate
  /\ shown = {} /\ answered = NoAnswer
  /\ ReadsInit

-----------------------------------------------------------------------------
(* The client (Feed) and its events *)

\* A full event buffer stops the client instead.
Emit(kind) == Len(events) < EventBuffer /\ events' = Append(events, kind)

\* What happens beside the loop leaves the loop alone.
Beside == UNCHANGED << cancelled, listening, cache, loop, answered, readVars >>

FeedConnect ==
  /\ generation < MaxGeneration
  /\ F!Connect /\ Emit("connection") /\ shown' = {}
  /\ Beside /\ UNCHANGED subscribing

FeedLose ==
  /\ F!Lose /\ Emit("connection") /\ shown' = {}
  /\ Beside /\ UNCHANGED subscribing

FeedAsk ==
  /\ revision < MaxRevision
  /\ F!Ask /\ shown' = {}
  /\ Beside /\ UNCHANGED << events, subscribing >>

\* The acknowledgement answers the Subscribe call when it still waits; later ones
\* answer restorations.
FeedAccept ==
  /\ F!Accept
  /\ \E kind \in {"accepted", "rejected"} :
       /\ Emit(kind)
       /\ subscribing' = IF subscribing = "waiting" THEN kind ELSE subscribing
  /\ Beside /\ UNCHANGED shown

FeedRefuse ==
  /\ F!Refuse /\ Emit("error")
  /\ subscribing' = IF subscribing = "waiting" THEN "error" ELSE subscribing
  /\ Beside /\ UNCHANGED shown

FeedDeliver ==
  /\ Len(queue) < FrameBuffer
  /\ \E k \in Keys, w \in Wires :
       queue' = Append(queue, [ generation |-> generation, revision |-> revision,
                                key |-> k, wire |-> w ])
  /\ F!Deliver
  /\ Beside /\ UNCHANGED << events, subscribing, shown >>

\* A terminal error, a full buffer or the end of ctx, with a last event if it fits.
FeedStop ==
  /\ F!Stop /\ generation' <= MaxGeneration /\ shown' = {}
  /\ events' = IF Len(events) < EventBuffer THEN Append(events, "connection") ELSE events
  /\ Beside /\ UNCHANGED subscribing

\* An error report of the server that changes nothing.
FeedReport ==
  /\ phase = "connected"
  /\ Emit("error")
  /\ Beside /\ UNCHANGED << feed, subscribing, shown >>

Cancel ==
  /\ ~ cancelled
  /\ cancelled' = TRUE
  /\ UNCHANGED << feed, events, subscribing, listening, cache, loop, history, readVars >>

\* Fault: the reply channel has no buffer and waits for the loop.
SubscribeFailsUnbuffered ==
  /\ subscribing = "waiting" /\ pc = "select"
  /\ subscribing' = "error"
  /\ UNCHANGED << feed, events, cancelled, listening, cache, loop, history, readVars >>

\* Subscribe returns by its deadline at the latest; the reply fits in the channel.
SubscribeFails ==
  /\ subscribing = "waiting"
  /\ subscribing' = "error"
  /\ UNCHANGED << feed, events, cancelled, listening, cache, loop, history, readVars >>

-----------------------------------------------------------------------------
(* quoteObserver *)

\* Fault: a new epoch forgets the quotes but not what was displayed.
SyncedKeepsSeen ==
  IF phase = "connected" /\ epoch = << generation, revision >>
  THEN [ latest |-> latest, seen |-> seen, epoch |-> epoch ]
  ELSE [ latest |-> NoQuotes, seen |-> seen, epoch |-> << generation, revision >> ]

\* The cache after sync(client.Status()).
Synced ==
  IF phase = "connected" /\ epoch = << generation, revision >>
  THEN [ latest |-> latest, seen |-> seen, epoch |-> epoch ]
  ELSE [ latest |-> NoQuotes, seen |-> NothingSeen, epoch |-> << generation, revision >> ]

SetCache(c) == latest' = c.latest /\ seen' = c.seen /\ epoch' = c.epoch
Sync == SetCache(Synced)

\* current(client.Status(), quote), with the epoch of the cache as e.
Current(quote, e) ==
  /\ phase = "connected"
  /\ e = << generation, revision >>
  /\ << quote.generation, quote.revision >> = e

Goto(label) == pc' = label /\ UNCHANGED << todo, held >>

\* The loop ends; deferred calls follow.
Exit == Goto("exit") /\ UNCHANGED << feed, subscribing, history, readVars, cancelled >>

-----------------------------------------------------------------------------
(* The select of run *)

SelectDone ==
  /\ pc = "select" /\ cancelled
  /\ Exit
  /\ UNCHANGED << events, listening, cache >>

\* Every filter must have been accepted.
SelectReply ==
  /\ pc = "select" /\ subscribing \in {"accepted", "rejected", "error"}
  /\ subscribing' = "received"
  /\ listening' = (subscribing = "accepted")
  /\ Goto(IF subscribing = "accepted" THEN "select" ELSE "exit")
  /\ UNCHANGED << feed, events, cancelled, cache, history, readVars >>

SelectFrame ==
  /\ pc = "select" /\ listening
  /\ F!Take
  /\ held' = Head(queue) /\ pc' = "accept"
  /\ UNCHANGED << events, cancelled, subscribing, listening, cache, todo, history, readVars >>

SelectFramesClosed ==
  /\ pc = "select" /\ listening /\ phase = "stopped"
  /\ Exit
  /\ UNCHANGED << events, listening, cache >>

\* accept: sync with the present status, drop what is not current, keep the newest.
AcceptUpdate ==
  /\ pc = "accept"
  /\ LET quotes == Synced.latest
         reject == /\ quotes[held.key] = NoUpdate
                   /\ Cardinality({k \in Keys : quotes[k] # NoUpdate}) >= MaxCache
     IN  \/ /\ ~ Current(held, Synced.epoch)
            /\ Sync /\ pc' = "select"
         \/ /\ Current(held, Synced.epoch) /\ ~ reject
            /\ SetCache([Synced EXCEPT !.latest[held.key] = held]) /\ pc' = "select"
         \/ /\ Current(held, Synced.epoch) /\ reject
            /\ Sync /\ pc' = "exit"
  /\ held' = NoUpdate
  /\ UNCHANGED << feed, events, cancelled, subscribing, listening, todo, history, readVars >>

\* The cache follows the present status, not the status in the event.
SelectEvent ==
  /\ pc = "select" /\ events # << >>
  /\ events' = Tail(events)
  /\ Sync
  /\ Goto(IF Head(events) \in {"rejected", "error"} THEN "exit" ELSE "select")
  /\ UNCHANGED << feed, cancelled, subscribing, listening, history, readVars >>

SelectEventsClosed ==
  /\ pc = "select" /\ events = << >> /\ phase = "stopped"
  /\ Exit
  /\ UNCHANGED << events, listening, cache >>

SelectStatus ==
  /\ pc = "select"
  /\ Sync
  /\ UNCHANGED << feed, events, cancelled, subscribing, listening, loop, history, readVars >>

-----------------------------------------------------------------------------
(* observe *)

SelectTick ==
  /\ pc = "select"
  /\ Sync
  /\ todo' = {k \in Keys : latest'[k] # NoUpdate}
  /\ pc' = "observe"
  /\ UNCHANGED << feed, events, cancelled, subscribing, listening, held, history, readVars >>

\* observe leaves the client, the cache of frames and the goroutine alone.
Observing ==
  UNCHANGED << feed, events, cancelled, subscribing, listening, latest, epoch >>

\* The loop of observe goes on to the next quote.
Continue == pc' = "observe" /\ held' = NoUpdate /\ UNCHANGED todo

NextQuote(k) ==
  /\ pc = "observe" /\ k \in todo
  /\ todo' = todo \ {k}
  /\ LET quote == latest[k]
     IN  IF Current(quote, epoch) /\ seen[k] # quote.wire
         THEN held' = quote /\ pc' = "recheck"
         ELSE UNCHANGED << held, pc >>
  /\ Observing /\ UNCHANGED << seen, history, readVars >>

ObserveEnds ==
  /\ pc = "observe" /\ todo = {}
  /\ Goto("select")
  /\ Observing /\ UNCHANGED << seen, history, readVars >>

Recheck ==
  /\ pc = "recheck"
  /\ IF Current(held, epoch) THEN Goto("display") ELSE Continue
  /\ Observing /\ UNCHANGED << seen, history, readVars >>

\* The quote and its book are logged; a swap follows for the configured stream.
Display ==
  /\ pc = "display"
  /\ seen' = [seen EXCEPT ![held.key] = held.wire]
  /\ shown' = IF Current(held, epoch) THEN shown \cup {<< held.key, held.wire >>} ELSE shown
  /\ \/ held.key \in SwapKeys /\ Goto("read") /\ StartReading /\ UNCHANGED chain
     \/ held.key \notin SwapKeys /\ Continue /\ UNCHANGED readVars
  /\ Observing /\ UNCHANGED answered

ReadSettings ==
  /\ pc = "read" /\ Read
  /\ answered' = << phase, generation, revision >>
  /\ IF reading' \in Calls THEN UNCHANGED loop ELSE Goto("confirm")
  /\ Observing /\ UNCHANGED << seen, shown >>

\* Fault: the status read before the chain was asked is taken as good enough.
ConfirmNothing ==
  /\ pc = "confirm"
  /\ IF reading = "done"
     THEN Goto("show") /\ UNCHANGED << answered, readVars >>
     ELSE Continue /\ Forget /\ answered' = NoAnswer /\ UNCHANGED chain
  /\ Observing /\ UNCHANGED << seen, shown >>

Confirm ==
  /\ pc = "confirm"
  /\ IF reading = "done" /\ Current(held, epoch)
     THEN Goto("show") /\ UNCHANGED << answered, readVars >>
     ELSE Continue /\ Forget /\ answered' = NoAnswer /\ UNCHANGED chain
  /\ Observing /\ UNCHANGED << seen, shown >>

\* showSwap: Quote and BuildSwap, which succeed or only log their error.
ShowSwap ==
  /\ pc = "show"
  /\ Continue /\ Forget /\ answered' = NoAnswer
  /\ Observing /\ UNCHANGED << seen, shown, chain >>

-----------------------------------------------------------------------------
(* The deferred calls of run *)

\* client.Close() stops the client unless it has stopped.
CloseClient ==
  /\ pc = "exit"
  /\ \/ phase = "stopped" /\ UNCHANGED << feed, shown >>
     \/ F!Stop /\ generation' <= MaxGeneration /\ shown' = {}
  /\ Goto("join")
  /\ UNCHANGED << events, cancelled, subscribing, listening, cache, answered, readVars >>

JoinSubscribe ==
  /\ pc = "join" /\ subscribing # "waiting"
  /\ Goto("done")
  /\ UNCHANGED << feed, events, cancelled, subscribing, listening, cache, history, readVars >>

-----------------------------------------------------------------------------
Client ==
  \/ FeedConnect \/ FeedLose \/ FeedAsk \/ FeedAccept \/ FeedRefuse
  \/ FeedDeliver \/ FeedStop \/ FeedReport

ChainGrows ==
  /\ Mine
  /\ UNCHANGED << feed, events, cancelled, subscribing, listening, cache, loop, history >>

Select ==
  \/ SelectDone \/ SelectReply \/ SelectFrame \/ SelectFramesClosed
  \/ SelectEvent \/ SelectEventsClosed \/ SelectStatus \/ SelectTick

\* The loop between two selects, and after the last.
Work ==
  \/ AcceptUpdate \/ (\E k \in Keys : NextQuote(k)) \/ ObserveEnds \/ Recheck \/ Display
  \/ ReadSettings \/ Confirm \/ ShowSwap \/ CloseClient \/ JoinSubscribe

Next == Client \/ Cancel \/ SubscribeFails \/ ChainGrows \/ Select \/ Work

Spec == Init /\ [][Next]_vars

\* Each RPC answers or times out, Subscribe returns, and a select takes every case
\* that is ready again and again.
FairSpec ==
  /\ Spec
  /\ WF_vars(Work)
  /\ WF_vars(SubscribeFails)
  /\ SF_vars(SelectTick)
  /\ SF_vars(SelectDone)

-----------------------------------------------------------------------------
(* Properties *)

\* A swap is built only from a frame whose subscription was still in force, on a
\* live connection, at the moment of the last answer of the chain, up to ten seconds
\* after the frame was found current (observe rechecks after loadQuoteConfig).
SwapOutlivesRead ==
  pc = "show" => answered = << "connected", held.generation, held.revision >>

Running == pc \notin {"exit", "join", "done"}

\* The cache holds wire w for stream k, and the subscription it came with is in force.
Cached(k, w) ==
  /\ Running /\ latest[k] # NoUpdate
  /\ latest[k].wire = w /\ Current(latest[k], epoch)

\* A cached quote is displayed in the epoch it belongs to, replaced, or outlived by the
\* end of its epoch: a frame that equals one displayed before a reconnect is displayed
\* again (sync clears seen with latest).
CachedIsShown ==
  \A k \in Keys, w \in Wires :
    Cached(k, w) ~> (<< k, w >> \in shown \/ ~ Cached(k, w))

\* run returns on every exit, whatever the Subscribe goroutine was doing: its reply
\* finds room in the channel although nobody receives any more, and the deferred join
\* ends (router.go: "join the subscription goroutine on every exit").
ExitCompletes == pc = "exit" ~> pc = "done"

=============================================================================
