------------------------------- MODULE Router -------------------------------
(***************************************************************************)
(* The Router client: Subscribe callers, the restore goroutine, the        *)
(* handlers of the read loop, the frame consumer, and the server at the    *)
(* other end of the connection (src/internal/subscription.go, quote.go,    *)
(* router.go and handle in wire.go).                                       *)
(*                                                                         *)
(* The server is not in the repository.  The honest one answers requests   *)
(* in order, acknowledging each filter or refusing the request as a whole, *)
(* and after an acknowledgement sends only frames of that subscription.    *)
(* The faulty one sends any well-formed message at any time.               *)
(***************************************************************************)
EXTENDS Stream

CONSTANTS
  MaxInbox       \* bound: messages in flight to the client

ASSUME RouterAssumption == ~ IsMaker /\ MaxInbox \in Nat

Message(kind) ==
  [ kind |-> kind, results |-> << >>, key |-> NoPair, revision |-> 0 ]

\* Lists of at most two verdicts: enough for a list that is too long and one
\* that is too short.
Verdicts == UNION {[1 .. n -> BOOLEAN] : n \in 0 .. 2}

-----------------------------------------------------------------------------
(* subscribe *)

SubscribeCall(p) ==
  /\ Enter(p)
  /\ \E request \in Requests :
       loc' = [loc EXCEPT ![p] = [NoLocals EXCEPT !.payload = request]]
  /\ Goto(p, "sgate")
  /\ UNCHANGED << c, ticks, history, gates, network >>

\* Subscribe returns to its caller; nothing depends on the result it returns.
Return(p) ==
  /\ Goto(p, "idle")
  /\ loc' = [loc EXCEPT ![p] = NoLocals]

SubscribeGateTimeout(p) ==
  /\ pc[p] = "sgate"
  /\ Return(p)
  /\ UNCHANGED << c, calls, ticks, history, gates, network >>

SubscribeGateStopped(p) ==
  /\ pc[p] = "sgate"
  /\ c.ctxDone
  /\ Return(p)
  /\ UNCHANGED << c, calls, ticks, history, gates, network >>

\* With the token, the present session is looked up once.
SubscribeEnter(p) ==
  /\ pc[p] = "sgate"
  /\ subscribeGate
  /\ IF c.stopped \/ c.current = NoSession
     THEN /\ Return(p)
          /\ UNCHANGED subscribeGate
     ELSE /\ subscribeGate' = FALSE
          /\ Goto(p, "wgate")
          /\ loc' = [loc EXCEPT ![p].s = c.current]
  /\ UNCHANGED << c, calls, ticks, history, writeGate, network >>

-----------------------------------------------------------------------------
(* sendSubscription, for a Subscribe caller and for restore *)

\* sendSubscription returns err.  subscribe gives the token back on its way out.
Conclude(p, err) ==
  IF p = Restore
  THEN /\ Goto(p, "settle")
       /\ loc' = [loc EXCEPT ![p].err = err]
       /\ UNCHANGED subscribeGate
  ELSE Return(p) /\ subscribeGate' = TRUE

\* write returned; a failure after its start discards the session.
SubscriptionWritten(p) ==
  /\ pc[p] = "written"
  /\ IF loc[p].err = NoErr
     THEN Goto(p, "await") /\ UNCHANGED << c, loc, subscribeGate >>
     ELSE /\ c' = IF loc[p].started THEN Discard(c, loc[p].s, loc[p].err) ELSE c
          /\ Conclude(p, loc[p].err)
  /\ UNCHANGED << calls, ticks, history, writeGate, network >>

AwaitReply(p) ==
  /\ pc[p] = "await"
  /\ c.reply[p].full
  /\ c' = [c EXCEPT !.reply[p] = NoReply]
  /\ Conclude(p, c.reply[p].err)
  /\ UNCHANGED << calls, ticks, history, writeGate, network >>

\* Fault: only a lost session ends the wait.
AwaitTimeoutNever(p) ==
  /\ pc[p] = "await"
  /\ ~ c.reply[p].full
  /\ SessionDone(c, loc[p].s)
  /\ Goto(p, "expired")
  /\ UNCHANGED << c, loc, calls, ticks, history, gates, network >>

\* The call's context ends and no reply is there; one may still come before
\* the session is discarded, and is lost.
AwaitTimeout(p) ==
  /\ pc[p] = "await"
  /\ ~ c.reply[p].full
  /\ Goto(p, "expired")
  /\ UNCHANGED << c, loc, calls, ticks, history, gates, network >>

\* Fault: a call that timed out leaves the session and its request in place.
AwaitExpiredKeepsSession(p) ==
  /\ pc[p] = "expired"
  /\ c' = [c EXCEPT !.reply[p] = NoReply]
  /\ Conclude(p, "transient")
  /\ UNCHANGED << calls, ticks, history, writeGate, network >>

\* Fault: a call that timed out only withdraws its request.
AwaitExpiredWithdraws(p) ==
  /\ pc[p] = "expired"
  /\ c' = [c EXCEPT !.reply[p] = NoReply, !.pending = NoPending]
  /\ Conclude(p, "transient")
  /\ UNCHANGED << calls, ticks, history, writeGate, network >>

AwaitExpired(p) ==
  /\ pc[p] = "expired"
  /\ c' = [Discard(c, loc[p].s, "transient") EXCEPT !.reply[p] = NoReply]
  /\ Conclude(p, "transient")
  /\ UNCHANGED << calls, ticks, history, writeGate, network >>

AwaitDisconnected(p) ==
  /\ pc[p] = "await"
  /\ SessionDone(c, loc[p].s)
  /\ ~ c.reply[p].full
  /\ LET cause == c.failure[loc[p].s]
     IN  Conclude(p, IF cause = NoErr THEN "transient" ELSE cause)
  /\ UNCHANGED << c, calls, ticks, history, writeGate, network >>

SendSubscription(p) ==
  \/ SubscriptionWritten(p)
  \/ AwaitReply(p)
  \/ AwaitTimeout(p)
  \/ AwaitExpired(p)
  \/ AwaitDisconnected(p)

-----------------------------------------------------------------------------
(* restore *)

RestoreLoad ==
  /\ pc[Restore] = "load"
  /\ IF c.saved = NoRequest
     THEN Goto(Restore, "finish") /\ UNCHANGED loc
     ELSE /\ Goto(Restore, "wgate")
          /\ loc' = [loc EXCEPT ![Restore] =
                       [NoLocals EXCEPT !.s = loc[Run].s, !.payload = c.saved]]
  /\ UNCHANGED << c, calls, ticks, history, gates, network >>

\* Fault: a failed restoration keeps the session.
RestoreSettleForgives ==
  /\ pc[Restore] = "settle"
  /\ c' = IF loc[Restore].err = "server" THEN StopLocked(c, "server") ELSE c
  /\ Goto(Restore, "finish")
  /\ UNCHANGED << loc, calls, ticks, history, gates, network >>

\* A refusal stops the client; any other failure discards the session.
RestoreSettle ==
  /\ pc[Restore] = "settle"
  /\ c' = CASE loc[Restore].err = "server" -> StopLocked(c, "server")
            [] loc[Restore].err = NoErr    -> c
            [] OTHER -> Discard(c, loc[Restore].s, loc[Restore].err)
  /\ Goto(Restore, "finish")
  /\ UNCHANGED << loc, calls, ticks, history, gates, network >>

RestoreFinish ==
  /\ pc[Restore] = "finish"
  /\ c' = SignalLocked([c EXCEPT !.restoring = FALSE])
  /\ subscribeGate' = TRUE
  /\ Goto(Restore, "off")
  /\ loc' = [loc EXCEPT ![Restore] = NoLocals]
  /\ UNCHANGED << calls, ticks, history, writeGate, network >>

-----------------------------------------------------------------------------
(* handle: the messages whose effect depends on the state *)

Receive(kind) ==
  /\ pc[Run] = "read"
  /\ inbox # << >>
  /\ Head(inbox).kind = kind
  /\ inbox' = Tail(inbox)
  /\ UNCHANGED << calls, ticks, history, gates, outbox, peer >>

HandleAck ==
  /\ Receive("ack")
  /\ LET m == Head(inbox) IN
       /\ c' = Ack(c, loc[Run].s, m.results, m.revision)
       /\ Handled(IF AckFails(c, loc[Run].s, m.results) THEN "protocol" ELSE NoErr)

HandleTooLarge ==
  /\ Receive("too_large")
  /\ c' = TooLarge(c, loc[Run].s)
  /\ Handled(IF TooLargeFails(c, loc[Run].s) THEN "protocol" ELSE NoErr)

HandleServerError ==
  /\ Receive("error")
  /\ c' = OtherServerError(c, loc[Run].s)
  /\ UNCHANGED << pc, loc >>

HandleFrame ==
  /\ Receive("frame")
  /\ LET m == Head(inbox) IN
       /\ c' = Update(c, loc[Run].s, m.key, m.revision)
       /\ Handled(UpdateError(c, loc[Run].s, m.key))

\* The caller receives one frame.
DrainFrame ==
  /\ c.frames # << >>
  /\ c' = [c EXCEPT !.frames = Tail(@)]
  /\ UNCHANGED << pc, loc, calls, ticks, history, gates, network >>

-----------------------------------------------------------------------------
(* the server *)

Send(message) ==
  /\ Reading
  /\ Len(inbox) < MaxInbox
  /\ inbox' = Append(inbox, message)
  /\ UNCHANGED << c, pc, loc, calls, ticks, history, gates >>

\* The server decides on every filter of the oldest request.
ServerAck ==
  /\ outbox # << >>
  /\ outbox' = Tail(outbox)
  /\ LET request == Head(outbox).payload
         revision == Head(outbox).revision
     IN  \E results \in [1 .. Len(request) -> BOOLEAN] :
           /\ peer' = [peer EXCEPT
                !.revision = revision,
                !.filters = {request[i] : i \in {j \in DOMAIN request : results[j]}}]
           /\ Send([Message("ack") EXCEPT !.results = results, !.revision = revision])

ServerTooLarge ==
  /\ outbox # << >>
  /\ outbox' = Tail(outbox)
  /\ peer' = [peer EXCEPT !.refused = Head(outbox).revision]
  /\ Send([Message("too_large") EXCEPT !.revision = Head(outbox).revision])

ServerFrame ==
  /\ \E f \in peer.filters : \E key \in f :
       Send([Message("frame") EXCEPT !.key = key, !.revision = peer.revision])
  /\ UNCHANGED << outbox, peer >>

\* An error of another code, and a heartbeat that asks for a pong.
ServerReport ==
  /\ \E kind \in {"error", "ping"} \intersect Disturbances : Send(Message(kind))
  /\ UNCHANGED << outbox, peer >>

ServerFault ==
  /\ "fault" \in Disturbances
  /\ \/ \E results \in Verdicts : Send([Message("ack") EXCEPT !.results = results])
     \/ \E key \in Keys \union {NoPair} : Send([Message("frame") EXCEPT !.key = key])
     \/ Send(Message("too_large"))
  /\ UNCHANGED << outbox, peer >>

-----------------------------------------------------------------------------
Init == StreamInit

RestoreStep ==
  RestoreLoad \/ RestoreSettle \/ RestoreFinish \/ Write(Restore) \/ SendSubscription(Restore)

SubscribeStep(p) ==
  \/ SubscribeGateTimeout(p) \/ SubscribeGateStopped(p) \/ SubscribeEnter(p)
  \/ Write(p) \/ SendSubscription(p)

Handler == HandleAck \/ HandleTooLarge \/ HandleServerError \/ HandleFrame

Server ==
  \/ ServerAck \/ ServerTooLarge \/ ServerFrame \/ ServerReport
  \/ ServerFault

Next ==
  \/ StreamNext
  \/ RestoreStep
  \/ \E p \in Writers : SubscribeCall(p) \/ SubscribeStep(p)
  \/ Handler
  \/ DrainFrame
  \/ Server

Spec == Init /\ [][Next]_vars

(***************************************************************************)
(* Every goroutine that can go on does: all its waits end by a deadline or *)
(* by a cancelled context.  Nothing is assumed of the server, the network, *)
(* the consumer of the channels or the caller.                             *)
(***************************************************************************)
Fairness ==
  /\ WF_vars(RunStep)
  /\ WF_vars(BeatStep)
  /\ WF_vars(RestoreStep)
  /\ \A p \in Writers : WF_vars(SubscribeStep(p))
  /\ \A p \in Waiters : WF_vars(ReconnectStep(p))

FairSpec == Spec /\ Fairness

-----------------------------------------------------------------------------
(* Properties *)

Messages ==
  [ kind: {"ack", "frame", "too_large", "error", "ping"}, results: Seq(BOOLEAN),
    key: Keys \union {NoPair}, revision: Nat ]

\* Every variable stays in its type; this covers the bounds of both queues.
TypeOK ==
  /\ StreamTypeOK
  /\ Len(c.frames) <= FrameBufferSize
  /\ inbox \in Seq(Messages)
  /\ outbox \in Seq([ payload: Requests, revision: Nat ])
  /\ peer \in [ revision: Nat, filters: SUBSET Filters, refused: Nat ]

\* Every queued frame carries the present generation and revision, passes the
\* accepted filters, and is queued only while a subscription is active
\* (Subscribe: "Queued frames are discarded once writing starts").
FramesAreCurrent == FramesAgree(c) /\ (c.frames # << >> => c.current # NoSession)

\* The pending request is the newest one, on the present session, with delivery
\* paused, and its caller is still waiting and holds the sequencer.
PendingIsInFlight ==
  c.pending # NoPending =>
    /\ c.pending.session = c.current
    /\ c.pending.revision = c.revision
    /\ ~ c.ready
    /\ ~ SessionDone(c, c.current) =>
         /\ ~ subscribeGate
         /\ loc[c.pending.owner].revision = c.pending.revision
         /\ pc[c.pending.owner] \in {"write", "wrote", "written", "await", "expired"}

\* With an honest server a successful Subscribe was answered for its own
\* request: a timed-out call discards the session, so that its late
\* acknowledgement cannot answer the next call.
AckAnswersRequest ==
  \A o \in Owners : c.reply[o].full /\ c.reply[o].err = NoErr =>
                       c.reply[o].answers = c.reply[o].revision

\* With an honest server a queued frame was sent for the acknowledged request,
\* never for the one it replaced.
FramesAnswerRequest ==
  \A i \in DOMAIN c.frames : c.frames[i].source = c.frames[i].revision

\* An honest server is never taken for one that violates the protocol: its next
\* answer always finds the request it answers.
HonestServerNotAccused ==
  pc[Run] = "read" /\ inbox # << >> =>
    LET m == Head(inbox) IN
      /\ m.kind = "ack" => ~ AckFails(c, loc[Run].s, m.results)
      /\ m.kind = "too_large" => ~ TooLargeFails(c, loc[Run].s)

\* A connected client that is not restoring has its saved request acknowledged,
\* or in flight, or refused by the server (restore: "must not leave an
\* apparently connected client silently unsubscribed").
NotSilentlyUnsubscribed ==
  c.phase = "connected" /\ ~ c.restoring /\ c.saved # NoRequest
    /\ ~ SessionDone(c, c.current)
  => c.ready \/ c.pending # NoPending \/ peer.refused = c.revision

\* The whole client, with its sessions, goroutines and acknowledgements, is an
\* implementation of the abstract feed: what status and the frame channel show
\* changes only in the ways the feed allows.
AbstractFeed ==
  INSTANCE Feed WITH phase <- c.phase, generation <- c.generation,
    revision <- c.revision, asked <- (c.pending # NoPending), open <- c.ready,
    queue <- c.frames

RefinesFeed == AbstractFeed!Spec

\* Every Subscribe call returns: the gate, the writer's gate, the write and the
\* acknowledgement are all awaited under a deadline, and no token is lost.
SubscribeReturns ==
  \A p \in Writers : (pc[p] # "idle") ~> (pc[p] = "idle")

=============================================================================
