---------------------------- MODULE RouterProofs ----------------------------
(***************************************************************************)
(* Theorems about Router for every number of sessions, callers, filters    *)
(* and buffers.                                                            *)
(*                                                                         *)
(* IndInv adds the types of the messages to the invariant that Maker and   *)
(* Router share.  Every action is shown to be a step of the record in the  *)
(* sense of StreamProofs, and to preserve what IndInv says of the          *)
(* goroutines.                                                             *)
(*                                                                         *)
(* RouterInv adds the sequencer and the connection: who may own a request, *)
(* that nothing is on the wire between two sessions, and that a pending    *)
(* request is in somebody's hands.  It holds whatever the server does.     *)
(* HonestInv adds the turns of requests and answers on the wire, and holds *)
(* when the server answers each request once and for itself.               *)
(***************************************************************************)
EXTENDS Router, StreamProofs

NetworkTypes ==
  /\ inbox \in Seq(Messages)
  /\ outbox \in Seq([ payload: Requests, revision: Nat ])
  /\ peer \in [ revision: Nat, filters: SUBSET Filters, refused: Nat ]

IndInv == StreamInv /\ NetworkTypes

\* Both Subscribe callers and restore own requests.
LEMMA RouterNames == Owners = Writers \union {Restore} /\ ~ IsMaker
BY RouterAssumption DEF Owners

-----------------------------------------------------------------------------
(* subscribe, sendSubscription and restore *)

\* Subscribe up to the write of its request.
LEMMA SubscribeProgress ==
  ASSUME StreamInv, NEW p \in Writers,
         \/ SubscribeCall(p) \/ SubscribeGateTimeout(p) \/ SubscribeGateStopped(p)
         \/ SubscribeEnter(p)
  PROVE  Progress
<1> USE Names, StreamFacts, RouterNames
<1>0. /\ loc[p] \in Locals
      /\ pc[p] = "sgate" => loc[p].payload \in Requests
      /\ p # Run /\ p \notin {Beat, Restore}
  BY DEF LocalsAgree, GoroutineTypes
<1>1. CASE SubscribeCall(p)
  <2>1. PICK request \in Requests :
          loc' = [loc EXCEPT ![p] = [NoLocals EXCEPT !.payload = request]]
    BY <1>1 DEF SubscribeCall
  <2> DEFINE r == [NoLocals EXCEPT !.payload = request]
  <2>2. request \in Payloads \union {NoPayload}
    BY PayloadsAssumption
  <2>3. r \in Locals /\ r.payload = request
    BY <2>2 DEF NoLocals, Locals, Errors
  <2>4. Moved(p, "sgate", r)
    BY <1>1, <2>1 DEF SubscribeCall, Moved, Goto
  <2>5. SharedTypes' /\ UNCHANGED c
    BY <1>1, EnterTypes DEF SubscribeCall
  <2> HIDE DEF r
  <2>6. Fits(p, "sgate", r)
    BY <1>0, <2>3 DEF Fits, Labels, SessionLabels
  <2> QED
    BY <2>4, <2>5, <2>6, SameRecord, MoveProgress
<1>2. ASSUME SubscribeGateTimeout(p) \/ SubscribeGateStopped(p)
      PROVE  Progress
  <2>1. SharedTypes' /\ UNCHANGED c /\ Moved(p, "idle", NoLocals)
    BY <1>2, SharedUnchanged
    DEF SubscribeGateTimeout, SubscribeGateStopped, Return, Moved, Goto
  <2> QED
    BY <2>1, NoLocalsType, CallerFits, SameRecord, MoveProgress
<1>3. CASE SubscribeEnter(p)
  <2>1. UNCHANGED c /\ pc[p] = "sgate"
    BY <1>3 DEF SubscribeEnter
  <2>2. SharedTypes'
    BY <1>3 DEF SubscribeEnter, SharedTypes, GoroutineTypes, history
  <2>4. CASE c.stopped \/ c.current = NoSession
    <3>1. Moved(p, "idle", NoLocals)
      BY <1>3, <2>4 DEF SubscribeEnter, Return, Moved, Goto
    <3> QED
      BY <2>1, <2>2, <3>1, NoLocalsType, CallerFits, SameRecord, MoveProgress
  <2>5. CASE ~ (c.stopped \/ c.current = NoSession)
    <3> DEFINE r == [loc[p] EXCEPT !.s = c.current]
    <3>1. Moved(p, "wgate", r)
      BY <1>3, <2>5 DEF SubscribeEnter, Moved, Goto
    <3>2. r \in Locals /\ r.s \in Sessions /\ r.payload = loc[p].payload
      BY <1>0, <2>5 DEF Locals, ClientState
    <3> HIDE DEF r
    <3>3. Fits(p, "wgate", r)
      BY <1>0, <2>1, <3>2 DEF Fits, Labels
    <3> QED
      BY <2>1, <2>2, <3>1, <3>3, SameRecord, MoveProgress
  <2> QED
    BY <2>4, <2>5
<1> QED
  BY <1>1, <1>2, <1>3

\* sendSubscription returns.
LEMMA ConcludeProgress ==
  ASSUME StreamInv, NEW p \in Owners, NEW err \in Errors, Conclude(p, err),
         pc[p] \in {"written", "await", "expired"},
         c' \in ClientState, QuietStep(c, c'),
         UNCHANGED << calls, ticks, history, writeGate, network >>
  PROVE  Progress
<1> USE Names, StreamFacts, RouterNames
<1>0. loc[p] \in Locals /\ loc[p].s \in Sessions /\ p # Run /\ p # Beat
  BY DEF LocalsAgree, GoroutineTypes, SessionLabels
<1>1. SharedTypes'
  BY DEF SharedTypes, GoroutineTypes, history, Conclude
<1>3. CASE p = Restore
  <2> DEFINE r == [loc[p] EXCEPT !.err = err]
  <2>1. Moved(p, "settle", r)
    BY <1>3 DEF Conclude, Moved, Goto
  <2>2. r \in Locals /\ r.s = loc[p].s
    BY <1>0 DEF Locals
  <2> HIDE DEF r
  <2>3. Fits(p, "settle", r)
    BY <1>0, <2>2 DEF Fits, Labels
  <2> QED
    BY <1>1, <2>1, <2>3, MoveProgress
<1>4. CASE p # Restore
  <2>1. Moved(p, "idle", NoLocals) /\ p \in Writers
    BY <1>4 DEF Conclude, Return, Moved, Goto
  <2> QED
    BY <1>1, <2>1, NoLocalsType, CallerFits, MoveProgress
<1> QED
  BY <1>3, <1>4

\* sendSubscription after the write.
LEMMA SendProgress ==
  ASSUME StreamInv, NEW p \in Owners, SendSubscription(p)
  PROVE  Progress
<1> USE Names, StreamFacts, RouterNames
<1>0. /\ loc[p] \in Locals /\ loc[p].err \in Errors /\ p # Run /\ p # Beat
      /\ pc[p] \in {"written", "await", "expired"} => loc[p].s \in Sessions
      /\ "transient" \in Errors /\ NoReply \in Replies
      /\ c.reply[p] \in Replies /\ c.reply[p].err \in Errors
  <2>1. loc[p] \in Locals /\ loc[p].err \in Errors /\ p # Run /\ p # Beat
    BY DEF GoroutineTypes, Locals
  <2>2. pc[p] \in {"written", "await", "expired"} => loc[p].s \in Sessions
    BY DEF LocalsAgree, SessionLabels
  <2>3. "transient" \in Errors /\ NoReply \in Replies
    BY DEF Errors, TransientErrors, NoReply, Replies
  <2>4. c.reply[p] \in Replies /\ c.reply[p].err \in Errors
    BY DEF ClientState, Replies
  <2> QED
    BY <2>1, <2>2, <2>3, <2>4
<1>1. CASE SubscriptionWritten(p)
  <2>1. pc[p] = "written" /\ UNCHANGED << calls, ticks, history, writeGate, network >>
    BY <1>1 DEF SubscriptionWritten
  <2>2. CASE loc[p].err = NoErr
    <3>1. UNCHANGED << c, subscribeGate >> /\ Moved(p, "await", loc[p])
      BY <1>1, <2>2 DEF SubscriptionWritten, Moved, Goto
    <3>2. SharedTypes'
      BY <2>1, <3>1 DEF SharedTypes, GoroutineTypes, history
    <3>4. Fits(p, "await", loc[p])
      BY <1>0, <2>1 DEF Fits, Labels
    <3> QED
      BY <3>1, <3>2, <3>4, SameRecord, MoveProgress
  <2>3. CASE loc[p].err # NoErr
    <3>1. Conclude(p, loc[p].err)
      BY <1>1, <2>3 DEF SubscriptionWritten
    <3>2. c' = Discard(c, loc[p].s, loc[p].err) \/ UNCHANGED c
      BY <1>1, <2>3 DEF SubscriptionWritten
    <3>3. c' \in ClientState /\ QuietStep(c, c')
      BY <1>0, <2>1, <3>2, DiscardStep, SameRecord
    <3> QED
      BY <1>0, <2>1, <3>1, <3>3, ConcludeProgress
  <2> QED
    BY <2>2, <2>3
<1>2. CASE AwaitReply(p)
  <2>1. /\ pc[p] = "await" /\ Conclude(p, c.reply[p].err)
        /\ UNCHANGED << calls, ticks, history, writeGate, network >>
        /\ c' = [c EXCEPT !.reply[p] = NoReply]
    BY <1>2 DEF AwaitReply
  <2>2. c' \in ClientState /\ QuietStep(c, c')
    BY <1>0, <2>1, ReplyFacts DEF QuietStep
  <2> QED
    BY <1>0, <2>1, <2>2, ConcludeProgress
<1>3. CASE AwaitTimeout(p)
  <2>1. /\ pc[p] = "await" /\ UNCHANGED c /\ Moved(p, "expired", loc[p])
        /\ SharedTypes'
    BY <1>3, SharedUnchanged DEF AwaitTimeout, Moved, Goto
  <2>2. Fits(p, "expired", loc[p])
    BY <1>0, <2>1 DEF Fits, Labels
  <2> QED
    BY <2>1, <2>2, SameRecord, MoveProgress
<1>4. CASE AwaitExpired(p)
  <2> DEFINE d == Discard(c, loc[p].s, "transient")
  <2>1. /\ pc[p] = "expired" /\ Conclude(p, "transient")
        /\ UNCHANGED << calls, ticks, history, writeGate, network >>
        /\ c' = [d EXCEPT !.reply[p] = NoReply]
    BY <1>4 DEF AwaitExpired
  <2>2. /\ d \in ClientState
        /\ \/ c.current # loc[p].s /\ Same(c, d)
           \/ /\ c.current = loc[p].s /\ ~ c.stopped
              /\ (Lost(c, d) /\ Told(c, d)) \/ Halted(c, d, "event_full")
    BY <1>0, <2>1, DiscardFacts
  <2>3. c.current = loc[p].s => c.current # NoSession
    BY <1>0, <2>1, MaxSessionsAssumption DEF Sessions, NoSession
  <2> HIDE DEF d
  <2>4. c' \in ClientState /\ Same(d, c')
    BY <1>0, <2>1, <2>2, ReplyFacts
  <2>5. \/ Same(c, c')
        \/ ~ c.stopped /\ c.current # NoSession /\ Lost(c, c') /\ Told(c, d)
        \/ ~ c.stopped /\ Halted(c, c', "event_full")
    BY <2>2, <2>3, <2>4 DEF Same, Lost, Halted
  <2>6. QuietStep(c, c')
    <3>1. Told(c, d) => Told(c, c')
      BY <2>1, <2>2, EventsKept DEF Told
    <3> QED
      BY <2>5, <3>1 DEF QuietStep
  <2> QED
    BY <1>0, <2>1, <2>4, <2>6, ConcludeProgress
<1>5. CASE AwaitDisconnected(p)
  <2>1. /\ pc[p] = "await" /\ UNCHANGED c
        /\ UNCHANGED << calls, ticks, history, writeGate, network >>
    BY <1>5 DEF AwaitDisconnected
  <2>2. PICK err \in Errors : Conclude(p, err)
    <3>1. c.failure[loc[p].s] \in Errors
      BY <1>0, <2>1 DEF ClientState
    <3> QED
      BY <1>0, <1>5, <3>1 DEF AwaitDisconnected
  <2> QED
    BY <2>1, <2>2, SameRecord, ConcludeProgress
<1> QED
  BY <1>1, <1>2, <1>3, <1>4, <1>5 DEF SendSubscription

\* The restore goroutine.
LEMMA RestoreProgress ==
  ASSUME StreamInv, RestoreLoad \/ RestoreSettle \/ RestoreFinish
  PROVE  Progress
<1> USE Names, StreamFacts, RouterNames
<1>0. /\ loc[Restore] \in Locals
      /\ pc[Restore] # "off" => loc[Run].s \in Sessions
      /\ pc[Restore] = "settle" => loc[Restore].s \in Sessions
  BY DEF LocalsAgree, GoroutineTypes, SessionLabels, Returned
<1>1. CASE RestoreLoad
  <2>1. pc[Restore] = "load" /\ UNCHANGED c /\ SharedTypes'
    BY <1>1, SharedUnchanged DEF RestoreLoad
  <2>2. CASE c.saved = NoRequest
    <3>1. Moved(Restore, "finish", loc[Restore])
      BY <1>1, <2>2 DEF RestoreLoad, Moved, Goto
    <3>2. Fits(Restore, "finish", loc[Restore])
      BY <1>0, <2>1 DEF Fits, Labels, SessionLabels
    <3> QED
      BY <2>1, <3>1, <3>2, SameRecord, MoveProgress
  <2>3. CASE c.saved # NoRequest
    <3> DEFINE r == [NoLocals EXCEPT !.s = loc[Run].s, !.payload = c.saved]
    <3>1. Moved(Restore, "wgate", r)
      BY <1>1, <2>3 DEF RestoreLoad, Moved, Goto
    <3>2. c.saved \in Requests /\ c.saved \in Payloads
      BY <2>3, PayloadsAssumption DEF ClientState
    <3>3. r \in Locals /\ r.s \in Sessions /\ r.payload = c.saved
      BY <1>0, <2>1, <3>2 DEF NoLocals, Locals, Errors
    <3> HIDE DEF r
    <3>4. Fits(Restore, "wgate", r)
      BY <2>1, <3>2, <3>3 DEF Fits, Labels
    <3> QED
      BY <2>1, <3>1, <3>4, SameRecord, MoveProgress
  <2> QED
    BY <2>2, <2>3
<1>2. CASE RestoreSettle
  <2>1. /\ pc[Restore] = "settle" /\ SharedTypes'
        /\ Moved(Restore, "finish", loc[Restore])
    BY <1>2, SharedUnchanged DEF RestoreSettle, Moved, Goto
  <2>2. loc[Restore].err \in Errors
    BY <1>0 DEF Locals
  <2>3. \/ c' = StopLocked(c, "server")
        \/ UNCHANGED c
        \/ c' = Discard(c, loc[Restore].s, loc[Restore].err)
    BY <1>2 DEF RestoreSettle
  <2>4. c' \in ClientState /\ QuietStep(c, c')
    BY <1>0, <2>1, <2>2, <2>3, StopStep, DiscardStep, SameRecord
    DEF Errors, TransientErrors
  <2>5. Fits(Restore, "finish", loc[Restore])
    BY <1>0, <2>1 DEF Fits, Labels, SessionLabels
  <2> QED
    BY <2>1, <2>4, <2>5, MoveProgress
<1>3. CASE RestoreFinish
  <2> DEFINE w == [c EXCEPT !.restoring = FALSE]
  <2>1. w \in ClientState /\ Same(c, w)
    BY DEF ClientState, Same
  <2>2. c' = SignalLocked(w) /\ pc[Restore] = "finish" /\ Moved(Restore, "off", NoLocals)
    BY <1>3 DEF RestoreFinish, Moved, Goto
  <2> HIDE DEF w
  <2>3. c' \in ClientState /\ Same(c, c')
    BY <2>1, <2>2, SignalFacts DEF Same
  <2>4. SharedTypes'
    BY <1>3 DEF RestoreFinish, SharedTypes, GoroutineTypes, history
  <2>6. Fits(Restore, "off", NoLocals)
    BY <2>2, NoLocalsType DEF Fits, Labels, SessionLabels
  <2> QED
    BY <2>2, <2>3, <2>4, <2>6, MoveProgress DEF QuietStep
<1> QED
  BY <1>1, <1>2, <1>3

-----------------------------------------------------------------------------
(* the handlers and the server *)

\* A handler changes the record, and the read loop goes on or ends.
LEMMA HandledProgress ==
  ASSUME StreamInv, NEW kind, Receive(kind), NEW err \in Errors, Handled(err),
         c' \in ClientState, QuietStep(c, c')
  PROVE  Progress
<1> USE Names, StreamFacts, RouterNames
<1>1. SharedTypes'
  BY SharedUnchanged DEF Receive
<1>2. CASE err = NoErr
  BY <1>1, <1>2, StillProgress DEF Handled
<1>3. CASE err # NoErr
  BY <1>1, <1>3, EndReadProgress DEF Handled, Receive
<1> QED
  BY <1>2, <1>3

\* The application takes the oldest frame.
LEMMA DrainProgress ==
  ASSUME StreamInv, DrainFrame
  PROVE  Progress
<1>1. SharedTypes' /\ UNCHANGED << pc, loc >>
  BY SharedUnchanged DEF DrainFrame
<1>2. c \in ClientState /\ c.frames \in Seq(FrameUpdates) /\ c.frames # << >>
  BY StreamFacts DEF DrainFrame, ClientState
<1>3. Tail(c.frames) \in Seq(FrameUpdates)
  BY <1>2
<1>4. c' \in ClientState /\ Taken(c, c')
  BY <1>2, <1>3 DEF DrainFrame, ClientState, Taken
<1> QED
  BY <1>1, <1>4, StillProgress DEF QuietStep

\* Every message that depends on the state is a step of the record.
LEMMA HandlerProgress ==
  ASSUME IndInv, Handler
  PROVE  Progress
<1> USE DEF IndInv
<1> USE Names, StreamFacts, RouterNames
<1> DEFINE m == Head(inbox)
           s == loc[Run].s
<1>0. ASSUME NEW kind, Receive(kind)
      PROVE  /\ s \in Sessions
             /\ m.results \in Seq(BOOLEAN) /\ m.key \in Keys \union {NoPair}
             /\ m.revision \in Nat
  <2>1. pc[Run] = "read" /\ inbox # << >> /\ inbox \in Seq(Messages)
    BY <1>0 DEF Receive, NetworkTypes
  <2>2. m \in Messages
    BY <2>1
  <2>3. s \in Sessions
    BY <2>1 DEF LocalsAgree
  <2> HIDE DEF m
  <2> QED
    BY <2>2, <2>3 DEF Messages
<1>00. {"protocol", "frame_full", NoErr} \subseteq Errors
  BY DEF Errors, TerminalErrors
<1>1. CASE HandleAck
  <2>1. Receive("ack") /\ c' = Ack(c, s, m.results, m.revision)
    BY <1>1 DEF HandleAck
  <2>2. PICK err \in {"protocol", NoErr} : Handled(err)
    BY <1>1 DEF HandleAck
  <2>3. s \in Sessions /\ m.results \in Seq(BOOLEAN) /\ m.revision \in Nat
    BY <1>0, <2>1
  <2> HIDE DEF m, s
  <2>4. /\ c' \in ClientState
        /\ \/ Same(c, c')
           \/ ~ c.stopped /\ Answered(c, c', TRUE) /\ Told(c, c')
           \/ ~ c.stopped /\ Halted(c, c', "event_full")
    BY <2>1, <2>3, AckFacts
  <2>5. QuietStep(c, c')
    BY <2>4 DEF QuietStep
  <2> QED
    BY <1>00, <2>1, <2>2, <2>4, <2>5, HandledProgress
<1>2. CASE HandleTooLarge
  <2>1. Receive("too_large") /\ c' = TooLarge(c, s)
    BY <1>2 DEF HandleTooLarge
  <2>2. PICK err \in {"protocol", NoErr} : Handled(err)
    BY <1>2 DEF HandleTooLarge
  <2> HIDE DEF m, s
  <2>4. /\ c' \in ClientState
        /\ \/ Same(c, c')
           \/ ~ c.stopped /\ Answered(c, c', FALSE) /\ Told(c, c')
           \/ ~ c.stopped /\ Halted(c, c', "event_full")
    BY <2>1, TooLargeFacts
  <2>5. QuietStep(c, c')
    BY <2>4 DEF QuietStep
  <2> QED
    BY <1>00, <2>1, <2>2, <2>4, <2>5, HandledProgress
<1>3. CASE HandleServerError
  <2>1. /\ Receive("error") /\ c' = OtherServerError(c, s)
        /\ Handled(NoErr)
    BY <1>3 DEF HandleServerError, Handled
  <2> HIDE DEF m, s
  <2>2. /\ c' \in ClientState
        /\ Same(c, c') \/ (~ c.stopped /\ Halted(c, c', "event_full"))
    BY <2>1, ServerErrorFacts
  <2>3. QuietStep(c, c')
    BY <2>2 DEF QuietStep
  <2> QED
    BY <1>00, <2>1, <2>2, <2>3, HandledProgress
<1>4. CASE HandleFrame
  <2>1. /\ Receive("frame") /\ c' = Update(c, s, m.key, m.revision)
        /\ Handled(UpdateError(c, s, m.key))
    BY <1>4 DEF HandleFrame
  <2>2. s \in Sessions /\ m.key \in Keys \union {NoPair} /\ m.revision \in Nat
    BY <1>0, <2>1
  <2>3. UpdateError(c, s, m.key) \in Errors
    BY <1>00 DEF UpdateError
  <2> HIDE DEF m, s
  <2>4. /\ c' \in ClientState
        /\ \/ Same(c, c')
           \/ ~ c.stopped /\ Halted(c, c', "frame_full")
           \/ \E u : Delivered(c, c', s, u)
    BY <2>1, <2>2, UpdateFacts
  <2>5. ASSUME NEW u, Delivered(c, c', s, u)
        PROVE  Delivered(c, c', c.current, u)
    BY <2>5 DEF Delivered
  <2>6. QuietStep(c, c')
    BY <2>4, <2>5 DEF QuietStep
  <2> QED
    BY <2>1, <2>3, <2>4, <2>6, HandledProgress
<1> QED
  BY <1>1, <1>2, <1>3, <1>4 DEF Handler

\* The server touches only its side of the connection and the inbox.
LEMMA ServerProgress ==
  ASSUME StreamInv, Server
  PROVE  Progress
<1>1. UNCHANGED << c, pc, loc, calls, ticks, history, gates >>
  BY DEF Server, ServerAck, ServerTooLarge, ServerFrame, ServerReport, ServerFault, Send
<1> QED
  BY <1>1, SharedUnchanged, SameRecord, StillProgress

\* A well-formed message joins the inbox.
LEMMA SendTypes ==
  ASSUME IndInv, NEW message \in Messages, Send(message),
         outbox' \in Seq([ payload: Requests, revision: Nat ]),
         peer' \in [ revision: Nat, filters: SUBSET Filters, refused: Nat ]
  PROVE  NetworkTypes'
BY DEF IndInv, NetworkTypes, Send

\* The honest server's answers and the faulty server's messages are well typed.
LEMMA ServerTypes ==
  ASSUME IndInv, Server
  PROVE  NetworkTypes'
<1> USE DEF IndInv
<1>0. ASSUME NEW kind \in {"ack", "frame", "too_large", "error", "ping"}
      PROVE  Message(kind) \in Messages
  <2>1. << >> \in Seq(BOOLEAN)
    OBVIOUS
  <2> QED
    BY <2>1 DEF Message, Messages
<1>1. outbox # << >> => /\ Head(outbox).payload \in Requests
                        /\ Head(outbox).revision \in Nat
                        /\ Tail(outbox) \in Seq([ payload: Requests, revision: Nat ])
  <2> DEFINE Sent == [ payload: Requests, revision: Nat ]
  <2>0. outbox \in Seq(Sent)
    BY DEF NetworkTypes
  <2> HIDE DEF Sent
  <2>1. outbox # << >> => Head(outbox) \in Sent
    BY <2>0
  <2> USE DEF Sent
  <2> QED
    BY <2>1 DEF NetworkTypes
<1>2. CASE ServerAck
  <2> DEFINE request == Head(outbox).payload
             revision == Head(outbox).revision
  <2>1. request \in Seq(Filters) /\ revision \in Nat /\ outbox # << >>
    BY <1>1, <1>2, RequestsAssumption DEF ServerAck
  <2>2. PICK results \in [1 .. Len(request) -> BOOLEAN] :
          /\ peer' = [peer EXCEPT
                !.revision = revision,
                !.filters = {request[i] : i \in {j \in DOMAIN request : results[j]}}]
          /\ Send([Message("ack") EXCEPT !.results = results, !.revision = revision])
    BY <1>2 DEF ServerAck
  <2>3. outbox' = Tail(outbox)
    BY <1>2 DEF ServerAck
  <2> HIDE DEF request, revision
  <2>4. Len(request) \in Nat /\ results \in Seq(BOOLEAN)
    BY <2>1
  <2>5. {request[i] : i \in {j \in DOMAIN request : results[j]}} \in SUBSET Filters
    BY <2>1
  <2>6. peer' \in [ revision: Nat, filters: SUBSET Filters, refused: Nat ]
    BY <2>1, <2>2, <2>5 DEF NetworkTypes
  <2>7. [Message("ack") EXCEPT !.results = results, !.revision = revision] \in Messages
    BY <1>0, <2>1, <2>4 DEF Messages
  <2> QED
    BY <1>1, <2>1, <2>2, <2>3, <2>6, <2>7, SendTypes
<1>3. CASE ServerTooLarge
  <2>1. /\ outbox # << >> /\ outbox' = Tail(outbox)
        /\ peer' = [peer EXCEPT !.refused = Head(outbox).revision]
        /\ Send([Message("too_large") EXCEPT !.revision = Head(outbox).revision])
    BY <1>3 DEF ServerTooLarge
  <2>2. peer' \in [ revision: Nat, filters: SUBSET Filters, refused: Nat ]
    BY <1>1, <2>1 DEF NetworkTypes
  <2>3. [Message("too_large") EXCEPT !.revision = Head(outbox).revision] \in Messages
    BY <1>0, <1>1, <2>1 DEF Messages
  <2> QED
    BY <1>1, <2>1, <2>2, <2>3, SendTypes
<1>4. CASE ServerFrame
  <2>1. PICK f \in peer.filters : \E key \in f :
          Send([Message("frame") EXCEPT !.key = key, !.revision = peer.revision])
    BY <1>4 DEF ServerFrame
  <2>2. PICK key \in f :
          Send([Message("frame") EXCEPT !.key = key, !.revision = peer.revision])
    BY <2>1
  <2>3. key \in Keys /\ peer.revision \in Nat
    BY DEF NetworkTypes, Filters
  <2>4. [Message("frame") EXCEPT !.key = key, !.revision = peer.revision] \in Messages
    BY <1>0, <2>3 DEF Messages
  <2> QED
    BY <1>4, <2>2, <2>4, SendTypes DEF ServerFrame, NetworkTypes
<1>5. CASE ServerReport
  BY <1>0, <1>5, SendTypes DEF ServerReport, NetworkTypes
<1>6. CASE ServerFault
  <2>1. outbox' \in Seq([ payload: Requests, revision: Nat ])
          /\ peer' \in [ revision: Nat, filters: SUBSET Filters, refused: Nat ]
    BY <1>6 DEF ServerFault, NetworkTypes
  <2>2. ASSUME NEW results \in Verdicts
        PROVE  [Message("ack") EXCEPT !.results = results] \in Messages
    <3>1. PICK n \in 0 .. 2 : results \in [1 .. n -> BOOLEAN]
      BY DEF Verdicts
    <3>2. n \in Nat
      OBVIOUS
    <3>3. results \in Seq(BOOLEAN)
      BY <3>1, <3>2
    <3> QED
      BY <1>0, <3>3 DEF Messages
  <2>3. ASSUME NEW key \in Keys \union {NoPair}
        PROVE  [Message("frame") EXCEPT !.key = key] \in Messages
    BY <1>0 DEF Messages
  <2> QED
    BY <1>0, <1>6, <2>1, <2>2, <2>3, SendTypes DEF ServerFault
<1> QED
  BY <1>2, <1>3, <1>4, <1>5, <1>6 DEF Server

-----------------------------------------------------------------------------
(* The inductive invariant *)

\* Every action is a step of the record, and preserves what IndInv says of the
\* goroutines and the network.
LEMMA NextProgress ==
  ASSUME IndInv, Next
  PROVE  Progress
<1> USE Names, RouterNames DEF IndInv
<1>1. CASE StreamNext
  BY <1>1, StreamProgress
<1>2. CASE RestoreStep
  BY <1>2, RestoreProgress, WriteProgress, SendProgress DEF RestoreStep
<1>3. CASE \E p \in Writers : SubscribeCall(p) \/ SubscribeStep(p)
  <2>1. PICK p \in Writers : SubscribeCall(p) \/ SubscribeStep(p)
    BY <1>3
  <2>2. p \in Procs \ Waiters /\ p \in Owners
    BY ProcsAssumption
  <2> QED
    BY <2>1, <2>2, SubscribeProgress, WriteProgress, SendProgress DEF SubscribeStep
<1>4. CASE Handler \/ DrainFrame \/ Server
  BY <1>4, HandlerProgress, DrainProgress, ServerProgress
<1> QED
  BY <1>1, <1>2, <1>3, <1>4 DEF Next

\* A step of the specification, stuttering included.
LEMMA StepProgress ==
  ASSUME IndInv, [Next]_vars
  PROVE  Progress
<1>1. CASE Next
  BY <1>1, NextProgress
<1>2. CASE UNCHANGED vars
  BY <1>2, StutterProgress DEF IndInv
<1> QED
  BY <1>1, <1>2

\* The steps that touch the connection.
NetworkStep ==
  \/ UNCHANGED network
  \/ \E p \in Owners : WriteBytes(p)
  \/ /\ pc[Run] = "read" /\ inbox # << >> /\ inbox' = Tail(inbox)
     /\ UNCHANGED << outbox, peer >>
  \/ Teardown
  \/ Server

\* write sends nothing but a request: heartbeats and pongs leave no trace.
LEMMA WriteNetwork ==
  ASSUME IndInv, NEW p \in Procs \ Waiters, Write(p)
  PROVE  UNCHANGED network \/ (p \in Owners /\ WriteBytes(p))
<1> USE DEF Write, WriteQueueTimeout, WriteQueueDisconnected, WriteTooLate,
           WriteRefused, WriteStart, WriteOk, WriteFail, network
<1>1. CASE ~ WriteBytes(p)
  BY <1>1
<1>2. CASE WriteBytes(p) /\ p \in Owners
  BY <1>2
<1>3. CASE WriteBytes(p) /\ p \notin Owners
  <2>1. p \in {Run, Beat}
    BY <1>3, RouterNames DEF Procs, SessionBound
  <2>2. loc[p].payload = NoPayload
    BY <2>1, StreamFacts DEF IndInv, LocalsAgree
  <2> QED
    BY <1>3, <2>2 DEF WriteBytes
<1> QED
  BY <1>1, <1>2, <1>3

\* Nothing else touches the connection.
LEMMA NetworkSteps ==
  ASSUME IndInv, [Next]_vars
  PROVE  NetworkStep
<1> USE DEF NetworkStep, network
<1>0. \A p \in Writers \union SessionBound : p \in Procs \ Waiters
  BY ProcsAssumption DEF Procs, SessionBound
<1>1. CASE RunStep
  <2>1. CASE Write(Run)
    BY <1>0, <2>1, WriteNetwork DEF SessionBound
  <2>2. CASE Teardown
    BY <2>2
  <2>3. CASE ~ Write(Run) /\ ~ Teardown
    BY <1>1, <2>3
    DEF RunStep, DialFirst, DialFirstFails, InstallFirst, ReadClosed, CloseOnCancel,
        PongWritten, Join, AfterSession, LeaveSession, DiscardSession, DecideRetry,
        BackoffElapsed, BackoffCancelled, DialNext, DialNextFails, TakeSubscribeGate,
        GateCancelled, InstallNext, Exit, Dialed
  <2> QED
    BY <2>1, <2>2, <2>3
<1>2. CASE BeatStep
  BY <1>0, <1>2, WriteNetwork DEF BeatStep, BeatStop, BeatWritten, SessionBound
<1>3. CASE StreamEnvironment
  BY <1>3
  DEF StreamEnvironment, ReadFails, ReadPing, BeatTick, Close, CancelLifetime,
      DrainEvent, ReconnectCall, ReconnectCancel
<1>4. CASE \E p \in Waiters : ReconnectStep(p)
  BY <1>4 DEF ReconnectStep, ReconnectDiscard, ReconnectCheck, ReconnectWake
<1>5. CASE RestoreStep
  BY <1>0, <1>5, WriteNetwork
  DEF RestoreStep, RestoreLoad, RestoreSettle, RestoreFinish, SendSubscription,
      SubscriptionWritten, AwaitReply, AwaitTimeout, AwaitExpired, AwaitDisconnected,
      SessionBound
<1>6. CASE \E p \in Writers : SubscribeCall(p) \/ SubscribeStep(p)
  BY <1>0, <1>6, WriteNetwork
  DEF SubscribeCall, SubscribeStep, SubscribeGateTimeout, SubscribeGateStopped,
      SubscribeEnter, SendSubscription, SubscriptionWritten, AwaitReply, AwaitTimeout,
      AwaitExpired, AwaitDisconnected
<1>7. CASE Handler \/ DrainFrame
  BY <1>7
  DEF Handler, HandleAck, HandleTooLarge, HandleServerError, HandleFrame, Receive,
      DrainFrame
<1>8. CASE Server
  BY <1>8
<1>9. CASE UNCHANGED vars
  BY <1>9 DEF vars
<1> QED
  BY <1>1, <1>2, <1>3, <1>4, <1>5, <1>6, <1>7, <1>8, <1>9 DEF Next, StreamNext

\* Only requests and well-formed messages travel.
LEMMA StepTypes ==
  ASSUME IndInv, [Next]_vars
  PROVE  NetworkTypes'
<1> USE DEF IndInv
<1>1. CASE UNCHANGED network
  BY <1>1 DEF network, NetworkTypes
<1>2. ASSUME NEW p \in Owners, WriteBytes(p)
      PROVE  NetworkTypes'
  <2> DEFINE m == [ payload |-> loc[p].payload, revision |-> loc[p].revision ]
  <2>1. pc[p] = "write" /\ p \in Procs
    BY <1>2, Names DEF WriteBytes
  <2>2. m \in [ payload: Requests, revision: Nat ]
    BY <2>1, StreamFacts DEF LocalsAgree, GoroutineTypes, Locals
  <2>3. outbox' = outbox \/ outbox' = Append(outbox, m)
    BY <1>2 DEF WriteBytes
  <2> DEFINE Sent == [ payload: Requests, revision: Nat ]
  <2>4. outbox \in Seq(Sent) /\ m \in Sent
    BY <2>2 DEF NetworkTypes
  <2> HIDE DEF m, Sent
  <2>5. outbox' \in Seq(Sent)
    BY <2>3, <2>4
  <2> USE DEF Sent
  <2> QED
    BY <1>2, <2>5 DEF NetworkTypes, WriteBytes
<1>3. CASE inbox # << >> /\ inbox' = Tail(inbox) /\ UNCHANGED << outbox, peer >>
  BY <1>3 DEF NetworkTypes
<1>4. CASE Teardown
  BY <1>4 DEF Teardown, NetworkTypes, NoPeer
<1>5. CASE Server
  BY <1>5, ServerTypes
<1> QED
  BY <1>1, <1>2, <1>3, <1>4, <1>5, NetworkSteps DEF NetworkStep

\* A new client is consistent, and its connection carries nothing.
LEMMA InitIndInv == Init => IndInv
<1> SUFFICES ASSUME Init PROVE IndInv
  OBVIOUS
<1>1. StreamInv
  BY InitStreamInv DEF Init
<1>2. NetworkTypes
  BY DEF Init, StreamInit, NetworkTypes, NoPeer
<1> QED
  BY <1>1, <1>2 DEF IndInv

\* Every step preserves IndInv.
LEMMA StepIndInv == IndInv /\ [Next]_vars => IndInv'
<1> SUFFICES ASSUME IndInv, [Next]_vars PROVE IndInv'
  OBVIOUS
<1>1. StreamInv'
  BY StepProgress, ProgressStreamInv DEF IndInv
<1>2. NetworkTypes'
  BY StepTypes
<1> QED
  BY <1>1, <1>2 DEF IndInv

\* IndInv holds in every reachable state.
THEOREM Invariance == Spec => []IndInv
BY InitIndInv, StepIndInv, PTL DEF Spec

\* Every variable keeps its type; in particular neither channel is ever filled
\* beyond its capacity, whatever the server sends.
THEOREM Typing == Spec => []TypeOK
<1>1. IndInv => TypeOK
  BY DEF IndInv, StreamInv, TypeOK, NetworkTypes
<1> QED
  BY <1>1, Invariance, PTL

\* No queued frame belongs to a lost connection, to a replaced subscription or
\* to a pair outside the accepted filters, after any interleaving of update,
\* ack, subscribe, discard and stop, even if the server is faulty.
THEOREM CurrentFrames == Spec => []FramesAreCurrent
<1>1. IndInv => FramesAreCurrent
  <2> SUFFICES ASSUME IndInv PROVE FramesAreCurrent
    OBVIOUS
  <2>1. FramesAgree(c) /\ (c.ready => c.current # NoSession) /\ c \in ClientState
    BY StreamFacts DEF IndInv, Consistent, SubscriptionAgrees
  <2>2. c.frames # << >> => c.ready
    BY <2>1, NoFramesWithoutSubscription
  <2> QED
    BY <2>1, <2>2 DEF FramesAreCurrent
<1> QED
  BY <1>1, Invariance, PTL

\* Status is "connected" exactly while a session is current and "stopped"
\* exactly once stopLocked has run, and its generation is the session's.
THEOREM TrueStatus == Spec => []StatusIsTrue
<1>1. IndInv => StatusIsTrue
  BY DEF IndInv, StreamInv, Consistent, StatusIsTrue
<1> QED
  BY <1>1, Invariance, PTL

\* The current session is always the one that run serves.
THEOREM SessionOwnership == Spec => []RunOwnsSession
<1>1. IndInv => RunOwnsSession
  BY DEF IndInv, StreamInv
<1> QED
  BY <1>1, Invariance, PTL

\* stopLocked is final: no goroutine that still holds an old session, request or
\* message changes what the application sees of a stopped client.
THEOREM FinalStop == Spec => StopIsFinal
<1> DEFINE Final == c.stopped => /\ c'.stopped /\ c'.err = c.err /\ c'.phase = "stopped"
                                 /\ c'.generation = c.generation
                                 /\ c'.revision = c.revision
                                 /\ c'.current = NoSession /\ c'.frames = << >>
<1>1. IndInv /\ [Next]_vars => Final
  <2> SUFFICES ASSUME IndInv, [Next]_vars, c.stopped PROVE Final
    OBVIOUS
  <2>1. /\ c \in ClientState /\ Consistent(c)
        /\ c' \in ClientState /\ ClientStep(c, c')
    BY StepProgress, StreamFacts DEF IndInv, Progress
  <2>2. Same(c, c') /\ c.current = NoSession /\ c.frames = << >>
    BY <2>1, StoppedStep
  <2> QED
    BY <2>1, <2>2 DEF Same, Consistent, StatusAgrees
<1>2. IndInv /\ [Next]_vars => [Final]_vars
  BY <1>1
<1> QED
  BY <1>2, Invariance, PTL DEF Spec, StopIsFinal

\* An event goes with every step that installs or loses a session or ends a request,
\* whatever the goroutine that takes it; a full event channel stops the client.
THEOREM ReportedChanges == Spec => ChangesAreReported
<1> DEFINE Reported == \/ c'.stopped
                       \/ c'.events = c.events + 1
                       \/ /\ c'.phase = c.phase /\ c'.generation = c.generation
                          /\ c'.ready => c.ready
                          /\ c.pending # NoPending => c'.pending # NoPending
<1>1. IndInv /\ [Next]_vars => Reported
  <2> SUFFICES ASSUME IndInv, [Next]_vars PROVE Reported
    OBVIOUS
  <2>1. /\ c \in ClientState /\ Consistent(c)
        /\ c' \in ClientState /\ ClientStep(c, c')
    BY StepProgress, StreamFacts DEF IndInv, Progress
  <2> QED
    BY <2>1, StepTold DEF Told
<1>2. IndInv /\ [Next]_vars => [Reported]_vars
  BY <1>1
<1> QED
  BY <1>2, Invariance, PTL DEF Spec, ChangesAreReported

-----------------------------------------------------------------------------
(* Router implements Feed *)

\* A step of the record is a step of the feed, or changes nothing of it.
LEMMA FeedStep ==
  ASSUME c \in ClientState, c' \in ClientState, Consistent(c), ClientStep(c, c')
  PROVE  [AbstractFeed!Next]_AbstractFeed!feedVars
<1> USE DEF AbstractFeed!Next, AbstractFeed!feedVars
<1>1. CASE Same(c, c')
  BY <1>1 DEF Same
<1>2. CASE ~ c.stopped /\ \E err : Halted(c, c', err)
  BY <1>2 DEF Halted, Consistent, StatusAgrees, AbstractFeed!Stop, AbstractFeed!Shut
<1>3. CASE ~ c.stopped /\ c.current # NoSession /\ Lost(c, c')
  BY <1>3 DEF Lost, Consistent, StatusAgrees, AbstractFeed!Lose, AbstractFeed!Shut
<1>4. CASE c.current # NoSession /\ \E o \in Owners : Begun(c, c', c.current, o)
  BY <1>4 DEF Begun, Consistent, StatusAgrees, AbstractFeed!Ask, AbstractFeed!Shut
<1>5. CASE ~ c.stopped /\ \E ready \in BOOLEAN : Answered(c, c', ready)
  <2>1. PICK ready \in BOOLEAN : Answered(c, c', ready)
    BY <1>5
  <2>2. ~ c.ready
    BY <2>1 DEF Answered, Consistent, SubscriptionAgrees
  <2>3. CASE ready
    BY <2>1, <2>3 DEF Answered, AbstractFeed!Accept
  <2>4. CASE ~ ready
    BY <2>1, <2>2, <2>4 DEF Answered, AbstractFeed!Refuse, ClientState
  <2> QED
    BY <2>3, <2>4
<1>6. CASE \E u : Delivered(c, c', c.current, u)
  <2>1. PICK u : Delivered(c, c', c.current, u)
    BY <1>6
  <2>2. /\ c'.phase = c.phase /\ c'.generation = c.generation
        /\ c'.revision = c.revision /\ c'.ready = c.ready /\ c'.pending = c.pending
        /\ c'.frames = Append(c.frames, u)
    BY <2>1 DEF Delivered, ClientState
  <2>3. c.ready /\ u.generation = c.generation /\ u.revision = c.revision
    BY <2>1 DEF Delivered, Consistent, StatusAgrees, SubscriptionAgrees
  <2>4. c.frames \in Seq(FrameUpdates) /\ u \in FrameUpdates
    BY <2>1 DEF Delivered, ClientState
  <2>5. c'.frames # << >> /\ c'.frames[Len(c'.frames)] = u
    BY <2>2, <2>4
  <2>6. AbstractFeed!Delivered(u)
    BY <2>2, <2>3 DEF AbstractFeed!Delivered
  <2>7. AbstractFeed!Deliver
    BY <2>2, <2>3, <2>5, <2>6 DEF AbstractFeed!Deliver
  <2> QED
    BY <2>7
<1>7. CASE Taken(c, c')
  BY <1>7 DEF Taken, ClientState, AbstractFeed!Take
<1>8. CASE ~ c.stopped /\ c.current = NoSession /\ Overrun(c, c')
  BY <1>8
  DEF Overrun, Consistent, StatusAgrees, AbstractFeed!Stop, AbstractFeed!Shut,
      ClientState, Phases
<1>9. CASE /\ ~ c.stopped /\ c.current = NoSession
           /\ \E s \in Sessions : Connected(c, c', s)
  BY <1>9
  DEF Connected, Consistent, StatusAgrees, AbstractFeed!Connect, ClientState, Phases
<1> QED
  BY <1>1, <1>2, <1>3, <1>4, <1>5, <1>6, <1>7, <1>8, <1>9 DEF ClientStep, QuietStep

\* The whole Router, with its sessions, goroutines, gates and acknowledgements,
\* implements the abstract feed: an application that looks at the status and
\* the frame channel sees only what Feed allows.
THEOREM ImplementsFeed == Spec => RefinesFeed
<1>1. Init => AbstractFeed!Init
  BY DEF Init, StreamInit, NewClient, AbstractFeed!Init
<1>2. IndInv /\ [Next]_vars => [AbstractFeed!Next]_AbstractFeed!feedVars
  BY StepProgress, StreamFacts, FeedStep DEF IndInv, Progress
<1> QED
  BY <1>1, <1>2, Invariance, PTL DEF Spec, RefinesFeed, AbstractFeed!Spec

-----------------------------------------------------------------------------
(* What the handlers keep *)

\* ack loses nothing, and the reply it leaves is an error or repeats the
\* revision of the pending request together with the answer's.
LEMMA AckKept ==
  ASSUME NEW x \in ClientState, NEW s \in Sessions, NEW results \in Seq(BOOLEAN),
         NEW answers \in Nat
  PROVE  LET y == Ack(x, s, results, answers) IN
         /\ Kept(x, y) /\ y.restoring = x.restoring /\ y.saved = x.saved
         /\ \A o \in Owners :
              \/ y.reply[o] = x.reply[o]
              \/ y.reply[o].err # NoErr
              \/ y.reply[o].answers = answers /\ y.reply[o].revision = x.pending.revision
<1>1. CASE Stale(x, s) \/ AckFails(x, s, results)
  BY <1>1, KeptSame DEF Ack
<1>2. CASE ~ (Stale(x, s) \/ AckFails(x, s, results))
  <2> DEFINE p == x.pending
             yes == {p.request[i] : i \in {j \in DOMAIN results : results[j]}}
             w == [x EXCEPT !.accepted = yes, !.ready = TRUE, !.pending = NoPending]
             v == EmitLocked(w)
             reply ==
               IF v.stopped
               THEN [NoReply EXCEPT !.full = TRUE, !.err = StoppedError(v)]
               ELSE [ full |-> TRUE, err |-> NoErr, revision |-> p.revision,
                      answers |-> answers ]
             u == [v EXCEPT !.reply[p.owner] = reply]
             y == SignalLocked(u)
  <2>1. Ack(x, s, results, answers) = y
    BY <1>2 DEF Ack
  <2>2. yes \in SUBSET Filters
    <3>0. x.pending \in Pendings
      BY DEF ClientState
    <3>1. x.pending.request \in Seq(Filters)
      <4>1. NoRequest \in Seq(Filters) /\ Requests \subseteq Seq(Filters)
        BY RequestsAssumption DEF NoRequest
      <4>2. x.pending.request \in Requests \union {NoRequest}
        BY <3>0 DEF Pendings
      <4> QED
        BY <4>1, <4>2
    <3>2. Len(results) = Len(x.pending.request)
      BY <1>2 DEF AckFails
    <3> QED
      BY <3>1, <3>2
  <2> HIDE DEF yes
  <2>3. w \in ClientState /\ Kept(x, w) /\ Aside(x, w)
    BY <2>2, NoPendingType DEF ClientState, Kept, Aside
  <2> HIDE DEF w
  <2>4. v \in ClientState /\ Kept(w, v) /\ Aside(w, v)
    BY <2>3, EmitFacts, EmitKept, RouterNames DEF Plain
  <2> HIDE DEF v
  <2>5. \/ reply.err # NoErr
        \/ reply.answers = answers /\ reply.revision = x.pending.revision
    BY DEF NoReply, StoppedError, NoErr
  <2> HIDE DEF reply
  <2>6. /\ Kept(v, y) /\ y.restoring = v.restoring /\ y.saved = v.saved
        /\ y.reply = [v.reply EXCEPT ![p.owner] = reply]
    BY <2>4 DEF SignalLocked, Kept, ClientState
  <2>7. y.restoring = x.restoring /\ y.saved = x.saved
    BY <2>3, <2>4, <2>6 DEF Aside
  <2>8. Kept(x, y)
    <3>1. Kept(x, v)
      BY <2>3, <2>4, KeptTwice
    <3> QED
      BY <3>1, <2>4 DEF SignalLocked, Kept, ClientState
  <2> HIDE DEF y
  <2>9. \A o \in Owners : y.reply[o] = x.reply[o] \/ y.reply[o] = reply
    BY <2>3, <2>4, <2>6 DEF Aside, ClientState
  <2>10. \A o \in Owners :
           \/ y.reply[o] = x.reply[o]
           \/ y.reply[o].err # NoErr
           \/ y.reply[o].answers = answers /\ y.reply[o].revision = x.pending.revision
    BY <2>5, <2>9
  <2> QED
    BY <2>1, <2>7, <2>8, <2>10
<1> QED
  BY <1>1, <1>2

\* A refusal loses nothing, and the reply it leaves is an error.
LEMMA TooLargeKept ==
  ASSUME NEW x \in ClientState, NEW s
  PROVE  LET y == TooLarge(x, s) IN
         /\ Kept(x, y) /\ y.restoring = x.restoring /\ y.saved = x.saved
         /\ \A o \in Owners : y.reply[o] = x.reply[o] \/ y.reply[o].err # NoErr
<1>1. CASE Stale(x, s) \/ TooLargeFails(x, s)
  BY <1>1, KeptSame DEF TooLarge
<1>2. CASE ~ (Stale(x, s) \/ TooLargeFails(x, s))
  <2> DEFINE o == x.pending.owner
             r == [NoReply EXCEPT !.full = TRUE, !.err = "server"]
             v == [x EXCEPT !.pending = NoPending, !.reply[o] = r]
             y == EmitLocked(v)
  <2>1. TooLarge(x, s) = y
    BY <1>2 DEF TooLarge
  <2>2. r \in Replies /\ r.err # NoErr
    BY DEF Replies, NoReply, Errors, TransientErrors, NoErr
  <2> HIDE DEF r, o
  <2>3. [x.reply EXCEPT ![o] = r] \in [Owners -> Replies]
    BY <2>2 DEF ClientState
  <2>4. v \in ClientState /\ v.reply = [x.reply EXCEPT ![o] = r]
    BY <2>3, NoPendingType DEF ClientState
  <2>5. Kept(x, v) /\ v.restoring = x.restoring /\ v.saved = x.saved
    BY DEF ClientState, Kept
  <2>6. \A q \in Owners : v.reply[q] = x.reply[q] \/ v.reply[q] = r
    BY <2>4 DEF ClientState
  <2> HIDE DEF v
  <2>7. y \in ClientState /\ Kept(v, y) /\ Aside(v, y)
    BY <2>4, EmitFacts, EmitKept, RouterNames DEF Plain
  <2> HIDE DEF y
  <2>8. Kept(x, y)
    BY <2>4, <2>5, <2>7, KeptTwice
  <2> QED
    BY <2>1, <2>2, <2>5, <2>6, <2>7, <2>8 DEF Aside
<1> QED
  BY <1>1, <1>2

\* Any other error of the server is calm.
LEMMA ServerErrorCalm ==
  ASSUME NEW x \in ClientState, NEW s
  PROVE  Calm(x, OtherServerError(x, s))
BY EmitCalm, CalmSame, RouterNames DEF OtherServerError, Plain

\* update is calm, unless it queues the frame.
LEMMA UpdateCalm ==
  ASSUME NEW x \in ClientState, NEW s \in Sessions, NEW key \in Keys \union {NoPair},
         NEW source \in Nat
  PROVE  LET y == Update(x, s, key, source) IN
         \/ Calm(x, y)
         \/ /\ x.ready /\ x.current = s
            /\ y = [x EXCEPT !.frames = Append(x.frames,
                     [ key |-> key, generation |-> x.sgen[s],
                       revision |-> x.revision, source |-> source ])]
<1>1. "frame_full" \in Errors
  BY DEF Errors, TerminalErrors
<1> QED
  BY <1>1, CalmSame, StopCalm, RouterNames DEF Update, Plain, Dropped, Stale

-----------------------------------------------------------------------------
(* The Router's own actions keep the account of the sessions and the tokens *)

\* Subscribe and restore, apart from write.
OwnerStep ==
  \/ RestoreLoad \/ RestoreSettle \/ RestoreFinish \/ SendSubscription(Restore)
  \/ \E p \in Writers :
       \/ SubscribeCall(p) \/ SubscribeGateTimeout(p) \/ SubscribeGateStopped(p)
       \/ SubscribeEnter(p) \/ SendSubscription(p)

\* The subscription is the one it was, or gone together with its session.
Steady(x, y) ==
  /\ y.revision = x.revision
  /\ \/ /\ y.current = x.current /\ y.ready = x.ready
        /\ y.pending = x.pending /\ y.frames = x.frames
     \/ /\ y.current = NoSession /\ ~ y.ready
        /\ y.pending = NoPending /\ y.frames = << >>

\* sendSubscription after the write: the request is given up with its session.
LEMMA SendKept ==
  ASSUME StreamInv, NEW p \in Owners, SendSubscription(p)
  PROVE  /\ Kept(c, c') /\ c'.restoring = c.restoring /\ c'.saved = c.saved
         /\ \A o \in Owners : c'.reply[o] = c.reply[o] \/ (o = p /\ c'.reply[o] = NoReply)
         /\ Steady(c, c')
<1> USE Names, StreamFacts, RouterNames, ErrorNames
<1>0. /\ loc[p].err \in Errors
      /\ pc[p] \in {"written", "expired"} => loc[p].s \in Sessions
  BY DEF GoroutineTypes, Locals, LocalsAgree, SessionLabels
<1>1. CASE Calm(c, c')
  BY <1>1 DEF Calm, Aside, Steady
<1>2. CASE SubscriptionWritten(p)
  <2>1. UNCHANGED c \/ (loc[p].err # NoErr /\ c' = Discard(c, loc[p].s, loc[p].err))
    BY <1>2 DEF SubscriptionWritten
  <2>2. Calm(c, c')
    BY <1>0, <1>2, <2>1, CalmSame, DiscardCalm DEF SubscriptionWritten
  <2> QED
    BY <1>1, <2>2
<1>3. CASE AwaitReply(p)
  BY <1>3 DEF AwaitReply, Kept, ClientState, Steady
<1>4. CASE AwaitExpired(p)
  <2> DEFINE d == Discard(c, loc[p].s, "transient")
  <2>1. c' = [d EXCEPT !.reply[p] = NoReply] /\ loc[p].s \in Sessions
    BY <1>0, <1>4 DEF AwaitExpired
  <2>2. d \in ClientState /\ Calm(c, d)
    BY <2>1, DiscardFacts, DiscardCalm
  <2> HIDE DEF d
  <2> QED
    BY <2>1, <2>2 DEF Calm, Kept, Aside, ClientState, Steady
<1>5. CASE AwaitTimeout(p) \/ AwaitDisconnected(p)
  BY <1>1, <1>5, CalmSame DEF AwaitTimeout, AwaitDisconnected
<1> QED
  BY <1>2, <1>3, <1>4, <1>5 DEF SendSubscription

\* The other steps of Subscribe and restore.
LEMMA OwnerKept ==
  ASSUME StreamInv, OwnerStep
  PROVE  /\ Kept(c, c') /\ Steady(c, c') /\ c'.saved = c.saved
         /\ \A o \in Owners : c'.reply[o] \in {c.reply[o], NoReply}
<1> USE Names, StreamFacts, RouterNames, ErrorNames
<1>1. CASE Calm(c, c')
  BY <1>1 DEF Calm, Aside, Steady
<1>2. ASSUME NEW p \in Writers,
             \/ SubscribeCall(p) \/ SubscribeGateTimeout(p) \/ SubscribeGateStopped(p)
             \/ SubscribeEnter(p)
      PROVE  Calm(c, c')
  <2>1. UNCHANGED c
    BY <1>2
    DEF SubscribeCall, SubscribeGateTimeout, SubscribeGateStopped, SubscribeEnter
  <2> QED
    BY <2>1, CalmSame
<1>3. CASE RestoreLoad
  BY <1>1, <1>3, CalmSame DEF RestoreLoad
<1>4. CASE RestoreSettle
  <2>1. loc[Restore].s \in Sessions /\ loc[Restore].err \in Errors
    BY <1>4 DEF RestoreSettle, LocalsAgree, SessionLabels, GoroutineTypes, Locals
  <2>2. \/ c' = StopLocked(c, "server")
        \/ UNCHANGED c
        \/ loc[Restore].err # NoErr /\ c' = Discard(c, loc[Restore].s, loc[Restore].err)
    BY <1>4 DEF RestoreSettle
  <2>3. Calm(c, c')
    BY <2>1, <2>2, CalmSame, StopCalm, DiscardCalm
  <2> QED
    BY <1>1, <2>3
<1>5. CASE RestoreFinish
  BY <1>5 DEF RestoreFinish, SignalLocked, Kept, ClientState, Steady
<1>6. ASSUME NEW p \in Owners, SendSubscription(p)
      PROVE  /\ Kept(c, c') /\ Steady(c, c') /\ c'.saved = c.saved
             /\ \A o \in Owners : c'.reply[o] \in {c.reply[o], NoReply}
  BY <1>6, SendKept
<1> QED
  BY <1>1, <1>2, <1>3, <1>4, <1>5, <1>6 DEF OwnerStep

\* They move one goroutine, which is not run, and start no write.
LEMMA OwnerMoves ==
  ASSUME StreamInv, OwnerStep
  PROVE  /\ pc'[Run] = pc[Run] /\ loc'[Run] = loc[Run] /\ pc'[Beat] = pc[Beat]
         /\ loc'[Beat] = loc[Beat] /\ UNCHANGED << history, network >>
         /\ pc[Restore] = "off" => pc'[Restore] = "off"
         /\ NoNewWrite
<1> USE Names, StreamFacts, RouterNames
<1>0. pc \in [Procs -> Labels] /\ loc \in [Procs -> Locals]
  BY DEF GoroutineTypes
<1> DEFINE Goes(p, label) == /\ pc[p] # "off" /\ pc' = [pc EXCEPT ![p] = label]
                             /\ \E r : loc' = [loc EXCEPT ![p] = r]
                             /\ UNCHANGED << history, network, writeGate >>
           Done == /\ pc'[Run] = pc[Run] /\ loc'[Run] = loc[Run] /\ pc'[Beat] = pc[Beat]
                   /\ loc'[Beat] = loc[Beat] /\ UNCHANGED << history, network >>
                   /\ pc[Restore] = "off" => pc'[Restore] = "off"
                   /\ NoNewWrite
           Quiet == {"idle", "sgate", "wgate", "await", "expired", "settle", "finish"}
<1>1. ASSUME NEW p \in Writers \union {Restore}, NEW label \in Quiet, Goes(p, label)
      PROVE  Done
  BY <1>0, <1>1 DEF NoNewWrite
<1>2. ASSUME NEW p \in Writers,
             \/ SubscribeCall(p) \/ SubscribeGateTimeout(p) \/ SubscribeGateStopped(p)
             \/ SubscribeEnter(p)
      PROVE  \E label \in Quiet : Goes(p, label)
  BY <1>0, <1>2
  DEF SubscribeCall, SubscribeGateTimeout, SubscribeGateStopped, SubscribeEnter,
      Return, Goto, Enter, gates, network
<1>3. ASSUME RestoreLoad \/ RestoreSettle
      PROVE  \E label \in Quiet : Goes(Restore, label)
  <2>1. loc = [loc EXCEPT ![Restore] = loc[Restore]]
    BY <1>0
  <2> QED
    BY <1>3, <2>1 DEF RestoreLoad, RestoreSettle, Goto, gates
<1>4. ASSUME RestoreFinish PROVE Done
  BY <1>0, <1>4 DEF RestoreFinish, NoNewWrite, Goto
<1>5. ASSUME NEW p \in Owners, SendSubscription(p)
      PROVE  \E label \in Quiet : Goes(p, label)
  <2>1. loc = [loc EXCEPT ![p] = loc[p]]
    BY <1>0
  <2> QED
    BY <1>0, <1>5, <2>1
    DEF SendSubscription, SubscriptionWritten, AwaitReply, AwaitTimeout, AwaitExpired,
        AwaitDisconnected, Conclude, Return, Goto, gates, network
<1> HIDE DEF Goes, Quiet
<1>6. ASSUME NEW p \in Writers \union {Restore}, \E label \in Quiet : Goes(p, label)
      PROVE  Done
  BY <1>1, <1>6
<1> HIDE DEF Done
<1>7. Done
  BY <1>2, <1>3, <1>4, <1>5, <1>6 DEF OwnerStep
<1> QED
  BY <1>7 DEF Done

\* The handlers lose nothing; the read loop goes on or ends with an error.
LEMMA HandlerKept ==
  ASSUME IndInv, Handler
  PROVE  /\ Kept(c, c') /\ c'.restoring = c.restoring /\ c'.saved = c.saved
         /\ UNCHANGED << calls, ticks, history, gates >>
         /\ pc[Run] = "read"
         /\ UNCHANGED << pc, loc >> \/ \E err : err # NoErr /\ EndRead(err)
<1> USE DEF IndInv
<1> USE Names, StreamFacts, RouterNames
<1> DEFINE m == Head(inbox)
           s == loc[Run].s
<1>0. /\ pc[Run] = "read" /\ s \in Sessions
      /\ m.results \in Seq(BOOLEAN) /\ m.key \in Keys \union {NoPair}
      /\ m.revision \in Nat
  <2>1. pc[Run] = "read" /\ inbox # << >> /\ inbox \in Seq(Messages)
    BY DEF Handler, HandleAck, HandleTooLarge, HandleServerError, HandleFrame,
           Receive, NetworkTypes
  <2>2. m \in Messages
    BY <2>1
  <2>3. s \in Sessions
    BY <2>1 DEF LocalsAgree
  <2> HIDE DEF m
  <2> QED
    BY <2>1, <2>2, <2>3 DEF Messages
<1>1. UNCHANGED << calls, ticks, history, gates >>
  BY DEF Handler, HandleAck, HandleTooLarge, HandleServerError, HandleFrame, Receive
<1>2. UNCHANGED << pc, loc >> \/ \E err : err # NoErr /\ EndRead(err)
  BY DEF Handler, HandleAck, HandleTooLarge, HandleServerError, HandleFrame, Handled
<1>3. Kept(c, c') /\ c'.restoring = c.restoring /\ c'.saved = c.saved
  <2>1. CASE HandleAck
    <3>1. c' = Ack(c, s, m.results, m.revision)
      BY <2>1 DEF HandleAck
    <3> HIDE DEF m, s
    <3> QED
      BY <1>0, <3>1, AckKept
  <2>2. CASE HandleTooLarge
    BY <2>2, TooLargeKept DEF HandleTooLarge
  <2>3. CASE HandleServerError
    BY <2>3, ServerErrorCalm DEF HandleServerError, Calm, Aside
  <2>4. CASE HandleFrame
    <3>1. c' = Update(c, s, m.key, m.revision)
      BY <2>4 DEF HandleFrame
    <3> HIDE DEF m, s
    <3>2. CASE Calm(c, c')
      BY <3>2 DEF Calm, Aside
    <3>3. CASE \E q : c' = [c EXCEPT !.frames = q]
      BY <3>3 DEF Kept, ClientState
    <3>4. Calm(c, c') \/ \E q : c' = [c EXCEPT !.frames = q]
      <4> DEFINE q == Append(c.frames,
                       [ key |-> m.key, generation |-> c.sgen[s],
                         revision |-> c.revision, source |-> m.revision ])
      <4>1. Calm(c, c') \/ c' = [c EXCEPT !.frames = q]
        BY <1>0, <3>1, UpdateCalm
      <4> HIDE DEF q
      <4> QED
        BY <4>1
    <3> QED
      BY <3>2, <3>3, <3>4
  <2> QED
    BY <2>1, <2>2, <2>3, <2>4 DEF Handler
<1> QED
  BY <1>0, <1>1, <1>2, <1>3

\* Every step of the Router keeps the account of the sessions and of the tokens.
LEMMA StepLife ==
  ASSUME IndInv, LifeInv, GateInv, OneWriter, [Next]_vars
  PROVE  Kept(c, c') /\ LifeInv' /\ GateInv' /\ OneWriter'
<1> USE DEF IndInv
<1> USE Names, StreamFacts, RouterNames
<1>0. c' \in ClientState
  BY StepProgress DEF Progress
<1>1. CASE StreamNext
  BY <1>1, StreamLife, StreamGates
<1>2. CASE OwnerStep
  BY <1>0, <1>2, OwnerKept, OwnerMoves, LifeElsewhere, GateElsewhere
<1>3. ASSUME NEW p \in Writers \union {Restore}, Write(p)
      PROVE  Kept(c, c') /\ LifeInv' /\ GateInv' /\ OneWriter'
  <2>1. p \in Procs \ Waiters
    BY ProcsAssumption
  <2> QED
    BY <1>3, <2>1, WriteKept, WriteLife, WriteGates
<1>4. CASE Handler
  <2>1. Kept(c, c') /\ UNCHANGED << history, gates >> /\ pc[Run] = "read"
    BY <1>4, HandlerKept
  <2>2. CASE UNCHANGED << pc, loc >>
    BY <1>0, <2>1, <2>2, LifeElsewhere, GateElsewhere DEF NoNewWrite, gates
  <2>3. ASSUME NEW err, err # NoErr, EndRead(err)
        PROVE  LifeInv' /\ NoNewWrite
    <3>1. LifeInv'
      BY <1>0, <2>1, <2>3, EndReadLife
    <3>2. NoNewWrite
      BY <2>1, <2>3 DEF NoNewWrite, gates, EndRead, Goto, GoroutineTypes
    <3> QED
      BY <3>1, <3>2
  <2> QED
    BY <1>4, <2>1, <2>2, <2>3, HandlerKept, GateElsewhere
<1>5. CASE DrainFrame \/ Server \/ UNCHANGED vars
  <2>1. UNCHANGED << pc, loc, history, gates >>
    BY <1>5
    DEF DrainFrame, Server, ServerAck, ServerTooLarge, ServerFrame, ServerReport,
        ServerFault, Send, vars, history, gates
  <2>2. UNCHANGED c \/ \E q : c' = [c EXCEPT !.frames = q]
    BY <1>5
    DEF DrainFrame, Server, ServerAck, ServerTooLarge, ServerFrame, ServerReport,
        ServerFault, Send, vars
  <2>3. Kept(c, c')
    BY <2>2, KeptSame DEF Kept, ClientState
  <2> QED
    BY <1>0, <2>1, <2>3, LifeElsewhere, GateElsewhere DEF NoNewWrite, gates
<1> QED
  BY <1>1, <1>2, <1>3, <1>4, <1>5
  DEF Next, RestoreStep, SubscribeStep, OwnerStep

-----------------------------------------------------------------------------
(* The subscription sequencer *)

\* The labels between the start of a request and its end.
Flight == {"write", "wrote", "written", "await", "expired"}

\* Goroutine p holds the token of subscribeGate.
Holding(p) ==
  \/ p \in Writers /\ pc[p] \in Flight \union {"wgate"}
  \/ p = Restore /\ pc[p] # "off"
  \/ p = Run /\ pc[Run] = "install"

(***************************************************************************)
(* The token has one holder at a time; run hands it to restore together    *)
(* with the restoring flag.  Whoever holds it works on a session that is   *)
(* dialed, and restore on the last one; a caller that still holds it while *)
(* run waits for it works on an earlier session.                           *)
(***************************************************************************)
SequencerInv ==
  /\ \A p \in Procs : Holding(p) => ~ subscribeGate
  /\ \A p, q \in Procs : Holding(p) /\ Holding(q) => p = q
  /\ pc[Run] = "install" \/ pc[Restore] # "off" => c.restoring
  /\ ~ Returned => /\ ~ c.restoring /\ c.saved = NoRequest
                   /\ \A p \in Writers : pc[p] = "idle"
  /\ \A p \in Writers : Holding(p) => /\ loc[p].s \in 1 .. dialed
                                      /\ pc[Run] = "gate" => loc[p].s < dialed
  /\ pc[Restore] \in Flight \union {"wgate", "settle"} => loc[Restore].s = dialed

\* A step with which nobody takes the token and no session is dialed.
InOrder ==
  /\ dialed' = dialed
  /\ \/ c'.restoring = c.restoring
     \/ ~ c'.restoring /\ pc'[Run] # "install" /\ pc'[Restore] = "off"
  /\ ~ Returned' => ~ Returned /\ c'.saved = c.saved
  /\ pc'[Run] \in {"install", "gate"} => pc'[Run] = pc[Run]
  /\ \A p \in Writers :
       /\ pc'[p] \in Flight \union {"wgate"} =>
            pc[p] \in Flight \union {"wgate"} /\ loc'[p].s = loc[p].s
       /\ ~ Returned' /\ pc[p] = "idle" => pc'[p] = "idle"
  /\ pc'[Restore] # "off" => pc[Restore] # "off"
  /\ pc'[Restore] \in Flight \union {"wgate", "settle"} =>
       \/ loc'[Restore].s = dialed
       \/ /\ pc[Restore] \in Flight \union {"wgate", "settle"}
          /\ loc'[Restore].s = loc[Restore].s

\* Such a step keeps the sequencer in order, also when the holder lets go.
LEMMA OrderStays ==
  ASSUME StreamInv, SequencerInv, InOrder,
         UNCHANGED subscribeGate \/ \E p \in Procs : Holding(p) /\ ~ Holding(p)'
  PROVE  SequencerInv'
<1> USE Names, StreamFacts
<1>0. dialed \in Nat /\ subscribeGate \in BOOLEAN /\ c.restoring \in BOOLEAN
  BY DEF GoroutineTypes, ClientState
<1>1. \A p \in Procs : Holding(p)' => Holding(p)
  BY DEF InOrder, Holding
<1>2. (\A p \in Procs : Holding(p) => ~ subscribeGate)'
  BY <1>1 DEF SequencerInv
<1>3. (\A p, q \in Procs : Holding(p) /\ Holding(q) => p = q)'
  BY <1>1 DEF SequencerInv
<1>4. (pc[Run] = "install" \/ pc[Restore] # "off" => c.restoring)'
  BY DEF SequencerInv, InOrder
<1>5. (~ Returned => /\ ~ c.restoring /\ c.saved = NoRequest
                     /\ \A p \in Writers : pc[p] = "idle")'
  BY DEF SequencerInv, InOrder
<1>6. (\A p \in Writers : Holding(p) => /\ loc[p].s \in 1 .. dialed
                                        /\ pc[Run] = "gate" => loc[p].s < dialed)'
  BY <1>1 DEF SequencerInv, InOrder, Holding
<1>7. (pc[Restore] \in Flight \union {"wgate", "settle"} => loc[Restore].s = dialed)'
  BY DEF SequencerInv, InOrder
<1> QED
  BY <1>2, <1>3, <1>4, <1>5, <1>6, <1>7 DEF SequencerInv

\* The steps of run that dial, reserve the sequencer or install.
Handover ==
  DialFirst \/ DialNext \/ TakeSubscribeGate \/ InstallFirst \/ InstallNext

\* The other steps of both clients do not touch the sequencer.
LEMMA StreamMoves ==
  ASSUME StreamInv, StreamNext, ~ Handover
  PROVE  /\ UNCHANGED << dialed, subscribeGate >>
         /\ pc'[Restore] = pc[Restore] /\ loc'[Restore] = loc[Restore]
         /\ pc'[Run] \in {"install", "gate"} => pc'[Run] = pc[Run]
         /\ ~ Returned' => ~ Returned
<1> USE Names, StreamFacts
<1>0. /\ pc \in [Procs -> Labels] /\ loc \in [Procs -> Locals]
      /\ {Run, Beat} \subseteq Procs \ Waiters
  BY DEF GoroutineTypes
<1> USE DEF Returned, history, gates, Goto
<1>1. ASSUME NEW p \in {Run, Beat}, Write(p)
      PROVE  /\ UNCHANGED << dialed, subscribeGate >>
             /\ pc'[Restore] = pc[Restore] /\ loc'[Restore] = loc[Restore]
             /\ pc'[Run] \in {"install", "gate"} => pc'[Run] = pc[Run]
             /\ ~ Returned' => ~ Returned
  BY <1>0, <1>1, WriteMoves
<1>2. CASE \/ DialFirstFails \/ DialNextFails \/ GateCancelled
  BY <1>0, <1>2 DEF DialFirstFails, DialNextFails, GateCancelled
<1>3. CASE \/ ReadClosed \/ CloseOnCancel \/ PongWritten \/ Teardown \/ Join \/ ReadFails
           \/ ReadPing
  BY <1>0, <1>3
  DEF ReadClosed, CloseOnCancel, PongWritten, Teardown, Join, ReadFails, ReadPing,
      EndRead
<1>4. CASE \/ AfterSession \/ LeaveSession \/ DiscardSession \/ DecideRetry
           \/ BackoffElapsed \/ BackoffCancelled \/ Exit
  BY <1>0, <1>4
  DEF AfterSession, LeaveSession, DiscardSession, DecideRetry, BackoffElapsed,
      BackoffCancelled, Exit
<1>5. CASE BeatTick \/ BeatStop \/ BeatWritten \/ Close \/ CancelLifetime \/ DrainEvent
  BY <1>0, <1>5
  DEF BeatTick, BeatStop, BeatWritten, Close, CancelLifetime, DrainEvent
<1>6. ASSUME NEW p \in Waiters, ReconnectCall(p) \/ ReconnectCancel(p) \/ ReconnectStep(p)
      PROVE  /\ UNCHANGED << dialed, subscribeGate >>
             /\ pc'[Restore] = pc[Restore] /\ loc'[Restore] = loc[Restore]
             /\ pc'[Run] = pc[Run]
  BY <1>0, <1>6
  DEF ReconnectCall, ReconnectCancel, ReconnectStep, ReconnectDiscard,
      ReconnectCheck, ReconnectWake
<1> QED
  BY <1>1, <1>2, <1>3, <1>4, <1>5, <1>6
  DEF StreamNext, RunStep, BeatStep, StreamEnvironment, Handover

\* ... and what they do to the record is calm.
LEMMA StreamCalm ==
  ASSUME StreamInv, LifeInv, StreamNext, ~ Handover
  PROVE  Calm(c, c')
<1>1. CASE RunStep
  BY <1>1, RunCalm DEF Handover
<1>2. CASE ~ RunStep
  BY <1>2, AroundCalm DEF StreamNext
<1> QED
  BY <1>1, <1>2

\* run dials, reserves the sequencer and installs in that order.
LEMMA HandoverOrder ==
  ASSUME StreamInv, LifeInv, SequencerInv, Handover
  PROVE  SequencerInv'
<1> USE Names, StreamFacts, RouterNames
<1>0. /\ pc \in [Procs -> Labels] /\ loc \in [Procs -> Locals] /\ dialed \in Nat
      /\ \A p \in Writers : p # Run /\ p # Restore
  BY DEF GoroutineTypes
<1>1. ASSUME NEW label \in {"install_first", "gate"}, Dialed(label),
             pc[Run] \in {"new", "dial"}, label = "install_first" => pc[Run] = "new",
             label = "gate" => pc[Run] = "dial"
      PROVE  SequencerInv'
  <2>1. /\ dialed' = dialed + 1 /\ UNCHANGED << c, subscribeGate >>
        /\ pc'[Run] = label /\ \A p \in Procs \ {Run} : pc'[p] = pc[p] /\ loc'[p] = loc[p]
    BY <1>0, <1>1 DEF Dialed, Goto, gates
  <2>2. pc[Restore] = "off"
    BY <1>1 DEF LifeInv, Between
  <2>3. \A p \in Procs : Holding(p)' => Holding(p)
    BY <1>1, <2>1 DEF Holding
  <2>4. (\A p \in Writers : Holding(p) => /\ loc[p].s \in 1 .. dialed
                                          /\ pc[Run] = "gate" => loc[p].s < dialed)'
    BY <1>0, <2>1, <2>3 DEF SequencerInv
  <2>5. (~ Returned => /\ ~ c.restoring /\ c.saved = NoRequest
                       /\ \A p \in Writers : pc[p] = "idle")'
    BY <1>0, <1>1, <2>1 DEF SequencerInv, Returned
  <2> QED
    BY <1>1, <2>1, <2>2, <2>3, <2>4, <2>5 DEF SequencerInv, Flight
<1>2. CASE TakeSubscribeGate
  <2>1. /\ subscribeGate /\ ~ subscribeGate' /\ pc[Run] = "gate" /\ pc'[Run] = "install"
        /\ UNCHANGED << loc, dialed >> /\ \A p \in Procs \ {Run} : pc'[p] = pc[p]
        /\ c'.restoring
    BY <1>0, <1>2 DEF TakeSubscribeGate, Goto, history, ClientState
  <2>2. \A p \in Procs : ~ Holding(p)
    BY <2>1 DEF SequencerInv
  <2>3. \A p \in Procs : Holding(p)' => p = Run
    BY <2>1, <2>2 DEF Holding
  <2>4. pc'[Restore] = "off"
    BY <2>1, <2>2 DEF Holding
  <2> QED
    BY <1>0, <2>1, <2>3, <2>4 DEF SequencerInv, Returned, Flight
<1>3. CASE InstallFirst
  <2>1. /\ pc[Run] = "install_first" /\ UNCHANGED << loc, dialed, subscribeGate >>
        /\ \A p \in Procs \ {Run, Beat, Restore} : pc'[p] = pc[p]
    BY <1>0, <1>3 DEF InstallFirst, StartSession, Goto, history, gates
  <2>2. /\ ~ c.restoring /\ c.saved = NoRequest /\ \A p \in Writers : pc[p] = "idle"
        /\ pc[Restore] = "off"
    BY <2>1 DEF SequencerInv, Returned, LifeInv, Between
  <2>3. ~ c'.restoring /\ c'.saved = NoRequest
    BY <1>3, <2>2, InstallStep DEF Aside, ClientState
  <2>4. pc'[Restore] = "off" /\ pc'[Run] \in {"read", "failed"}
    BY <1>0, <1>3, <2>2, <2>3 DEF InstallFirst, StartSession, Goto
  <2>5. \A p \in Writers : pc'[p] = "idle"
    BY <1>0, <2>1, <2>2 DEF Procs
  <2>6. \A p \in Procs : ~ Holding(p)'
    BY <2>4, <2>5 DEF Holding, Flight
  <2> QED
    BY <1>0, <2>3, <2>4, <2>5, <2>6 DEF SequencerInv, Flight
<1>4. CASE InstallNext
  <2>1. /\ pc[Run] = "install" /\ UNCHANGED << loc, dialed >>
        /\ \A p \in Procs \ {Run, Beat, Restore} : pc'[p] = pc[p]
    BY <1>0, <1>4 DEF InstallNext, StartSession, Goto, history, gates
  <2>2. /\ c.restoring /\ ~ subscribeGate /\ pc[Restore] = "off"
        /\ \A p \in Writers : ~ Holding(p)
    BY <1>0, <2>1 DEF SequencerInv, Holding, LifeInv, Between
  <2>3. c'.restoring
    BY <1>4, <2>2, InstallStep DEF Aside
  <2>4. /\ \A p \in Writers : pc'[p] = pc[p] /\ ~ Holding(p)'
    BY <1>0, <2>1, <2>2 DEF Holding, Procs
  <2>5. \/ pc'[Run] = "read" /\ pc'[Restore] = "load" /\ ~ subscribeGate'
        \/ pc'[Run] = "exit" /\ pc'[Restore] = "off"
    BY <1>0, <1>4, <2>2, <2>3 DEF InstallNext, StartSession, Goto
  <2>6. /\ \A p \in Procs : Holding(p)' => p = Restore /\ pc'[Restore] = "load"
    BY <2>4, <2>5 DEF Holding
  <2> QED
    BY <2>3, <2>4, <2>5, <2>6 DEF SequencerInv, Returned, Flight
<1> QED
  BY <1>1, <1>2, <1>3, <1>4, RouterNames DEF Handover, DialFirst, DialNext

\* write keeps the token with its caller.
LEMMA WriteOrder ==
  ASSUME StreamInv, SequencerInv, NEW p \in Writers \union {Restore}, Write(p)
  PROVE  SequencerInv'
<1> USE Names, StreamFacts, RouterNames
<1>0. /\ p \in Procs \ Waiters /\ p # Run /\ Restore \notin Writers
      /\ pc \in [Procs -> Labels] /\ loc \in [Procs -> Locals]
  BY ProcsAssumption DEF GoroutineTypes
<1>1. /\ pc[p] \in {"wgate", "write", "wrote"} /\ pc'[p] \in {"write", "wrote", "written"}
      /\ loc'[p].s = loc[p].s /\ UNCHANGED << dialed, subscribeGate >>
      /\ \A q \in Procs \ {p} : pc'[q] = pc[q] /\ loc'[q] = loc[q]
  BY <1>0, WriteMoves DEF history
<1>2. c'.restoring = c.restoring
  <2>1. CASE Calm(c, c')
    BY <2>1 DEF Calm, Aside
  <2>2. CASE p \in Owners /\ WriteStart(p)
    <3>1. c' = BeginSubscription(c, loc[p].s, p, loc[p].payload) /\ p \in Owners
      BY <2>2 DEF WriteStart
    <3>2. BeginSubscription(c, loc[p].s, p, loc[p].payload).restoring = c.restoring
      BY DEF BeginSubscription, SignalLocked, ClearLocked, ClientState
    <3> QED
      BY <3>1, <3>2
  <2> QED
    BY <1>0, <2>1, <2>2, WriteCalm
<1>3. Returned /\ Returned'
  <2>1. p \in Writers => pc[p] # "idle"
    BY <1>1
  <2>2. p = Restore => pc[p] # "off"
    BY <1>1
  <2> QED
    BY <1>0, <1>1, <2>1, <2>2 DEF SequencerInv, LocalsAgree, Returned
<1>4. InOrder
  BY <1>0, <1>1, <1>2, <1>3 DEF InOrder, Flight
<1> QED
  BY <1>1, <1>4, OrderStays

\* Subscribe takes the token before it looks up the session.
LEMMA EnterOrder ==
  ASSUME StreamInv, LifeInv, SequencerInv, NEW p \in Writers, SubscribeEnter(p)
  PROVE  SequencerInv'
<1> USE Names, StreamFacts, RouterNames
<1>0. /\ p # Run /\ p # Restore /\ p # Beat /\ dialed \in Nat
      /\ pc \in [Procs -> Labels] /\ loc \in [Procs -> Locals] /\ loc[p] \in Locals
  BY DEF GoroutineTypes
<1>1. /\ pc[p] = "sgate" /\ subscribeGate /\ UNCHANGED << c, dialed >>
  BY DEF SubscribeEnter, history
<1>2. CASE c.stopped \/ c.current = NoSession
  <2>1. UNCHANGED subscribeGate /\ InOrder
    BY <1>0, <1>1, <1>2
    DEF SubscribeEnter, Return, Goto, InOrder, Flight, Returned, SequencerInv
  <2> QED
    BY <2>1, OrderStays
<1>3. CASE ~ (c.stopped \/ c.current = NoSession)
  <2>1. /\ ~ subscribeGate' /\ pc' = [pc EXCEPT ![p] = "wgate"]
        /\ loc' = [loc EXCEPT ![p].s = c.current]
    BY <1>3 DEF SubscribeEnter, Goto
  <2>2. /\ pc'[p] = "wgate" /\ loc'[p].s = c.current
        /\ \A q \in Procs \ {p} : pc'[q] = pc[q] /\ loc'[q] = loc[q]
    BY <1>0, <2>1 DEF Locals
  <2>3. c.current = dialed /\ c.current \in Sessions
    BY <1>3 DEF RunOwnsSession, LifeInv, ClientState
  <2>4. dialed \in 1 .. dialed /\ pc[Run] # "gate"
    BY <1>0, <1>3, <2>3 DEF RunOwnsSession, Between, Sessions
  <2>5. \A q \in Procs : ~ Holding(q)
    BY <1>1 DEF SequencerInv
  <2>6. \A q \in Procs : Holding(q)' => q = p
    BY <2>2, <2>5 DEF Holding
  <2>7. pc[Restore] = "off" /\ pc[Run] # "install" /\ Returned
    <3>1. Returned
      BY <1>1 DEF SequencerInv
    <3> QED
      BY <2>5, <3>1 DEF Holding
  <2>8. pc'[Restore] = "off" /\ pc'[Run] = pc[Run]
    BY <1>0, <2>2, <2>7
  <2>9. \A q \in Writers : Holding(q)' => loc'[q].s \in 1 .. dialed' /\ pc'[Run] # "gate"
    BY <1>1, <2>2, <2>3, <2>4, <2>6, <2>8
  <2> QED
    BY <1>1, <2>1, <2>6, <2>7, <2>8, <2>9 DEF SequencerInv, Returned, Flight
<1> QED
  BY <1>2, <1>3

\* sendSubscription keeps the token for restore and gives it back for Subscribe.
LEMMA SendOrder ==
  ASSUME StreamInv, SequencerInv, NEW p \in Owners, SendSubscription(p)
  PROVE  SequencerInv'
<1> USE Names, StreamFacts, RouterNames
<1>0. /\ p # Run /\ Restore \notin Writers /\ p \in Procs
      /\ pc \in [Procs -> Labels] /\ loc \in [Procs -> Locals] /\ loc[p] \in Locals
  BY DEF GoroutineTypes
<1>1. /\ pc[p] \in {"written", "await", "expired"} /\ UNCHANGED dialed
      /\ c'.restoring = c.restoring
  BY SendKept
  DEF SendSubscription, SubscriptionWritten, AwaitReply, AwaitTimeout, AwaitExpired,
      AwaitDisconnected, history
<1>2. \/ /\ pc' = [pc EXCEPT ![p] = pc'[p]] /\ pc'[p] \in {"await", "expired"}
         /\ UNCHANGED << loc, subscribeGate >>
      \/ \E err : Conclude(p, err)
  BY <1>0
  DEF SendSubscription, SubscriptionWritten, AwaitReply, AwaitTimeout, AwaitExpired,
      AwaitDisconnected, gates, Goto
<1>3. Holding(p) /\ Returned
  BY <1>0, <1>1 DEF Holding, Flight, SequencerInv, LocalsAgree
<1>4. CASE /\ pc' = [pc EXCEPT ![p] = pc'[p]] /\ pc'[p] \in {"await", "expired"}
           /\ UNCHANGED << loc, subscribeGate >>
  <2>1. pc'[Run] = pc[Run] /\ \A q \in Procs \ {p} : pc'[q] = pc[q]
    BY <1>0, <1>4
  <2>2. InOrder
    BY <1>0, <1>1, <1>3, <1>4, <2>1 DEF InOrder, Flight, Returned
  <2> QED
    BY <1>4, <2>2, OrderStays
<1>5. ASSUME NEW err, Conclude(p, err) PROVE SequencerInv'
  <2>1. CASE p = Restore
    <3>1. /\ pc'[p] = "settle" /\ loc'[p].s = loc[p].s /\ UNCHANGED subscribeGate
          /\ \A q \in Procs \ {p} : pc'[q] = pc[q] /\ loc'[q] = loc[q]
      BY <1>0, <1>5, <2>1 DEF Conclude, Goto, Locals
    <3>2. InOrder
      BY <1>0, <1>1, <1>3, <2>1, <3>1 DEF InOrder, Flight, Returned
    <3> QED
      BY <3>1, <3>2, OrderStays
  <2>2. CASE p # Restore
    <3>1. /\ pc'[p] = "idle"
          /\ \A q \in Procs \ {p} : pc'[q] = pc[q] /\ loc'[q] = loc[q]
      BY <1>0, <1>5, <2>2 DEF Conclude, Return, Goto
    <3>2. InOrder
      BY <1>0, <1>1, <1>3, <2>2, <3>1 DEF InOrder, Flight, Returned
    <3>3. ~ Holding(p)'
      BY <1>0, <2>2, <3>1 DEF Holding, Flight
    <3> QED
      BY <1>0, <1>3, <3>2, <3>3, OrderStays
  <2> QED
    BY <2>1, <2>2
<1> QED
  BY <1>2, <1>4, <1>5

\* The rest of Subscribe and of restore.
LEMMA RestoreOrder ==
  ASSUME StreamInv, LifeInv, SequencerInv, RestoreLoad \/ RestoreSettle \/ RestoreFinish
  PROVE  SequencerInv'
<1> USE Names, StreamFacts, RouterNames
<1>0. /\ Restore \notin Writers
      /\ pc \in [Procs -> Labels] /\ loc \in [Procs -> Locals]
  BY DEF GoroutineTypes
<1>1. /\ UNCHANGED dialed /\ pc[Restore] # "off" /\ Returned
      /\ pc[Run] \notin {"install", "gate"}
      /\ \A q \in Procs \ {Restore} : pc'[q] = pc[q] /\ loc'[q] = loc[q]
  <2>1. pc[Restore] # "off"
    BY DEF RestoreLoad, RestoreSettle, RestoreFinish
  <2>2. Returned /\ pc[Run] \notin {"install", "gate"}
    BY <2>1 DEF LocalsAgree, LifeInv, Between
  <2>3. \A q \in Procs \ {Restore} : pc'[q] = pc[q] /\ loc'[q] = loc[q]
    BY <1>0 DEF RestoreLoad, RestoreSettle, RestoreFinish, Goto
  <2>4. UNCHANGED dialed
    BY DEF RestoreLoad, RestoreSettle, RestoreFinish, history
  <2> QED
    BY <2>1, <2>2, <2>3, <2>4
<1>2. pc'[Run] = pc[Run] /\ \A q \in Writers : pc'[q] = pc[q] /\ loc'[q] = loc[q]
  BY <1>0, <1>1
<1>3. CASE RestoreLoad
  <2>1. /\ UNCHANGED << c, subscribeGate >> /\ pc'[Restore] \in {"finish", "wgate"}
        /\ pc'[Restore] = "wgate" => loc'[Restore].s = loc[Run].s
    <3>1. UNCHANGED << c, subscribeGate >>
      BY <1>3 DEF RestoreLoad, gates
    <3>2. CASE c.saved = NoRequest
      BY <1>0, <1>3, <3>1, <3>2 DEF RestoreLoad, Goto
    <3>3. CASE c.saved # NoRequest
      <4>1. pc'[Restore] = "wgate"
        BY <1>0, <1>3, <3>3 DEF RestoreLoad, Goto
      <4>2. loc'[Restore] = [NoLocals EXCEPT !.s = loc[Run].s, !.payload = c.saved]
        BY <1>0, <1>3, <3>3 DEF RestoreLoad
      <4> QED
        BY <3>1, <4>1, <4>2 DEF NoLocals
    <3> QED
      BY <3>2, <3>3
  <2>2. InOrder
    BY <1>0, <1>1, <1>2, <2>1 DEF InOrder, LifeInv, Flight, Returned
  <2> QED
    BY <2>1, <2>2, OrderStays
<1>4. CASE RestoreSettle
  <2>1. UNCHANGED subscribeGate /\ pc'[Restore] = "finish"
    BY <1>0, <1>4 DEF RestoreSettle, Goto, gates
  <2>2. c'.restoring = c.restoring
    <3>1. loc[Restore].s \in Sessions /\ loc[Restore].err \in Errors
      BY <1>4 DEF RestoreSettle, LocalsAgree, SessionLabels, GoroutineTypes, Locals
    <3>2. \/ c' = StopLocked(c, "server")
          \/ UNCHANGED c
          \/ loc[Restore].err # NoErr /\ c' = Discard(c, loc[Restore].s, loc[Restore].err)
      BY <1>4 DEF RestoreSettle
    <3>3. Calm(c, c')
      BY <3>1, <3>2, CalmSame, StopCalm, DiscardCalm, ErrorNames
    <3> QED
      BY <3>3 DEF Calm, Aside
  <2>3. InOrder
    BY <1>0, <1>1, <1>2, <2>1, <2>2 DEF InOrder, Flight, Returned
  <2> QED
    BY <2>1, <2>3, OrderStays
<1>5. CASE RestoreFinish
  <2>1. pc'[Restore] = "off" /\ ~ c'.restoring
    BY <1>0, <1>5 DEF RestoreFinish, Goto, SignalLocked, ClientState
  <2>2. InOrder
    BY <1>0, <1>1, <1>2, <2>1 DEF InOrder, Flight, Returned
  <2>3. Holding(Restore) /\ ~ Holding(Restore)'
    BY <1>0, <1>1, <2>1 DEF Holding
  <2> QED
    BY <2>2, <2>3, OrderStays
<1> QED
  BY <1>3, <1>4, <1>5

\* Every step keeps the sequencer in order.
LEMMA StepOrder ==
  ASSUME IndInv, LifeInv, SequencerInv, [Next]_vars
  PROVE  SequencerInv'
<1> USE DEF IndInv
<1> USE Names, StreamFacts, RouterNames
<1>0. /\ pc \in [Procs -> Labels] /\ loc \in [Procs -> Locals]
      /\ Restore \notin Writers /\ Run \notin Writers
  BY DEF GoroutineTypes
<1>1. CASE Handover
  BY <1>1, HandoverOrder
<1>2. CASE StreamNext /\ ~ Handover
  <2>1. \A w \in Writers : pc'[w] = pc[w] /\ loc'[w] = loc[w]
    BY <1>2, WritersUntouched
  <2>2. c'.restoring = c.restoring /\ c'.saved = c.saved
    BY <1>2, StreamCalm DEF Calm, Aside
  <2>3. InOrder /\ UNCHANGED subscribeGate
    BY <1>0, <1>2, <2>1, <2>2, StreamMoves DEF InOrder
  <2> QED
    BY <2>3, OrderStays
<1>3. ASSUME NEW p \in Writers \union {Restore}, Write(p) PROVE SequencerInv'
  BY <1>3, WriteOrder
<1>4. ASSUME NEW p \in Writers,
             SubscribeCall(p) \/ SubscribeGateTimeout(p) \/ SubscribeGateStopped(p)
      PROVE  SequencerInv'
  <2>1. /\ UNCHANGED << c, subscribeGate, dialed >> /\ pc'[p] \in {"sgate", "idle"}
        /\ pc[p] = "idle" => Returned
        /\ \A q \in Procs \ {p} : pc'[q] = pc[q] /\ loc'[q] = loc[q]
    BY <1>0, <1>4
    DEF SubscribeCall, SubscribeGateTimeout, SubscribeGateStopped, Enter, Return, Goto,
        gates, history
  <2>2. pc'[Run] = pc[Run] /\ pc'[Restore] = pc[Restore] /\ loc'[Restore] = loc[Restore]
    BY <1>0, <1>4, <2>1
  <2>3. InOrder
    BY <1>0, <2>1, <2>2 DEF InOrder, Flight, Returned
  <2> QED
    BY <2>1, <2>3, OrderStays
<1>5. ASSUME NEW p \in Writers, SubscribeEnter(p) PROVE SequencerInv'
  BY <1>5, EnterOrder
<1>6. ASSUME NEW p \in Owners, SendSubscription(p) PROVE SequencerInv'
  BY <1>6, SendOrder
<1>7. CASE RestoreLoad \/ RestoreSettle \/ RestoreFinish
  BY <1>7, RestoreOrder
<1>8. CASE Handler
  <2>1. /\ c'.restoring = c.restoring /\ c'.saved = c.saved
        /\ UNCHANGED << dialed, subscribeGate >> /\ pc[Run] = "read"
    BY <1>8, HandlerKept DEF history, gates
  <2>2. /\ \A q \in Procs \ {Run} : pc'[q] = pc[q] /\ loc'[q] = loc[q]
        /\ pc'[Run] \in {"read", "teardown"}
    <3>1. CASE UNCHANGED << pc, loc >>
      BY <2>1, <3>1
    <3>2. ASSUME NEW err, EndRead(err)
          PROVE  /\ \A q \in Procs \ {Run} : pc'[q] = pc[q] /\ loc'[q] = loc[q]
                 /\ pc'[Run] \in {"read", "teardown"}
      BY <1>0, <3>2 DEF EndRead, Goto
    <3> QED
      BY <1>8, <3>1, <3>2, HandlerKept
  <2>3. InOrder
    BY <1>0, <2>1, <2>2 DEF InOrder, Returned, Flight
  <2> QED
    BY <2>1, <2>3, OrderStays
<1>9. CASE DrainFrame \/ Server \/ UNCHANGED vars
  <2>1. UNCHANGED << pc, loc, dialed, subscribeGate >>
    BY <1>9
    DEF DrainFrame, Server, ServerAck, ServerTooLarge, ServerFrame, ServerReport,
        ServerFault, Send, vars, history, gates
  <2>2. UNCHANGED c \/ c' = [c EXCEPT !.frames = Tail(@)]
    BY <1>9
    DEF DrainFrame, Server, ServerAck, ServerTooLarge, ServerFrame, ServerReport,
        ServerFault, Send, vars
  <2>3. c'.restoring = c.restoring /\ c'.saved = c.saved
    BY <2>2 DEF ClientState
  <2>4. InOrder
    BY <2>1, <2>3 DEF InOrder, Returned
  <2> QED
    BY <2>1, <2>4, OrderStays
<1> QED
  BY <1>1, <1>2, <1>3, <1>4, <1>5, <1>6, <1>7, <1>8, <1>9
  DEF Next, RestoreStep, SubscribeStep

-----------------------------------------------------------------------------
(* The connection is empty between two sessions *)

\* run is between the teardown of a session and the installation of the next.
Away == pc[Run] \in Leaving \union Between

QuietNet == Away => inbox = << >> /\ outbox = << >> /\ peer = NoPeer

\* The read loop leaves its session only by the teardown.
LEMMA LeavesByTeardown ==
  ASSUME IndInv, [Next]_vars, Away'
  PROVE  Away \/ Teardown
<1> USE DEF IndInv, Away, Leaving, Between
<1> USE Names, StreamFacts, RouterNames
<1>0. /\ pc \in [Procs -> Labels] /\ {Run, Beat} \subseteq Procs \ Waiters
      /\ Writers \union {Restore} \subseteq Procs \ (Waiters \union {Run})
  BY ProcsAssumption DEF GoroutineTypes
<1>1. ASSUME NEW p \in Procs \ Waiters, Write(p)
      PROVE  Away
  <2>1. pc'[p] \in {"write", "wrote", "written"} /\ pc' = [pc EXCEPT ![p] = pc'[p]]
    BY <1>1, WriteMoves
  <2> QED
    BY <1>0, <2>1
<1>2. CASE RunStep /\ ~ Write(Run) /\ ~ Teardown
  BY <1>0, <1>2
  DEF RunStep, DialFirst, DialFirstFails, InstallFirst, ReadClosed, CloseOnCancel,
      PongWritten, Join, AfterSession, LeaveSession, DiscardSession, DecideRetry,
      BackoffElapsed, BackoffCancelled, DialNext, DialNextFails, TakeSubscribeGate,
      GateCancelled, InstallNext, Exit, Dialed, EndRead, Goto
<1>3. CASE BeatStop \/ BeatWritten \/ BeatTick
  BY <1>0, <1>3 DEF BeatStop, BeatWritten, BeatTick, Goto
<1>4. CASE \/ ReadFails \/ ReadPing \/ Close \/ CancelLifetime \/ DrainEvent
  BY <1>0, <1>4
  DEF ReadFails, ReadPing, Close, CancelLifetime, DrainEvent, EndRead, Goto
<1>5. ASSUME NEW p \in Waiters, ReconnectCall(p) \/ ReconnectCancel(p) \/ ReconnectStep(p)
      PROVE  pc'[Run] = pc[Run]
  BY <1>0, <1>5
  DEF ReconnectCall, ReconnectCancel, ReconnectStep, ReconnectDiscard,
      ReconnectCheck, ReconnectWake, Goto
<1>6. CASE OwnerStep
  BY <1>6, OwnerMoves
<1>7. CASE Handler
  <2>1. CASE UNCHANGED << pc, loc >>
    BY <2>1
  <2>2. ASSUME NEW err, EndRead(err) PROVE FALSE
    BY <1>0, <2>2 DEF EndRead, Goto
  <2> QED
    BY <1>7, <2>1, <2>2, HandlerKept
<1>8. CASE DrainFrame \/ Server \/ UNCHANGED vars
  <2>1. UNCHANGED pc
    BY <1>8
    DEF DrainFrame, Server, ServerAck, ServerTooLarge, ServerFrame, ServerReport,
        ServerFault, Send, vars
  <2> QED
    BY <2>1
<1> QED
  BY <1>0, <1>1, <1>2, <1>3, <1>4, <1>5, <1>6, <1>7, <1>8
  DEF Next, StreamNext, RunStep, BeatStep, StreamEnvironment, RestoreStep, SubscribeStep,
      OwnerStep

\* Every step leaves the connection empty between two sessions: a request is
\* written only to a connection that is still open, and then run serves it.
LEMMA StepQuiet ==
  ASSUME IndInv, LifeInv, SequencerInv, QuietNet, [Next]_vars
  PROVE  QuietNet'
<1> USE DEF IndInv
<1> USE Names, StreamFacts, RouterNames
<1>1. CASE UNCHANGED network \/ Teardown
  BY <1>1, LeavesByTeardown DEF QuietNet, Teardown, network
<1>2. ASSUME NEW p \in Owners, WriteBytes(p)
      PROVE  ~ Away'
  <2>0. pc \in [Procs -> Labels] /\ p \in Procs /\ p # Run /\ dialed \in Nat
    BY DEF GoroutineTypes
  <2>1. pc[p] = "write" /\ loc[p].s \notin c.closed /\ pc'[Run] = pc[Run]
    BY <1>2, <2>0 DEF WriteBytes, Goto
  <2>2. Holding(p)
    BY <2>0, <2>1 DEF Holding, Flight
  <2>3. loc[p].s \in 1 .. dialed
    <3>1. CASE p \in Writers
      BY <2>2, <3>1 DEF SequencerInv
    <3>2. CASE p = Restore
      BY <2>0, <2>1, <3>2 DEF SequencerInv, LocalsAgree, SessionLabels, Flight, Sessions
    <3> QED
      BY <3>1, <3>2
  <2>4. loc[p].s = dialed /\ pc[Run] \notin Ended
    BY <2>1, <2>3 DEF LifeInv
  <2>5. pc[Run] # "install"
    BY <2>0, <2>2 DEF SequencerInv, Holding
  <2>6. pc[Run] # "gate"
    <3>1. CASE p \in Writers
      BY <2>0, <2>2, <2>4, <3>1 DEF SequencerInv
    <3>2. CASE p = Restore
      BY <2>1, <3>2 DEF LifeInv, Between
    <3> QED
      BY <3>1, <3>2
  <2>7. pc[Run] # "install_first"
    BY <2>1 DEF SequencerInv, LocalsAgree, Returned
  <2> QED
    BY <2>1, <2>4, <2>5, <2>6, <2>7 DEF Away, Ended, Between
<1>3. CASE /\ pc[Run] = "read" /\ inbox # << >> /\ inbox' = Tail(inbox)
           /\ UNCHANGED << outbox, peer >>
  BY <1>1, <1>3, LeavesByTeardown DEF QuietNet, Away, Leaving, Between
<1>4. CASE Server
  <2>1. Reading /\ UNCHANGED pc
    BY <1>4
    DEF Server, ServerAck, ServerTooLarge, ServerFrame, ServerReport, ServerFault, Send
  <2> QED
    BY <2>1 DEF QuietNet, Reading, Away, Leaving, Between
<1> QED
  BY <1>1, <1>2, <1>3, <1>4, NetworkSteps DEF NetworkStep, QuietNet

-----------------------------------------------------------------------------
(* The pending request is in flight *)

\* The write of a request starts: the record and its caller agree on it.
LEMMA StartFacts ==
  ASSUME StreamInv, NEW p \in Owners, WriteStart(p)
  PROVE  /\ c.current = loc[p].s /\ c'.current = c.current /\ ~ SessionDone(c, c.current)
         /\ c'.restoring = c.restoring /\ c'.saved = loc[p].payload
         /\ c'.reply = [c.reply EXCEPT ![p] = NoReply]
         /\ c'.revision = c.revision + 1 /\ ~ c'.ready /\ c'.frames = << >>
         /\ c'.ctxDone = c.ctxDone /\ c'.cancelled = c.cancelled
         /\ c'.pending # NoPending /\ c'.pending.owner = p
         /\ c'.pending.request = loc[p].payload /\ c'.pending.revision = c'.revision
         /\ pc[p] = "wgate" /\ pc' = [pc EXCEPT ![p] = "write"]
         /\ loc' = [loc EXCEPT ![p] = [@ EXCEPT !.revision = c'.revision, !.started = TRUE]]
         /\ UNCHANGED network
<1> USE StreamFacts
<1> DEFINE s == loc[p].s
           payload == loc[p].payload
           w == ClearLocked(c)
           f == [ request |-> payload, session |-> s,
                  revision |-> c.revision + 1, owner |-> p ]
           y == [w EXCEPT !.revision = @ + 1, !.saved = payload,
                          !.reply[p] = NoReply, !.pending = f]
<1>1. c' = SignalLocked(y) /\ CanWrite(c, s)
  BY DEF WriteStart, BeginSubscription
<1>2. /\ c.revision \in Nat /\ f.owner = p /\ f.request = payload
      /\ f.revision = c.revision + 1
  BY DEF ClientState
<1>3. f # NoPending
  BY <1>2 DEF NoPending
<1> HIDE DEF f
<1>4. /\ w \in ClientState /\ w.current = c.current /\ w.restoring = c.restoring
      /\ w.reply = c.reply /\ w.revision = c.revision /\ ~ w.ready /\ w.frames = << >>
      /\ w.ctxDone = c.ctxDone /\ w.cancelled = c.cancelled
  BY ClearFacts DEF ClearLocked, ClientState
<1> HIDE DEF w
<1>5. /\ c'.current = w.current /\ c'.restoring = w.restoring /\ c'.saved = payload
      /\ c'.reply = [w.reply EXCEPT ![p] = NoReply] /\ c'.revision = w.revision + 1
      /\ c'.ready = w.ready /\ c'.frames = w.frames /\ c'.ctxDone = w.ctxDone
      /\ c'.cancelled = w.cancelled /\ c'.pending = f
  BY <1>1, <1>4 DEF SignalLocked, ClientState
<1>6. /\ pc[p] = "wgate" /\ pc' = [pc EXCEPT ![p] = "write"] /\ UNCHANGED network
      /\ loc' = [loc EXCEPT ![p] = [@ EXCEPT !.revision = c'.revision, !.started = TRUE]]
  BY DEF WriteStart, Goto
<1> QED
  BY <1>1, <1>2, <1>3, <1>4, <1>5, <1>6 DEF CanWrite

\* A session is installed without a subscription.
LEMMA InstallBare ==
  ASSUME StreamInv, InstallFirst \/ InstallNext
  PROVE  /\ c.current = NoSession /\ c'.pending = NoPending /\ ~ c'.ready
         /\ c'.revision = c.revision /\ c'.frames = << >>
<1> USE Names, StreamFacts
<1> DEFINE s == loc[Run].s
           i == Install(c, s)
<1>1. s \in Sessions /\ c.current = NoSession
  BY DEF InstallFirst, InstallNext, LocalsAgree, RunOwnsSession, Between
<1>2. c.pending = NoPending /\ ~ c.ready /\ c.frames = << >>
  BY <1>1, NoFramesWithoutSubscription DEF Consistent, SubscriptionAgrees
<1>3. /\ i \in ClientState
      /\ Connected(c, i, s) \/ Same(c, i) \/ Overrun(c, i)
  BY <1>1, InstallFacts
<1>4. c' = i \/ c' = [i EXCEPT !.ctxDone = TRUE]
  BY DEF InstallFirst, InstallNext
<1> HIDE DEF i, s
<1>5. /\ i.pending = NoPending /\ ~ i.ready /\ i.revision = c.revision /\ i.frames = << >>
  BY <1>2, <1>3 DEF Connected, Same, Overrun
<1>6. /\ c'.pending = i.pending /\ c'.ready = i.ready /\ c'.revision = i.revision
      /\ c'.frames = i.frames
  BY <1>3, <1>4 DEF ClientState
<1> QED
  BY <1>1, <1>5, <1>6

\* The caller of request o works on it on the current session, and no reply has
\* come yet.
InFlight(o) ==
  /\ pc[o] \in Flight /\ loc[o].revision = c.pending.revision
  /\ loc[o].s = c.current /\ loc[o].started /\ ~ c.reply[o].full

FlightInv ==
  c.pending # NoPending /\ ~ SessionDone(c, c.current) => InFlight(c.pending.owner)

\* The request stays pending, and its caller goes on with it.
LEMMA FlightStays ==
  ASSUME StreamInv, FlightInv, Kept(c, c'),
         c'.pending # NoPending => c'.pending = c.pending /\ c'.current = c.current,
         c'.pending # NoPending /\ ~ SessionDone(c', c'.current) =>
           LET o == c.pending.owner IN
           InFlight(o) =>
             /\ pc'[o] \in Flight /\ loc'[o].revision = loc[o].revision
             /\ loc'[o].s = loc[o].s /\ loc'[o].started
             /\ c'.reply[o].full = c.reply[o].full
  PROVE  FlightInv'
BY DEF FlightInv, InFlight, Kept, SessionDone

\* write takes the request from its start to its end.
LEMMA WriteFlight ==
  ASSUME StreamInv, FlightInv, NEW p \in Procs \ Waiters, Write(p)
  PROVE  FlightInv'
<1> USE Names, StreamFacts, RouterNames
<1>0. /\ pc \in [Procs -> Labels] /\ loc \in [Procs -> Locals] /\ loc[p] \in Locals
      /\ Owners \subseteq Procs /\ c.reply \in [Owners -> Replies]
  BY DEF GoroutineTypes, ClientState
<1>1. CASE p \in Owners /\ WriteStart(p)
  <2>1. /\ c'.pending.owner = p /\ c'.pending.revision = c'.revision
        /\ c'.current = loc[p].s /\ c'.reply = [c.reply EXCEPT ![p] = NoReply]
        /\ pc' = [pc EXCEPT ![p] = "write"]
        /\ loc' = [loc EXCEPT ![p] = [@ EXCEPT !.revision = c'.revision, !.started = TRUE]]
    BY <1>1, StartFacts
  <2>2. pc'[p] = "write" /\ ~ c'.reply[p].full
    BY <1>0, <1>1, <2>1 DEF NoReply
  <2>3. loc'[p].revision = c'.revision /\ loc'[p].started /\ loc'[p].s = loc[p].s
    BY <1>0, <2>1 DEF Locals
  <2> QED
    BY <2>1, <2>2, <2>3 DEF FlightInv, InFlight, Flight
<1>2. CASE ~ (p \in Owners /\ WriteStart(p))
  <2>1. Calm(c, c')
    BY <1>2, WriteCalm
  <2>2. /\ pc[p] \in {"wgate", "write", "wrote"} /\ pc'[p] \in {"write", "wrote", "written"}
        /\ loc'[p].s = loc[p].s
        /\ pc' = [pc EXCEPT ![p] = pc'[p]] /\ loc' = [loc EXCEPT ![p] = loc'[p]]
    BY WriteMoves
  <2>3. pc[p] # "wgate" =>
          loc'[p].revision = loc[p].revision /\ loc'[p].started = loc[p].started
    BY <1>0
    DEF Write, WriteQueueTimeout, WriteQueueDisconnected, WriteTooLate, WriteStart,
        WriteBytes, WriteOk, WriteFail, Locals
  <2>4. ASSUME NEW o \in Owners, InFlight(o)
        PROVE  /\ pc'[o] \in Flight /\ loc'[o].revision = loc[o].revision
               /\ loc'[o].s = loc[o].s /\ loc'[o].started
    <3>1. CASE o = p
      BY <2>2, <2>3, <2>4, <3>1 DEF InFlight, Flight
    <3>2. CASE o # p
      BY <1>0, <2>2, <2>4, <3>2 DEF InFlight
    <3> QED
      BY <3>1, <3>2
  <2>5. c.pending # NoPending => c.pending.owner \in Owners
    BY DEF Consistent, SubscriptionAgrees
  <2>6. /\ Kept(c, c') /\ c'.reply = c.reply
        /\ c'.pending # NoPending => c'.pending = c.pending /\ c'.current = c.current
    BY <2>1 DEF Calm, Aside
  <2> QED
    BY <2>4, <2>5, <2>6, FlightStays
<1> QED
  BY <1>1, <1>2

\* discard of the current session ends the request.
LEMMA DiscardEnds ==
  ASSUME StreamInv, c.current # NoSession, NEW err \in Errors
  PROVE  /\ Discard(c, c.current, err) \in ClientState
         /\ Discard(c, c.current, err).pending = NoPending
<1>1. c.current \in Sessions
  BY StreamFacts DEF ClientState
<1> DEFINE d == Discard(c, c.current, err)
<1>2. d \in ClientState /\ (Lost(c, d) \/ Halted(c, d, "event_full"))
  BY <1>1, StreamFacts, DiscardFacts
<1> HIDE DEF d
<1>3. d \in ClientState /\ d.pending = NoPending
  BY <1>2 DEF Lost, Halted
<1> QED
  BY <1>3 DEF d

\* sendSubscription ends a request only with its reply or with its session.
LEMMA SendFlight ==
  ASSUME StreamInv, FlightInv, NEW p \in Owners, SendSubscription(p)
  PROVE  FlightInv'
<1> USE Names, StreamFacts, RouterNames, ErrorNames
<1>0. /\ pc \in [Procs -> Labels] /\ loc \in [Procs -> Locals] /\ loc[p] \in Locals
      /\ Owners \subseteq Procs
  BY DEF GoroutineTypes
<1>1. /\ Kept(c, c') /\ Steady(c, c')
      /\ \A o \in Owners : c'.reply[o] = c.reply[o] \/ (o = p /\ c'.reply[o] = NoReply)
  BY SendKept
<1>2. c'.pending # NoPending => c'.pending = c.pending /\ c'.current = c.current
  BY <1>1 DEF Steady
<1>3. c.pending # NoPending => c.pending.owner \in Owners
  BY DEF Consistent, SubscriptionAgrees
<1>4. \A q \in Procs \ {p} : pc'[q] = pc[q] /\ loc'[q] = loc[q]
  BY <1>0
  DEF SendSubscription, SubscriptionWritten, AwaitReply, AwaitTimeout, AwaitExpired,
      AwaitDisconnected, Conclude, Return, Goto
<1>5. ASSUME c'.pending # NoPending, ~ SessionDone(c', c'.current), InFlight(p)
      PROVE  /\ pc'[p] \in Flight /\ UNCHANGED << loc, c >>
  <2>0. ~ SessionDone(c, c.current) /\ c.current # NoSession /\ loc[p].s = c.current
    BY <1>1, <1>2, <1>5 DEF Kept, SessionDone, Consistent, SubscriptionAgrees, InFlight
  <2>1. CASE SubscriptionWritten(p)
    <3>1. CASE loc[p].err = NoErr
      BY <1>0, <2>1, <3>1 DEF SubscriptionWritten, Goto, Flight
    <3>2. CASE loc[p].err # NoErr
      <4>1. c' = Discard(c, c.current, loc[p].err) /\ loc[p].err \in Errors
        BY <1>0, <1>5, <2>0, <2>1, <3>2 DEF SubscriptionWritten, InFlight, Locals
      <4> QED
        BY <1>5, <2>0, <4>1, DiscardEnds
    <3> QED
      BY <3>1, <3>2
  <2>2. CASE AwaitReply(p)
    BY <1>5, <2>2 DEF AwaitReply, InFlight
  <2>3. CASE AwaitTimeout(p)
    BY <1>0, <2>3 DEF AwaitTimeout, Goto, Flight
  <2>4. CASE AwaitExpired(p)
    <3> DEFINE d == Discard(c, c.current, "transient")
    <3>1. c' = [d EXCEPT !.reply[p] = NoReply]
      BY <2>0, <2>4 DEF AwaitExpired
    <3>2. d \in ClientState /\ d.pending = NoPending
      BY <2>0, DiscardEnds
    <3> HIDE DEF d
    <3> QED
      BY <1>5, <3>1, <3>2 DEF ClientState
  <2>5. CASE AwaitDisconnected(p)
    BY <2>0, <2>5 DEF AwaitDisconnected
  <2> QED
    BY <2>1, <2>2, <2>3, <2>4, <2>5 DEF SendSubscription
<1>6. ASSUME c'.pending # NoPending, ~ SessionDone(c', c'.current), NEW o \in Owners,
             InFlight(o)
      PROVE  /\ pc'[o] \in Flight /\ loc'[o].revision = loc[o].revision
             /\ loc'[o].s = loc[o].s /\ loc'[o].started
             /\ c'.reply[o].full = c.reply[o].full
  <2>1. CASE o = p
    BY <1>5, <1>6, <2>1 DEF InFlight
  <2>2. CASE o # p
    BY <1>0, <1>1, <1>4, <1>6, <2>2 DEF InFlight
  <2> QED
    BY <2>1, <2>2
<1> QED
  BY <1>1, <1>2, <1>3, <1>6, FlightStays

\* A step that neither moves nor answers the caller of a request in flight.
LEMMA FlightElsewhere ==
  ASSUME StreamInv, FlightInv, Kept(c, c'),
         c'.pending # NoPending =>
           c'.pending = c.pending /\ c'.current = c.current /\ c'.reply = c.reply,
         \A o \in Owners : pc[o] \in Flight => pc'[o] = pc[o] /\ loc'[o] = loc[o]
  PROVE  FlightInv'
<1>1. c.pending # NoPending => c.pending.owner \in Owners
  BY StreamFacts DEF Consistent, SubscriptionAgrees
<1> QED
  BY <1>1, FlightStays DEF InFlight

\* An acknowledgement that finds the request it answers ends it and opens
\* delivery, unless its event stops the client.
LEMMA AckEnds ==
  ASSUME NEW x \in ClientState, NEW s \in Sessions, NEW results \in Seq(BOOLEAN),
         NEW answers \in Nat, ~ Stale(x, s), ~ AckFails(x, s, results)
  PROVE  LET y == Ack(x, s, results, answers) IN
         /\ y.pending = NoPending /\ y.revision = x.revision
         /\ \/ y.current = x.current /\ y.ready /\ y.frames = x.frames
            \/ y.current = NoSession /\ ~ y.ready /\ y.frames = << >>
<1> USE RouterNames
<1> DEFINE p == x.pending
           yes == {p.request[i] : i \in {j \in DOMAIN results : results[j]}}
           w == [x EXCEPT !.accepted = yes, !.ready = TRUE, !.pending = NoPending]
           v == EmitLocked(w)
           reply == IF v.stopped
                    THEN [NoReply EXCEPT !.full = TRUE, !.err = StoppedError(v)]
                    ELSE [ full |-> TRUE, err |-> NoErr, revision |-> p.revision,
                           answers |-> answers ]
           y == SignalLocked([v EXCEPT !.reply[p.owner] = reply])
<1>1. Ack(x, s, results, answers) = y
  BY DEF Ack
<1>2. yes \in SUBSET Filters
  <2>1. x.pending.request \in Seq(Filters)
    <3>1. NoRequest \in Seq(Filters) /\ Requests \subseteq Seq(Filters)
      BY RequestsAssumption DEF NoRequest
    <3>2. x.pending \in Pendings
      BY DEF ClientState
    <3>3. x.pending.request \in Requests \union {NoRequest}
      BY <3>2 DEF Pendings
    <3> QED
      BY <3>1, <3>3
  <2>2. Len(results) = Len(x.pending.request)
    BY DEF AckFails
  <2> QED
    BY <2>1, <2>2
<1> HIDE DEF yes
<1>3. /\ w \in ClientState /\ w.pending = NoPending /\ w.ready
      /\ w.revision = x.revision /\ w.current = x.current /\ w.frames = x.frames
  BY <1>2, NoPendingType DEF ClientState
<1> HIDE DEF w
<1>4. v \in ClientState /\ (Same(w, v) \/ Halted(w, v, "event_full"))
  BY <1>3, EmitFacts DEF Plain
<1>5. /\ v.pending = NoPending /\ v.revision = x.revision
      /\ \/ v.current = x.current /\ v.ready /\ v.frames = x.frames
         \/ v.current = NoSession /\ ~ v.ready /\ v.frames = << >>
  BY <1>3, <1>4 DEF Same, Halted
<1> HIDE DEF v, reply, p
<1>6. /\ y.pending = v.pending /\ y.revision = v.revision /\ y.current = v.current
      /\ y.ready = v.ready /\ y.frames = v.frames
  BY <1>4 DEF SignalLocked, ClientState
<1> HIDE DEF y
<1> QED
  BY <1>1, <1>5, <1>6

\* A refusal that finds a request ends it, and delivery stays as it is.
LEMMA TooLargeEnds ==
  ASSUME NEW x \in ClientState, NEW s, ~ Stale(x, s), ~ TooLargeFails(x, s)
  PROVE  LET y == TooLarge(x, s) IN
         /\ y.pending = NoPending /\ y.revision = x.revision
         /\ \/ y.current = x.current /\ y.ready = x.ready /\ y.frames = x.frames
            \/ y.current = NoSession /\ ~ y.ready /\ y.frames = << >>
<1> USE RouterNames
<1> DEFINE o == x.pending.owner
           r == [NoReply EXCEPT !.full = TRUE, !.err = "server"]
           v == [x EXCEPT !.pending = NoPending, !.reply[o] = r]
           y == EmitLocked(v)
<1>1. TooLarge(x, s) = y
  BY DEF TooLarge
<1>2. r \in Replies
  BY DEF Replies, NoReply, Errors, TransientErrors
<1> HIDE DEF r, o
<1>3. [x.reply EXCEPT ![o] = r] \in [Owners -> Replies]
  BY <1>2 DEF ClientState
<1>4. /\ v \in ClientState /\ v.pending = NoPending /\ v.revision = x.revision
      /\ v.current = x.current /\ v.ready = x.ready /\ v.frames = x.frames
  BY <1>3, NoPendingType DEF ClientState
<1> HIDE DEF v
<1>5. Same(v, y) \/ Halted(v, y, "event_full")
  BY <1>4, EmitFacts DEF Plain
<1> HIDE DEF y
<1> QED
  BY <1>1, <1>4, <1>5 DEF Same, Halted

\* What a handler sees: a message of the type of its kind, on run's session.
LEMMA HandlerInput ==
  ASSUME IndInv, Handler
  PROVE  /\ pc[Run] = "read" /\ inbox # << >> /\ inbox \in Seq(Messages)
         /\ inbox' = Tail(inbox) /\ UNCHANGED << outbox, peer >>
         /\ loc[Run].s \in Sessions
         /\ Head(inbox).results \in Seq(BOOLEAN) /\ Head(inbox).revision \in Nat
         /\ Head(inbox).key \in Keys \union {NoPair}
         /\ \A q \in Procs \ {Run} : pc'[q] = pc[q] /\ loc'[q] = loc[q]
<1> USE DEF IndInv
<1> USE Names, StreamFacts
<1>1. /\ pc[Run] = "read" /\ inbox # << >> /\ inbox \in Seq(Messages)
      /\ inbox' = Tail(inbox) /\ UNCHANGED << outbox, peer >>
  BY DEF Handler, HandleAck, HandleTooLarge, HandleServerError, HandleFrame,
         Receive, NetworkTypes
<1>2. Head(inbox) \in Messages
  BY <1>1
<1>3. loc[Run].s \in Sessions
  BY <1>1 DEF LocalsAgree
<1>4. \A q \in Procs \ {Run} : pc'[q] = pc[q] /\ loc'[q] = loc[q]
  <2>0. pc \in [Procs -> Labels] /\ loc \in [Procs -> Locals]
    BY DEF GoroutineTypes
  <2>1. CASE UNCHANGED << pc, loc >>
    BY <2>1
  <2>2. ASSUME NEW err, EndRead(err)
        PROVE  \A q \in Procs \ {Run} : pc'[q] = pc[q] /\ loc'[q] = loc[q]
    BY <2>0, <2>2 DEF EndRead, Goto
  <2> QED
    BY <2>1, <2>2, HandlerKept
<1>5. /\ Head(inbox).results \in Seq(BOOLEAN) /\ Head(inbox).revision \in Nat
      /\ Head(inbox).key \in Keys \union {NoPair}
  BY <1>2 DEF Messages
<1> QED
  BY <1>1, <1>3, <1>4, <1>5

\* A request that a handler leaves pending, it leaves alone.
LEMMA HandlerFlight ==
  ASSUME IndInv, Handler
  PROVE  c'.pending # NoPending =>
           c'.pending = c.pending /\ c'.current = c.current /\ c'.reply = c.reply
<1> USE StreamFacts DEF IndInv
<1> DEFINE m == Head(inbox)
           s == loc[Run].s
<1>0. /\ s \in Sessions /\ m.results \in Seq(BOOLEAN) /\ m.revision \in Nat
      /\ m.key \in Keys \union {NoPair}
  BY HandlerInput
<1>1. CASE HandleAck
  <2>1. c' = Ack(c, s, m.results, m.revision)
    BY <1>1 DEF HandleAck
  <2> HIDE DEF m, s
  <2>2. CASE Stale(c, s) \/ AckFails(c, s, m.results)
    BY <2>1, <2>2 DEF Ack
  <2>3. CASE ~ (Stale(c, s) \/ AckFails(c, s, m.results))
    BY <1>0, <2>1, <2>3, AckEnds
  <2> QED
    BY <2>2, <2>3
<1>2. CASE HandleTooLarge
  <2>1. c' = TooLarge(c, s)
    BY <1>2 DEF HandleTooLarge
  <2> HIDE DEF m, s
  <2>2. CASE Stale(c, s) \/ TooLargeFails(c, s)
    BY <2>1, <2>2 DEF TooLarge
  <2>3. CASE ~ (Stale(c, s) \/ TooLargeFails(c, s))
    BY <2>1, <2>3, TooLargeEnds
  <2> QED
    BY <2>2, <2>3
<1>3. CASE HandleServerError
  BY <1>3, ServerErrorCalm DEF HandleServerError, Calm, Aside
<1>4. CASE HandleFrame
  <2>1. c' = Update(c, s, m.key, m.revision)
    BY <1>4 DEF HandleFrame
  <2> DEFINE q == Append(c.frames, [ key |-> m.key, generation |-> c.sgen[s],
                                     revision |-> c.revision, source |-> m.revision ])
  <2> HIDE DEF m, s
  <2>2. Calm(c, c') \/ c' = [c EXCEPT !.frames = q]
    BY <1>0, <2>1, UpdateCalm
  <2> HIDE DEF q
  <2> QED
    BY <2>2 DEF Calm, Aside, ClientState
<1> QED
  BY <1>1, <1>2, <1>3, <1>4 DEF Handler

\* Every step keeps the pending request in flight.
LEMMA StepFlight ==
  ASSUME IndInv, LifeInv, FlightInv, [Next]_vars
  PROVE  FlightInv'
<1> USE DEF IndInv
<1> USE Names, StreamFacts, RouterNames
<1>0. /\ pc \in [Procs -> Labels] /\ loc \in [Procs -> Locals] /\ Owners \subseteq Procs
      /\ Run \notin Owners /\ Beat \notin Owners
  BY DEF GoroutineTypes
<1>1. CASE InstallFirst \/ InstallNext
  BY <1>1, InstallBare DEF FlightInv
<1>2. CASE TakeSubscribeGate
  <2>1. c.current = NoSession /\ c'.pending = c.pending
    BY <1>2 DEF TakeSubscribeGate, RunOwnsSession, Between, ClientState
  <2> QED
    BY <2>1 DEF FlightInv, Consistent, SubscriptionAgrees
<1>3. CASE DialFirst \/ DialNext
  BY <1>0, <1>3, FlightElsewhere, KeptSame DEF DialFirst, DialNext, Dialed, Goto
<1>4. CASE StreamNext /\ ~ Handover
  <2>1. \A o \in Owners : pc'[o] = pc[o] /\ loc'[o] = loc[o]
    BY <1>4, StreamMoves, WritersUntouched
  <2>2. /\ Kept(c, c') /\ c'.reply = c.reply
        /\ c'.pending # NoPending => c'.pending = c.pending /\ c'.current = c.current
    BY <1>4, StreamCalm DEF Calm, Aside
  <2> QED
    BY <2>1, <2>2, FlightElsewhere
<1>5. ASSUME NEW p \in Owners, Write(p) PROVE FlightInv'
  BY <1>5, WriteFlight, ProcsAssumption
<1>6. ASSUME NEW p \in Owners, SendSubscription(p) PROVE FlightInv'
  BY <1>6, SendFlight
<1>7. ASSUME NEW p \in Writers,
             \/ SubscribeCall(p) \/ SubscribeGateTimeout(p) \/ SubscribeGateStopped(p)
             \/ SubscribeEnter(p)
      PROVE  FlightInv'
  <2>1. UNCHANGED c /\ pc[p] \in {"idle", "sgate"}
    BY <1>7
    DEF SubscribeCall, SubscribeGateTimeout, SubscribeGateStopped, SubscribeEnter, Enter
  <2>2. \A q \in Procs \ {p} : pc'[q] = pc[q] /\ loc'[q] = loc[q]
    BY <1>0, <1>7
    DEF SubscribeCall, SubscribeGateTimeout, SubscribeGateStopped, SubscribeEnter,
        Return, Goto
  <2> QED
    BY <1>0, <2>1, <2>2, FlightElsewhere, KeptSame DEF Flight
<1>8. CASE RestoreLoad \/ RestoreSettle \/ RestoreFinish
  <2>1. pc[Restore] \notin Flight
    BY <1>8 DEF RestoreLoad, RestoreSettle, RestoreFinish, Flight
  <2>2. \A q \in Procs \ {Restore} : pc'[q] = pc[q] /\ loc'[q] = loc[q]
    BY <1>0, <1>8 DEF RestoreLoad, RestoreSettle, RestoreFinish, Goto
  <2>3. /\ Kept(c, c')
        /\ c'.pending # NoPending => c'.pending = c.pending /\ c'.current = c.current
    BY <1>8, OwnerKept DEF OwnerStep, Steady
  <2>4. c'.reply = c.reply
    <3>1. CASE RestoreLoad
      BY <3>1 DEF RestoreLoad
    <3>2. CASE RestoreFinish
      BY <3>2 DEF RestoreFinish, SignalLocked, ClientState
    <3>3. CASE RestoreSettle
      <4>1. loc[Restore].s \in Sessions /\ loc[Restore].err \in Errors
        BY <3>3 DEF RestoreSettle, LocalsAgree, SessionLabels, GoroutineTypes, Locals
      <4>2. \/ c' = StopLocked(c, "server")
            \/ UNCHANGED c
            \/ /\ loc[Restore].err # NoErr
               /\ c' = Discard(c, loc[Restore].s, loc[Restore].err)
        BY <3>3 DEF RestoreSettle
      <4>3. Calm(c, c')
        BY <4>1, <4>2, CalmSame, StopCalm, DiscardCalm, ErrorNames
      <4> QED
        BY <4>3 DEF Calm, Aside
    <3> QED
      BY <1>8, <3>1, <3>2, <3>3
  <2> QED
    BY <1>0, <2>1, <2>2, <2>3, <2>4, FlightElsewhere
<1>9. CASE Handler
  <2>1. \A o \in Owners : pc'[o] = pc[o] /\ loc'[o] = loc[o]
    BY <1>0, <1>9, HandlerInput
  <2> QED
    BY <1>9, <2>1, HandlerKept, HandlerFlight, FlightElsewhere
<1>10. CASE DrainFrame \/ Server \/ UNCHANGED vars
  <2>1. UNCHANGED << pc, loc >>
    BY <1>10
    DEF DrainFrame, Server, ServerAck, ServerTooLarge, ServerFrame, ServerReport,
        ServerFault, Send, vars
  <2>2. UNCHANGED c \/ \E q : c' = [c EXCEPT !.frames = q]
    BY <1>10
    DEF DrainFrame, Server, ServerAck, ServerTooLarge, ServerFrame, ServerReport,
        ServerFault, Send, vars
  <2>3. /\ Kept(c, c') /\ c'.pending = c.pending /\ c'.current = c.current
        /\ c'.reply = c.reply
    BY <2>2, KeptSame DEF Kept, ClientState
  <2> QED
    BY <2>1, <2>3, FlightElsewhere
<1> QED
  BY <1>1, <1>2, <1>3, <1>4, <1>5, <1>6, <1>7, <1>8, <1>9, <1>10
  DEF Next, RestoreStep, SubscribeStep, Handover

-----------------------------------------------------------------------------
(* What holds whatever the server does *)

RouterInv ==
  /\ IndInv /\ LifeInv /\ GateInv /\ OneWriter
  /\ SequencerInv /\ QuietNet /\ FlightInv

\* In a new client nobody holds a token and nothing is pending.
LEMMA InitRouterInv == Init => RouterInv
<1> SUFFICES ASSUME Init PROVE RouterInv
  OBVIOUS
<1> USE Names, RouterNames
<1>1. IndInv /\ LifeInv /\ GateInv /\ OneWriter
  BY InitIndInv, InitLife DEF Init
<1>2. /\ pc[Run] = "new" /\ pc[Restore] = "off" /\ \A p \in Writers : pc[p] = "idle"
      /\ c = NewClient
  BY DEF Init, StreamInit, SessionBound
<1>3. \A p \in Procs : ~ Holding(p)
  BY <1>2 DEF Holding, Flight
<1>4. ~ c.restoring /\ c.saved = NoRequest /\ c.pending = NoPending
  BY <1>2 DEF NewClient
<1>5. SequencerInv
  BY <1>2, <1>3, <1>4 DEF SequencerInv, Flight
<1>6. QuietNet /\ FlightInv
  BY <1>4 DEF Init, StreamInit, QuietNet, FlightInv
<1> QED
  BY <1>1, <1>5, <1>6 DEF RouterInv

\* Every step preserves RouterInv.
LEMMA StepRouterInv == RouterInv /\ [Next]_vars => RouterInv'
<1> SUFFICES ASSUME RouterInv, [Next]_vars PROVE RouterInv'
  OBVIOUS
<1> USE DEF RouterInv
<1>1. IndInv'
  BY StepIndInv
<1>2. LifeInv' /\ GateInv' /\ OneWriter'
  BY StepLife
<1>3. SequencerInv' /\ QuietNet' /\ FlightInv'
  BY StepOrder, StepQuiet, StepFlight
<1> QED
  BY <1>1, <1>2, <1>3

\* RouterInv holds in every reachable state.
THEOREM RouterInvariance == Spec => []RouterInv
BY InitRouterInv, StepRouterInv, PTL DEF Spec

\* Subscriptions, heartbeats and pongs never write to one connection together.
THEOREM RouterOneWriter == Spec => []OneWriter
<1>1. RouterInv => OneWriter
  BY DEF RouterInv
<1> QED
  BY <1>1, RouterInvariance, PTL

\* When run is done, every connection that it dialed is closed, the goroutines
\* of its sessions are gone and no frame is left in the channel.
THEOREM RouterNoLeak == Spec => []NoLeak
<1>1. RouterInv => NoLeak
  BY LifeNoLeak DEF RouterInv, IndInv
<1> QED
  BY <1>1, RouterInvariance, PTL

\* After a terminal error of the read loop no further session is dialed, even
\* when a concurrent discard recorded another cause first.
THEOREM RouterFatal == Spec => []NoSessionAfterFatal
<1>1. RouterInv => NoSessionAfterFatal
  BY LifeFatal DEF RouterInv
<1> QED
  BY <1>1, RouterInvariance, PTL

\* A session stops being current only with its connection closed and a cause.
THEOREM RouterDropped == Spec => DroppedWithCause
<1> DEFINE Caused == c.current # NoSession /\ c'.current # c.current =>
                         /\ c.current \in c'.closed \intersect c'.cancelled
                         /\ c'.stopped \/ c'.failure[c.current] # NoErr
<1>1. RouterInv /\ [Next]_vars => [Caused]_vars
  BY StepLife DEF RouterInv, Kept
<1> QED
  BY <1>1, RouterInvariance, PTL DEF Spec, DroppedWithCause

\* A request is pending only while its caller still works on it and holds the
\* sequencer: no timeout, disconnect or lost reply leaves one behind that the
\* next acknowledgement could answer.
THEOREM PendingInFlight == Spec => []PendingIsInFlight
<1>1. RouterInv => PendingIsInFlight
  <2> SUFFICES ASSUME RouterInv, c.pending # NoPending
               PROVE  /\ c.pending.session = c.current
                      /\ c.pending.revision = c.revision
                      /\ ~ c.ready
                      /\ ~ SessionDone(c, c.current) =>
                           /\ ~ subscribeGate
                           /\ loc[c.pending.owner].revision = c.pending.revision
                           /\ pc[c.pending.owner] \in Flight
    BY DEF PendingIsInFlight, Flight
  <2> USE Names, RouterNames, StreamFacts DEF RouterInv, IndInv
  <2>1. /\ c.pending.session = c.current /\ c.pending.revision = c.revision /\ ~ c.ready
        /\ c.pending.owner \in Owners
    BY DEF Consistent, SubscriptionAgrees
  <2>2. ASSUME ~ SessionDone(c, c.current)
        PROVE  InFlight(c.pending.owner) /\ Holding(c.pending.owner)
    <3>1. InFlight(c.pending.owner)
      BY <2>2 DEF FlightInv
    <3> QED
      BY <2>1, <3>1 DEF InFlight, Holding, Flight
  <2>3. ~ SessionDone(c, c.current) => ~ subscribeGate
    BY <2>1, <2>2 DEF SequencerInv
  <2> QED
    BY <2>1, <2>2, <2>3 DEF InFlight
<1> QED
  BY <1>1, RouterInvariance, PTL

-----------------------------------------------------------------------------
(* With an honest server *)

Answer(m) == m.kind \in {"ack", "too_large"}

\* run serves the current session.
Serving == c.current # NoSession /\ ~ Away

(***************************************************************************)
(* Record x agrees with what is on the wire: in and out are the messages   *)
(* to the client and to the server, r is the server's side.  At most one   *)
(* request or answer is on its way, it belongs to the pending request, and *)
(* behind an acknowledgement there are only frames of its subscription.    *)
(***************************************************************************)
NetTurn(x, in, out, r) ==
  /\ out # << >> =>
       /\ Len(out) = 1 /\ x.pending # NoPending
       /\ out[1].revision = x.revision /\ out[1].payload = x.pending.request
  /\ \A i \in DOMAIN in : Answer(in[i]) =>
       /\ \A j \in DOMAIN in : Answer(in[j]) => j = i
       /\ out = << >> /\ x.pending # NoPending /\ in[i].revision = x.revision
       /\ in[i].kind = "ack" =>
            /\ Len(in[i].results) = Len(x.pending.request) /\ r.revision = x.revision
            /\ \A j \in DOMAIN in : j > i /\ in[j].kind = "frame" =>
                                      in[j].revision = x.revision
       /\ in[i].kind = "too_large" => r.refused = x.revision
  /\ x.ready =>
       /\ r.revision = x.revision
       /\ \A i \in DOMAIN in : in[i].kind = "frame" => in[i].revision = x.revision

\* A request that is about to be written is the pending one, and neither it nor
\* its answer is on its way yet.
WriteTurn ==
  \A p \in Owners : pc[p] = "write" /\ loc[p].s = c.current =>
    /\ c.pending # NoPending /\ loc[p].revision = c.revision
    /\ loc[p].payload = c.pending.request
    /\ outbox = << >> /\ \A i \in DOMAIN inbox : ~ Answer(inbox[i])

TurnInv == Serving => NetTurn(c, inbox, outbox, peer) /\ WriteTurn

\* The two records agree on the request and on delivery.
SameTurn(x, y) ==
  /\ y.revision = x.revision /\ y.current = x.current
  /\ y.pending = x.pending /\ y.ready = x.ready

\* What counts for the wire is the request.
LEMMA TurnSame ==
  ASSUME NEW x, NEW y, NEW in, NEW out, NEW r, SameTurn(x, y), NetTurn(x, in, out, r)
  PROVE  NetTurn(y, in, out, r)
BY DEF SameTurn, NetTurn

\* A message that answers nothing is read.
LEMMA TurnRead ==
  ASSUME NEW x, NEW in \in Seq(Messages), NEW out, NEW r, in # << >>,
         NetTurn(x, in, out, r), ~ Answer(Head(in))
  PROVE  NetTurn(x, Tail(in), out, r)
<1> DEFINE t == Tail(in)
<1>1. /\ DOMAIN t = 1 .. Len(in) - 1 /\ Len(in) \in Nat \ {0} /\ Head(in) = in[1]
      /\ DOMAIN in = 1 .. Len(in)
      /\ \A i \in DOMAIN t : i + 1 \in DOMAIN in /\ t[i] = in[i + 1]
  OBVIOUS
<1> HIDE DEF t
<1>2. NetTurn(x, t, out, r)
  BY <1>1 DEF NetTurn
<1> QED
  BY <1>2 DEF t

\* Behind an answer there is no other one.
LEMMA TurnAnswered ==
  ASSUME NEW x, NEW in \in Seq(Messages), NEW out, NEW r, in # << >>,
         NetTurn(x, in, out, r), Answer(Head(in))
  PROVE  /\ out = << >> /\ \A i \in DOMAIN Tail(in) : ~ Answer(Tail(in)[i])
         /\ x.pending # NoPending /\ Head(in).revision = x.revision
         /\ Head(in).kind = "ack" =>
              /\ Len(Head(in).results) = Len(x.pending.request)
              /\ r.revision = x.revision
              /\ \A i \in DOMAIN Tail(in) : Tail(in)[i].kind = "frame" =>
                                              Tail(in)[i].revision = x.revision
         /\ Head(in).kind = "too_large" => r.refused = x.revision
<1> DEFINE t == Tail(in)
<1>1. /\ DOMAIN t = 1 .. Len(in) - 1 /\ Len(in) \in Nat \ {0} /\ Head(in) = in[1]
      /\ DOMAIN in = 1 .. Len(in)
      /\ \A i \in DOMAIN t : i + 1 \in DOMAIN in /\ i + 1 > 1 /\ t[i] = in[i + 1]
  OBVIOUS
<1> HIDE DEF t
<1>2. /\ out = << >> /\ x.pending # NoPending /\ in[1].revision = x.revision
      /\ \A j \in DOMAIN in : Answer(in[j]) => j = 1
      /\ in[1].kind = "ack" =>
            /\ Len(in[1].results) = Len(x.pending.request) /\ r.revision = x.revision
            /\ \A j \in DOMAIN in : j > 1 /\ in[j].kind = "frame" =>
                                      in[j].revision = x.revision
      /\ in[1].kind = "too_large" => r.refused = x.revision
  BY <1>1 DEF NetTurn
<1>3. \A i \in DOMAIN t : ~ Answer(t[i])
  BY <1>1, <1>2
<1>4. in[1].kind = "ack" =>
        \A i \in DOMAIN t : t[i].kind = "frame" => t[i].revision = x.revision
  BY <1>1, <1>2
<1> QED
  BY <1>1, <1>2, <1>3, <1>4 DEF t

\* The server sends a message that is no answer; a frame carries the revision
\* that it serves.
LEMMA TurnSent ==
  ASSUME NEW x, NEW in \in Seq(Messages), NEW out, NEW r, NEW m \in Messages,
         NetTurn(x, in, out, r), ~ Answer(m), m.kind = "frame" => m.revision = r.revision
  PROVE  /\ NetTurn(x, Append(in, m), out, r)
         /\ (\A i \in DOMAIN in : ~ Answer(in[i])) =>
              \A i \in DOMAIN Append(in, m) : ~ Answer(Append(in, m)[i])
<1> DEFINE t == Append(in, m)
<1>1. /\ DOMAIN t = 1 .. Len(in) + 1 /\ Len(in) \in Nat /\ DOMAIN in = 1 .. Len(in)
      /\ t[Len(in) + 1] = m /\ \A i \in DOMAIN in : t[i] = in[i] /\ i \in DOMAIN t
  OBVIOUS
<1> HIDE DEF t
<1>2. \A i \in DOMAIN t : (i \in DOMAIN in /\ t[i] = in[i]) \/ t[i] = m
  BY <1>1
<1>3. \A i \in DOMAIN t : Answer(t[i]) => i \in DOMAIN in /\ Answer(in[i]) /\ t[i] = in[i]
  BY <1>2
<1>4. NetTurn(x, t, out, r)
  BY <1>2, <1>3 DEF NetTurn
<1> QED
  BY <1>3, <1>4 DEF t

\* The server answers the request, which is the pending one.
LEMMA TurnReplied ==
  ASSUME NEW x, NEW in \in Seq(Messages),
         NEW out \in Seq([ payload: Requests, revision: Nat ]), NEW r, NEW r2,
         NEW m \in Messages, Answer(m), NetTurn(x, in, out, r), out # << >>,
         x.pending # NoPending => ~ x.ready,
         m.revision = Head(out).revision,
         m.kind = "ack" => /\ Len(m.results) = Len(Head(out).payload)
                           /\ r2.revision = m.revision,
         m.kind = "too_large" => r2.refused = m.revision
  PROVE  NetTurn(x, Append(in, m), Tail(out), r2)
<1> DEFINE t == Append(in, m)
           e == Tail(out)
<1>1. /\ DOMAIN t = 1 .. Len(in) + 1 /\ Len(in) \in Nat /\ DOMAIN in = 1 .. Len(in)
      /\ t[Len(in) + 1] = m /\ \A i \in DOMAIN in : t[i] = in[i]
  OBVIOUS
<1>2. /\ Len(out) = 1 /\ x.pending # NoPending /\ out[1].revision = x.revision
      /\ out[1].payload = x.pending.request
  BY DEF NetTurn
<1>3. Head(out) = out[1] /\ e = << >>
  <2> DEFINE Sent == [ payload: Requests, revision: Nat ]
  <2>1. out \in Seq(Sent)
    OBVIOUS
  <2> HIDE DEF Sent
  <2>2. e \in Seq(Sent) /\ Len(e) = 0
    BY <1>2, <2>1
  <2> HIDE DEF e
  <2>3. e = << >>
    BY <2>2
  <2> QED
    BY <2>3
<1>4. \A i \in DOMAIN in : ~ Answer(in[i])
  BY DEF NetTurn
<1> HIDE DEF t, e
<1>5. \A i \in DOMAIN t : Answer(t[i]) => i = Len(in) + 1 /\ t[i] = m
  BY <1>1, <1>4
<1>6. \A j \in DOMAIN t : ~ (j > Len(in) + 1)
  BY <1>1
<1>7. m.revision = x.revision /\ ~ x.ready
  BY <1>2, <1>3
<1>8. m.kind = "ack" => Len(m.results) = Len(x.pending.request) /\ r2.revision = x.revision
  BY <1>2, <1>3, <1>7
<1>9. m.kind = "too_large" => r2.refused = x.revision
  BY <1>7
<1>10. NetTurn(x, t, e, r2)
  BY <1>2, <1>3, <1>5, <1>6, <1>7, <1>8, <1>9 DEF NetTurn
<1> QED
  BY <1>10 DEF t, e

\* Only the installation of a session brings run back to its read loop.
LEMMA EntersByInstall ==
  ASSUME IndInv, [Next]_vars, Away, ~ Away'
  PROVE  InstallFirst \/ InstallNext
<1> USE DEF IndInv, Away, Leaving, Between
<1> USE Names, StreamFacts, RouterNames
<1>0. /\ pc \in [Procs -> Labels] /\ {Run, Beat} \subseteq Procs \ Waiters
      /\ Writers \union {Restore} \subseteq Procs \ (Waiters \union {Run})
  BY ProcsAssumption DEF GoroutineTypes
<1>1. ASSUME NEW p \in Procs \ Waiters, Write(p)
      PROVE  FALSE
  <2>1. pc[p] \in {"wgate", "write", "wrote"} /\ pc' = [pc EXCEPT ![p] = pc'[p]]
    BY <1>1, WriteMoves
  <2> QED
    BY <1>0, <2>1
<1>2. CASE RunStep /\ ~ Write(Run) /\ ~ InstallFirst /\ ~ InstallNext
  BY <1>0, <1>2
  DEF RunStep, DialFirst, DialFirstFails, ReadClosed, CloseOnCancel, Reading,
      PongWritten, Join, AfterSession, LeaveSession, DiscardSession, DecideRetry,
      BackoffElapsed, BackoffCancelled, DialNext, DialNextFails, TakeSubscribeGate,
      GateCancelled, Exit, Dialed, Teardown, Goto
<1>3. CASE BeatStop \/ BeatWritten \/ BeatTick
  BY <1>0, <1>3 DEF BeatStop, BeatWritten, BeatTick, Goto
<1>4. CASE \/ ReadFails \/ ReadPing \/ Close \/ CancelLifetime \/ DrainEvent
  BY <1>0, <1>4 DEF ReadFails, ReadPing, Close, CancelLifetime, DrainEvent
<1>5. ASSUME NEW p \in Waiters, ReconnectCall(p) \/ ReconnectCancel(p) \/ ReconnectStep(p)
      PROVE  pc'[Run] = pc[Run]
  BY <1>0, <1>5
  DEF ReconnectCall, ReconnectCancel, ReconnectStep, ReconnectDiscard,
      ReconnectCheck, ReconnectWake, Goto
<1>6. CASE OwnerStep
  BY <1>6, OwnerMoves
<1>7. CASE Handler
  BY <1>7, HandlerInput
<1>8. CASE DrainFrame \/ Server \/ UNCHANGED vars
  <2>1. UNCHANGED pc
    BY <1>8
    DEF DrainFrame, Server, ServerAck, ServerTooLarge, ServerFrame, ServerReport,
        ServerFault, Send, vars
  <2> QED
    BY <2>1
<1> QED
  BY <1>0, <1>1, <1>2, <1>3, <1>4, <1>5, <1>6, <1>7, <1>8
  DEF Next, StreamNext, RunStep, BeatStep, StreamEnvironment, RestoreStep, SubscribeStep,
      OwnerStep

\* No request is begun with this step.
NoNewRequest ==
  \A p \in Owners : pc'[p] = "write" => pc[p] = "write" /\ loc'[p] = loc[p]

\* Nothing happens on the wire, and the request stays or its session goes.
LEMMA TurnStays ==
  ASSUME TurnInv, Serving' => Serving, UNCHANGED network, NoNewRequest,
         c'.current # NoSession => SameTurn(c, c')
  PROVE  TurnInv'
<1> SUFFICES ASSUME Serving' PROVE NetTurn(c, inbox, outbox, peer)' /\ WriteTurn'
  BY DEF TurnInv
<1>1. /\ SameTurn(c, c') /\ NetTurn(c, inbox, outbox, peer) /\ WriteTurn
      /\ UNCHANGED << inbox, outbox, peer >>
  BY DEF TurnInv, Serving, network
<1>2. NetTurn(c, inbox, outbox, peer)'
  BY <1>1, TurnSame
<1>3. WriteTurn'
  BY <1>1 DEF WriteTurn, SameTurn, NoNewRequest
<1> QED
  BY <1>2, <1>3

\* A message that answers nothing is read.
LEMMA TurnReads ==
  ASSUME IndInv, TurnInv, Serving' => Serving, NoNewRequest,
         inbox # << >>, inbox' = Tail(inbox), ~ Answer(Head(inbox)),
         UNCHANGED << outbox, peer >>,
         c'.current # NoSession => SameTurn(c, c')
  PROVE  TurnInv'
<1> SUFFICES ASSUME Serving' PROVE NetTurn(c, inbox, outbox, peer)' /\ WriteTurn'
  BY DEF TurnInv
<1>0. inbox \in Seq(Messages)
  BY DEF IndInv, NetworkTypes
<1>1. SameTurn(c, c') /\ NetTurn(c, inbox, outbox, peer) /\ WriteTurn
  BY DEF TurnInv, Serving
<1>2. NetTurn(c, Tail(inbox), outbox, peer)
  BY <1>0, <1>1, TurnRead
<1>3. NetTurn(c, inbox, outbox, peer)'
  BY <1>1, <1>2, TurnSame
<1>4. (\A i \in DOMAIN inbox : ~ Answer(inbox[i])) =>
        \A i \in DOMAIN inbox' : ~ Answer(inbox'[i])
  BY <1>0
<1>5. WriteTurn'
  BY <1>1, <1>4 DEF WriteTurn, SameTurn, NoNewRequest
<1> QED
  BY <1>3, <1>5

\* A session starts with an empty connection and nobody writes to it.
LEMMA InstallTurn ==
  ASSUME RouterInv, InstallFirst \/ InstallNext
  PROVE  TurnInv'
<1> USE Names, StreamFacts, RouterNames DEF RouterInv, IndInv
<1>0. /\ pc \in [Procs -> Labels] /\ Restore \notin Writers /\ Run \notin Writers
      /\ Beat \notin Writers
  BY DEF GoroutineTypes
<1>1. Away /\ UNCHANGED network
  BY DEF InstallFirst, InstallNext, Away, Between
<1>2. inbox' = << >> /\ outbox' = << >>
  BY <1>1 DEF QuietNet, network
<1>3. c'.pending = NoPending /\ ~ c'.ready
  BY InstallBare
<1>4. NetTurn(c, inbox, outbox, peer)'
  BY <1>2, <1>3 DEF NetTurn
<1>5. \A p \in Writers : pc[p] # "write"
  <2>1. CASE InstallFirst
    BY <2>1 DEF InstallFirst, SequencerInv, Returned
  <2>2. CASE InstallNext
    <3>1. Holding(Run)
      BY <2>2 DEF InstallNext, Holding
    <3>2. \A p \in Writers : ~ Holding(p)
      BY <1>0, <3>1 DEF SequencerInv
    <3> QED
      BY <3>2 DEF Holding, Flight
  <2> QED
    BY <2>1, <2>2
<1>6. pc[Restore] = "off"
  BY DEF InstallFirst, InstallNext, LifeInv, Between
<1>7. \A p \in Owners : pc'[p] # "write"
  BY <1>0, <1>5, <1>6 DEF InstallFirst, InstallNext, StartSession, Goto
<1> QED
  BY <1>4, <1>7 DEF TurnInv, WriteTurn

\* A request begins only when none is pending.
LEMMA BeginTurn ==
  ASSUME RouterInv, TurnInv, NEW p \in Owners, WriteStart(p)
  PROVE  TurnInv'
<1> USE Names, StreamFacts, RouterNames DEF RouterInv, IndInv
<1>0. /\ pc \in [Procs -> Labels] /\ loc \in [Procs -> Locals] /\ loc[p] \in Locals
      /\ p \in Procs /\ Owners \subseteq Procs /\ Run \notin Owners
  BY DEF GoroutineTypes
<1>1. /\ c.current = loc[p].s /\ c'.current = c.current /\ ~ SessionDone(c, c.current)
      /\ c'.revision = c.revision + 1 /\ ~ c'.ready
      /\ c'.pending # NoPending /\ c'.pending.request = loc[p].payload
      /\ pc[p] = "wgate" /\ pc' = [pc EXCEPT ![p] = "write"]
      /\ loc' = [loc EXCEPT ![p] = [@ EXCEPT !.revision = c'.revision, !.started = TRUE]]
      /\ UNCHANGED network
  BY StartFacts
<1>2. Holding(p)
  BY <1>1 DEF Holding
<1>3. c.pending = NoPending
  <2> SUFFICES ASSUME c.pending # NoPending PROVE FALSE
    OBVIOUS
  <2>1. InFlight(c.pending.owner) /\ c.pending.owner \in Owners
    BY <1>1 DEF FlightInv, Consistent, SubscriptionAgrees
  <2>2. Holding(c.pending.owner) /\ pc[c.pending.owner] # "wgate"
    BY <2>1 DEF InFlight, Holding, Flight
  <2> QED
    BY <1>0, <1>1, <1>2, <2>1, <2>2 DEF SequencerInv
<1> SUFFICES ASSUME Serving' PROVE NetTurn(c, inbox, outbox, peer)' /\ WriteTurn'
  BY DEF TurnInv
<1>4. Serving
  BY <1>0, <1>1 DEF Serving, Away
<1>5. outbox = << >> /\ \A i \in DOMAIN inbox : ~ Answer(inbox[i])
  BY <1>3, <1>4 DEF TurnInv, NetTurn
<1>6. NetTurn(c, inbox, outbox, peer)'
  BY <1>1, <1>5 DEF NetTurn, network
<1>7. ASSUME NEW q \in Owners, pc'[q] = "write" PROVE q = p
  <2>1. q # p => pc[q] = "write" /\ q \in Procs
    BY <1>0, <1>1, <1>7
  <2>2. q # p => Holding(q)
    BY <2>1 DEF Holding, Flight
  <2> QED
    BY <1>0, <1>2, <2>1, <2>2 DEF SequencerInv
<1>8. loc'[p].revision = c'.revision /\ loc'[p].payload = loc[p].payload
  BY <1>0, <1>1 DEF Locals
<1>9. WriteTurn'
  BY <1>1, <1>5, <1>7, <1>8 DEF WriteTurn, network
<1> QED
  BY <1>6, <1>9

\* The request leaves.
LEMMA BytesTurn ==
  ASSUME RouterInv, TurnInv, NEW p \in Owners, WriteBytes(p)
  PROVE  TurnInv'
<1> USE Names, StreamFacts, RouterNames DEF RouterInv, IndInv
<1>0. /\ pc \in [Procs -> Labels] /\ Owners \subseteq Procs /\ Run \notin Owners
  BY DEF GoroutineTypes
<1>1. /\ pc[p] = "write" /\ loc[p].s \notin c.closed /\ pc' = [pc EXCEPT ![p] = "wrote"]
      /\ UNCHANGED << c, loc, inbox, peer >>
      /\ \/ outbox' = outbox
         \/ outbox' = Append(outbox, [ payload |-> loc[p].payload,
                                       revision |-> loc[p].revision ])
  BY DEF WriteBytes, Goto
<1>2. Holding(p)
  BY <1>1 DEF Holding, Flight
<1>3. \A q \in Owners : pc'[q] # "write"
  <2> SUFFICES ASSUME NEW q \in Owners, pc'[q] = "write" PROVE FALSE
    OBVIOUS
  <2>1. q # p /\ pc[q] = "write"
    BY <1>0, <1>1
  <2>2. Holding(q)
    BY <2>1 DEF Holding, Flight
  <2> QED
    BY <1>0, <1>2, <2>1, <2>2 DEF SequencerInv
<1>4. WriteTurn'
  BY <1>3 DEF WriteTurn
<1> SUFFICES ASSUME Serving' PROVE NetTurn(c, inbox, outbox, peer)'
  BY <1>4 DEF TurnInv
<1>5. Serving
  BY <1>0, <1>1 DEF Serving, Away
<1>6. loc[p].s = c.current
  <2>1. c.current = dialed
    BY <1>5 DEF Serving, RunOwnsSession, LifeInv
  <2>2. loc[p].s \in 1 .. dialed
    <3>1. CASE p \in Writers
      BY <1>0, <1>2, <3>1 DEF SequencerInv
    <3>2. CASE p = Restore
      BY <1>1, <3>2
      DEF SequencerInv, LocalsAgree, SessionLabels, Flight, Sessions, GoroutineTypes
    <3> QED
      BY <3>1, <3>2
  <2> QED
    BY <1>1, <2>1, <2>2 DEF LifeInv
<1>7. /\ c.pending # NoPending /\ loc[p].revision = c.revision
      /\ loc[p].payload = c.pending.request /\ outbox = << >>
      /\ \A i \in DOMAIN inbox : ~ Answer(inbox[i])
  BY <1>1, <1>5, <1>6 DEF TurnInv, WriteTurn
<1>8. NetTurn(c, inbox, outbox, peer)
  BY <1>5 DEF TurnInv
<1> DEFINE e == [ payload |-> loc[p].payload, revision |-> loc[p].revision ]
<1>9. e.payload = c.pending.request /\ e.revision = c.revision
  BY <1>7
<1>10. outbox' = << >> \/ outbox' = << e >>
  BY <1>1, <1>7
<1> HIDE DEF e
<1>11. outbox' # << >> => Len(outbox') = 1 /\ outbox'[1] = e
  BY <1>10
<1> QED
  BY <1>1, <1>7, <1>8, <1>9, <1>11 DEF NetTurn

\* run serves the current session when it handles a message of it.
LEMMA HandlerServing ==
  ASSUME IndInv, pc[Run] = "read"
  PROVE  /\ ~ Away
         /\ Serving <=> ~ Stale(c, loc[Run].s)
<1> USE StreamFacts DEF IndInv
<1>1. ~ Away /\ loc[Run].s \in Sessions
  BY DEF Away, Leaving, Between, LocalsAgree
<1>2. loc[Run].s # NoSession
  BY <1>1, MaxSessionsAssumption DEF Sessions, NoSession
<1> QED
  BY <1>1, <1>2 DEF Serving, Stale, RunOwnsSession

\* An answer to a client that is served finds the request that it answers.
LEMMA AnswerFits ==
  ASSUME IndInv, TurnInv, pc[Run] = "read", inbox # << >>
  PROVE  /\ Head(inbox).kind = "ack" =>
              ~ AckFails(c, loc[Run].s, Head(inbox).results)
         /\ Head(inbox).kind = "too_large" => ~ TooLargeFails(c, loc[Run].s)
<1> USE StreamFacts DEF IndInv
<1>0. inbox \in Seq(Messages)
  BY DEF NetworkTypes
<1>1. CASE Stale(c, loc[Run].s)
  BY <1>1 DEF AckFails, TooLargeFails
<1>2. CASE ~ Stale(c, loc[Run].s)
  <2>1. NetTurn(c, inbox, outbox, peer) /\ c.current = loc[Run].s
    BY <1>2, HandlerServing DEF TurnInv, Stale
  <2>2. Answer(Head(inbox)) =>
          /\ c.pending # NoPending
          /\ Head(inbox).kind = "ack" =>
               Len(Head(inbox).results) = Len(c.pending.request)
    BY <1>0, <2>1, TurnAnswered
  <2>3. c.pending # NoPending => c.pending.session = c.current
    BY DEF Consistent, SubscriptionAgrees
  <2> QED
    BY <2>1, <2>2, <2>3 DEF AckFails, TooLargeFails, Answer
<1> QED
  BY <1>1, <1>2

\* An answer is handled: the request is done, and nothing else is on its way.
LEMMA AnswerTurn ==
  ASSUME RouterInv, TurnInv, HandleAck \/ HandleTooLarge
  PROVE  TurnInv'
<1> USE Names, StreamFacts, RouterNames DEF RouterInv, IndInv
<1> DEFINE m == Head(inbox)
           s == loc[Run].s
<1>0. /\ pc[Run] = "read" /\ inbox # << >> /\ inbox \in Seq(Messages)
      /\ inbox' = Tail(inbox) /\ UNCHANGED << outbox, peer >> /\ s \in Sessions
      /\ m.results \in Seq(BOOLEAN) /\ m.revision \in Nat
      /\ \A q \in Procs \ {Run} : pc'[q] = pc[q] /\ loc'[q] = loc[q]
  BY HandlerInput DEF Handler
<1>1. Answer(m) /\ m.kind \in {"ack", "too_large"}
  BY DEF HandleAck, HandleTooLarge, Receive, Answer
<1>2. \/ m.kind = "ack" /\ c' = Ack(c, s, m.results, m.revision)
      \/ m.kind = "too_large" /\ c' = TooLarge(c, s)
  BY DEF HandleAck, HandleTooLarge, Receive
<1>3. /\ m.kind = "ack" => ~ AckFails(c, s, m.results)
      /\ m.kind = "too_large" => ~ TooLargeFails(c, s)
  BY <1>0, AnswerFits
<1>4. Serving <=> ~ Stale(c, s)
  BY <1>0, HandlerServing
<1> HIDE DEF m, s
<1>5. CASE Stale(c, s)
  <2>1. c' = c /\ c.current = NoSession
    BY <1>0, <1>2, <1>4, <1>5, HandlerServing DEF Ack, TooLarge, Serving
  <2> QED
    BY <2>1 DEF TurnInv, Serving
<1>6. CASE ~ Stale(c, s)
  <2>1. NetTurn(c, inbox, outbox, peer) /\ WriteTurn
    BY <1>4, <1>6 DEF TurnInv
  <2>2. /\ outbox = << >> /\ \A i \in DOMAIN Tail(inbox) : ~ Answer(Tail(inbox)[i])
        /\ c.pending # NoPending
        /\ m.kind = "ack" =>
             /\ peer.revision = c.revision
             /\ \A i \in DOMAIN Tail(inbox) : Tail(inbox)[i].kind = "frame" =>
                                                Tail(inbox)[i].revision = c.revision
    BY <1>0, <1>1, <2>1, TurnAnswered DEF m
  <2>3. c'.revision = c.revision /\ c'.pending = NoPending
    BY <1>0, <1>2, <1>3, <1>6, AckEnds, TooLargeEnds
  <2>4. /\ m.kind = "too_large" => ~ c'.ready
        /\ c'.current \in {c.current, NoSession}
    <3>1. ~ c.ready
      BY <2>2
    <3> QED
      BY <1>0, <1>2, <1>3, <1>6, <3>1, AckEnds, TooLargeEnds
  <2>5. c'.ready => peer.revision = c.revision /\ m.kind = "ack"
    BY <1>1, <2>2, <2>4
  <2>6. NetTurn(c, inbox, outbox, peer)'
    BY <1>0, <2>2, <2>3, <2>5 DEF NetTurn
  <2>7. \A p \in Owners : ~ (pc[p] = "write" /\ loc[p].s = c.current)
    <3>1. 1 \in DOMAIN inbox /\ inbox[1] = m
      BY <1>0 DEF m
    <3> QED
      BY <1>1, <2>1, <3>1 DEF WriteTurn
  <2>8. c'.current # NoSession => WriteTurn'
    BY <1>0, <2>4, <2>7 DEF WriteTurn
  <2> QED
    BY <2>6, <2>8 DEF TurnInv, Serving
<1> QED
  BY <1>5, <1>6

\* Any other message.
LEMMA OtherTurn ==
  ASSUME RouterInv, TurnInv, HandleServerError \/ HandleFrame
  PROVE  TurnInv'
<1> USE Names, StreamFacts, RouterNames DEF RouterInv, IndInv
<1> DEFINE m == Head(inbox)
           s == loc[Run].s
<1>0. /\ pc[Run] = "read" /\ inbox # << >> /\ inbox' = Tail(inbox)
      /\ UNCHANGED << outbox, peer >> /\ s \in Sessions
      /\ m.revision \in Nat /\ m.key \in Keys \union {NoPair}
      /\ \A q \in Procs \ {Run} : pc'[q] = pc[q] /\ loc'[q] = loc[q]
  BY HandlerInput DEF Handler
<1>1. ~ Answer(m)
  BY DEF HandleServerError, HandleFrame, Receive, Answer
<1>2. ~ Away
  BY <1>0, HandlerServing
<1>3. c'.current # NoSession => SameTurn(c, c')
  <2>1. CASE HandleServerError
    BY <2>1, ServerErrorCalm DEF HandleServerError, Calm, SameTurn
  <2>2. CASE HandleFrame
    <3>1. c' = Update(c, s, m.key, m.revision)
      BY <2>2 DEF HandleFrame
    <3> DEFINE q == Append(c.frames, [ key |-> m.key, generation |-> c.sgen[s],
                                       revision |-> c.revision, source |-> m.revision ])
    <3> HIDE DEF m, s
    <3>2. Calm(c, c') \/ c' = [c EXCEPT !.frames = q]
      BY <1>0, <3>1, UpdateCalm
    <3> HIDE DEF q
    <3> QED
      BY <3>2 DEF Calm, SameTurn, ClientState
  <2> QED
    BY <2>1, <2>2
<1>4. NoNewRequest
  BY <1>0 DEF NoNewRequest
<1>5. Serving' => Serving
  BY <1>2, <1>3 DEF Serving, SameTurn
<1> QED
  BY <1>0, <1>1, <1>3, <1>4, <1>5, TurnReads

\* The honest server takes its turn.
LEMMA ServerTurn ==
  ASSUME RouterInv, TurnInv, Server, "fault" \notin Disturbances
  PROVE  TurnInv'
<1> USE Names, StreamFacts, RouterNames DEF RouterInv, IndInv
<1>0. /\ UNCHANGED << c, pc, loc >> /\ inbox \in Seq(Messages)
      /\ outbox \in Seq([ payload: Requests, revision: Nat ])
  BY DEF Server, ServerAck, ServerTooLarge, ServerFrame, ServerReport, ServerFault, Send,
         NetworkTypes
<1>1. NetworkTypes'
  BY ServerTypes
<1> SUFFICES ASSUME Serving' PROVE NetTurn(c, inbox, outbox, peer)' /\ WriteTurn'
  BY DEF TurnInv
<1>2. Serving
  BY <1>0 DEF Serving, Away
<1>3. NetTurn(c, inbox, outbox, peer) /\ WriteTurn
  BY <1>2 DEF TurnInv
<1>4. ASSUME outbox # << >> PROVE WriteTurn'
  <2>1. \A p \in Owners : ~ (pc[p] = "write" /\ loc[p].s = c.current)
    BY <1>3, <1>4 DEF WriteTurn
  <2> QED
    BY <1>0, <2>1 DEF WriteTurn
<1>5. ASSUME NEW m \in Messages, Answer(m), Send(m), outbox # << >>,
             outbox' = Tail(outbox), m.revision = Head(outbox).revision,
             m.kind = "ack" => /\ Len(m.results) = Len(Head(outbox).payload)
                               /\ peer'.revision = m.revision,
             m.kind = "too_large" => peer'.refused = m.revision
      PROVE  NetTurn(c, inbox, outbox, peer)'
  <2>1. NetTurn(c, Append(inbox, m), Tail(outbox), peer')
    BY <1>0, <1>3, <1>5, TurnReplied
  <2> QED
    BY <1>0, <1>5, <2>1 DEF Send
<1>6. ASSUME NEW m \in Messages, ~ Answer(m), Send(m), UNCHANGED << outbox, peer >>,
             m.kind = "frame" => m.revision = peer.revision
      PROVE  NetTurn(c, inbox, outbox, peer)' /\ WriteTurn'
  <2>1. /\ NetTurn(c, Append(inbox, m), outbox, peer)
        /\ (\A i \in DOMAIN inbox : ~ Answer(inbox[i])) =>
             \A i \in DOMAIN Append(inbox, m) : ~ Answer(Append(inbox, m)[i])
    BY <1>0, <1>3, <1>6, TurnSent
  <2>2. inbox' = Append(inbox, m)
    BY <1>6 DEF Send
  <2>3. WriteTurn'
    BY <1>0, <1>3, <1>6, <2>1, <2>2 DEF WriteTurn
  <2> QED
    BY <1>0, <1>6, <2>1, <2>2, <2>3
<1>7. outbox # << >> => /\ Head(outbox).payload \in Requests
                        /\ Head(outbox).revision \in Nat
  <2> DEFINE Sent == [ payload: Requests, revision: Nat ]
  <2>0. outbox \in Seq(Sent)
    BY <1>0
  <2> HIDE DEF Sent
  <2>1. outbox # << >> => Head(outbox) \in Sent
    BY <2>0
  <2> QED
    BY <2>1 DEF Sent
<1>8. ASSUME NEW kind \in {"ack", "frame", "too_large", "error", "ping"}
      PROVE  Message(kind) \in Messages /\ Message(kind).kind = kind
  <2>1. << >> \in Seq(BOOLEAN)
    OBVIOUS
  <2> QED
    BY <2>1 DEF Message, Messages
<1>9. CASE ServerAck
  <2> DEFINE request == Head(outbox).payload
             revision == Head(outbox).revision
  <2>1. request \in Seq(Filters) /\ revision \in Nat /\ outbox # << >>
    BY <1>7, <1>9, RequestsAssumption DEF ServerAck
  <2>2. PICK results \in [1 .. Len(request) -> BOOLEAN] :
          /\ peer' = [peer EXCEPT
                !.revision = revision,
                !.filters = {request[i] : i \in {j \in DOMAIN request : results[j]}}]
          /\ Send([Message("ack") EXCEPT !.results = results, !.revision = revision])
    BY <1>9 DEF ServerAck
  <2>3. outbox' = Tail(outbox)
    BY <1>9 DEF ServerAck
  <2> DEFINE m == [Message("ack") EXCEPT !.results = results, !.revision = revision]
             new == {request[i] : i \in {j \in DOMAIN request : results[j]}}
  <2>4. results \in Seq(BOOLEAN) /\ Len(results) = Len(request)
    BY <2>1
  <2>5. m \in Messages /\ m.kind = "ack" /\ m.results = results /\ m.revision = revision
    BY <1>8, <2>1, <2>4 DEF Messages
  <2> HIDE DEF m, new
  <2>6. peer'.revision = revision
    BY <2>2 DEF NetworkTypes, new
  <2>7. Send(m)
    BY <2>2 DEF m
  <2> QED
    BY <1>4, <1>5, <2>1, <2>3, <2>4, <2>5, <2>6, <2>7 DEF Answer
<1>10. CASE ServerTooLarge
  <2> DEFINE m == [Message("too_large") EXCEPT !.revision = Head(outbox).revision]
  <2>1. /\ outbox # << >> /\ outbox' = Tail(outbox) /\ Send(m)
        /\ peer' = [peer EXCEPT !.refused = Head(outbox).revision]
    BY <1>10 DEF ServerTooLarge
  <2>2. m \in Messages /\ m.kind = "too_large" /\ m.revision = Head(outbox).revision
    BY <1>7, <1>8, <2>1 DEF Messages
  <2> HIDE DEF m
  <2>3. peer'.refused = m.revision
    BY <2>1, <2>2 DEF NetworkTypes
  <2> QED
    BY <1>4, <1>5, <2>1, <2>2, <2>3 DEF Answer
<1>11. CASE ServerFrame
  <2>1. PICK f \in peer.filters : \E key \in f :
          Send([Message("frame") EXCEPT !.key = key, !.revision = peer.revision])
    BY <1>11 DEF ServerFrame
  <2>2. PICK key \in f :
          Send([Message("frame") EXCEPT !.key = key, !.revision = peer.revision])
    BY <2>1
  <2> DEFINE m == [Message("frame") EXCEPT !.key = key, !.revision = peer.revision]
  <2>3. key \in Keys /\ peer.revision \in Nat
    BY DEF NetworkTypes, Filters
  <2>4. m \in Messages /\ m.kind = "frame" /\ m.revision = peer.revision
    BY <1>8, <2>3 DEF Messages
  <2>5. Send(m) /\ UNCHANGED << outbox, peer >>
    BY <1>11, <2>2 DEF ServerFrame
  <2> HIDE DEF m
  <2> QED
    BY <1>6, <2>4, <2>5 DEF Answer
<1>12. CASE ServerReport
  <2>1. PICK kind \in {"error", "ping"} : Send(Message(kind))
    BY <1>12 DEF ServerReport
  <2>2. UNCHANGED << outbox, peer >>
    BY <1>12 DEF ServerReport
  <2> QED
    BY <1>6, <1>8, <2>1, <2>2 DEF Answer
<1> QED
  BY <1>9, <1>10, <1>11, <1>12 DEF Server, ServerFault

\* Of the steps of both clients, the read of a ping and the teardown touch the
\* connection.
LEMMA StreamWire ==
  ASSUME IndInv, StreamNext, ~ ReadPing, ~ Teardown
  PROVE  UNCHANGED network
<1> USE DEF network
<1>0. Run \in Procs \ Waiters /\ Beat \in Procs \ Waiters /\ {Run, Beat} \intersect Owners = {}
  BY Names, RouterNames, ProcsAssumption
<1>1. ASSUME NEW p \in {Run, Beat}, Write(p) PROVE UNCHANGED network
  BY <1>0, <1>1, WriteNetwork
<1>2. CASE RunStep /\ ~ Write(Run)
  BY <1>2
  DEF RunStep, DialFirst, DialFirstFails, InstallFirst, ReadClosed, CloseOnCancel,
      PongWritten, Join, AfterSession, LeaveSession, DiscardSession, DecideRetry,
      BackoffElapsed, BackoffCancelled, DialNext, DialNextFails, TakeSubscribeGate,
      GateCancelled, InstallNext, Exit, Dialed
<1>3. CASE BeatStop \/ BeatWritten \/ StreamEnvironment
  BY <1>3
  DEF BeatStop, BeatWritten, StreamEnvironment, ReadFails, BeatTick, Close,
      CancelLifetime, DrainEvent, ReconnectCall, ReconnectCancel
<1>4. CASE \E p \in Waiters : ReconnectStep(p)
  BY <1>4 DEF ReconnectStep, ReconnectDiscard, ReconnectCheck, ReconnectWake
<1> QED
  BY <1>1, <1>2, <1>3, <1>4 DEF StreamNext, RunStep, BeatStep

\* The steps that touch neither the requests nor the wire.
Bystander ==
  \/ StreamNext /\ ~ InstallFirst /\ ~ InstallNext /\ ~ ReadPing /\ ~ Teardown
  \/ OwnerStep
  \/ \E p \in Owners : Write(p) /\ ~ WriteStart(p) /\ ~ WriteBytes(p)
  \/ DrainFrame
  \/ UNCHANGED vars

\* The application has taken a frame, or the subscription has ended.
FewerFrames(x, y) ==
  \/ y.frames = x.frames
  \/ y.frames = << >>
  \/ x.frames # << >> /\ y.frames = Tail(x.frames)

\* No reply has come; one may have been taken.
FewerReplies(x, y) == \A o \in Owners : y.reply[o] \in {x.reply[o], NoReply}

\* They leave the request as it is, or take it away with its session.
\* No frame and no reply comes with them.
LEMMA BystanderStep ==
  ASSUME IndInv, LifeInv, Bystander
  PROVE  /\ UNCHANGED network /\ NoNewRequest /\ c'.saved = c.saved
         /\ c'.current # NoSession => SameTurn(c, c')
         /\ FewerFrames(c, c') /\ FewerReplies(c, c')
<1> USE Names, StreamFacts, RouterNames DEF IndInv
<1>0. /\ pc \in [Procs -> Labels] /\ loc \in [Procs -> Locals] /\ Owners \subseteq Procs
      /\ Owners \subseteq Procs \ Waiters
  BY ProcsAssumption DEF GoroutineTypes
<1> USE DEF FewerFrames, FewerReplies
<1>1. CASE StreamNext /\ ~ InstallFirst /\ ~ InstallNext /\ ~ ReadPing /\ ~ Teardown
  <2>1. UNCHANGED network
    BY <1>1, StreamWire
  <2>2. /\ c'.saved = c.saved /\ (c'.current # NoSession => SameTurn(c, c'))
        /\ FewerFrames(c, c') /\ FewerReplies(c, c')
    <3>1. CASE ~ Handover
      BY <1>1, <3>1, StreamCalm DEF Calm, Aside, SameTurn
    <3>2. CASE DialFirst \/ DialNext
      BY <3>2 DEF DialFirst, DialNext, Dialed, SameTurn
    <3>3. CASE TakeSubscribeGate
      BY <3>3 DEF TakeSubscribeGate, SameTurn, ClientState
    <3> QED
      BY <1>1, <3>1, <3>2, <3>3 DEF Handover
  <2>3. \A w \in Writers : pc'[w] = pc[w] /\ loc'[w] = loc[w]
    BY <1>1, WritersUntouched
  <2>4. pc'[Restore] = pc[Restore] /\ loc'[Restore] = loc[Restore]
    <3>1. CASE ~ Handover
      BY <1>1, <3>1, StreamMoves
    <3>2. CASE DialFirst \/ DialNext \/ TakeSubscribeGate
      BY <1>0, <3>2 DEF DialFirst, DialNext, Dialed, TakeSubscribeGate, Goto
    <3> QED
      BY <1>1, <3>1, <3>2 DEF Handover
  <2> QED
    BY <2>1, <2>2, <2>3, <2>4 DEF NoNewRequest
<1>2. CASE OwnerStep
  BY <1>0, <1>2, OwnerKept, OwnerMoves DEF Steady, SameTurn, NoNewRequest, NoNewWrite
<1>3. ASSUME NEW p \in Owners, Write(p), ~ WriteStart(p), ~ WriteBytes(p)
      PROVE  /\ UNCHANGED network /\ NoNewRequest /\ c'.saved = c.saved
             /\ c'.current # NoSession => SameTurn(c, c')
             /\ FewerFrames(c, c') /\ FewerReplies(c, c')
  <2>1. UNCHANGED network
    BY <1>0, <1>3, WriteNetwork
  <2>2. /\ c'.saved = c.saved /\ (c'.current # NoSession => SameTurn(c, c'))
        /\ FewerFrames(c, c') /\ FewerReplies(c, c')
    BY <1>0, <1>3, WriteCalm DEF Calm, Aside, SameTurn
  <2>3. pc'[p] = "written" /\ \A q \in Procs \ {p} : pc'[q] = pc[q] /\ loc'[q] = loc[q]
    <3>1. pc' = [pc EXCEPT ![p] = pc'[p]] /\ loc' = [loc EXCEPT ![p] = loc'[p]]
      BY <1>0, <1>3, WriteMoves
    <3>2. pc'[p] = "written"
      BY <1>0, <1>3
      DEF Write, WriteQueueTimeout, WriteQueueDisconnected, WriteTooLate, WriteRefused,
          WriteOk, WriteFail, Goto
    <3> QED
      BY <1>0, <3>1, <3>2
  <2>4. NoNewRequest
    BY <1>0, <2>3 DEF NoNewRequest
  <2> QED
    BY <2>1, <2>2, <2>4
<1>4. CASE DrainFrame
  BY <1>4 DEF DrainFrame, SameTurn, NoNewRequest, ClientState
<1>5. CASE UNCHANGED vars
  BY <1>5 DEF vars, network, SameTurn, NoNewRequest
<1> QED
  BY <1>1, <1>2, <1>3, <1>4, <1>5 DEF Bystander

\* The steps that are left.
LEMMA OtherSteps ==
  ASSUME [Next]_vars
  PROVE  \/ Bystander \/ InstallFirst \/ InstallNext \/ ReadPing \/ Teardown \/ Handler
         \/ Server \/ \E p \in Owners : WriteStart(p) \/ WriteBytes(p)
<1>1. CASE StreamNext
  BY <1>1 DEF Bystander
<1>2. CASE RestoreStep
  BY <1>2, RouterNames DEF RestoreStep, Bystander, OwnerStep
<1>3. CASE \E p \in Writers : SubscribeCall(p) \/ SubscribeStep(p)
  BY <1>3, RouterNames DEF SubscribeStep, Bystander, OwnerStep
<1>4. CASE Handler \/ DrainFrame \/ Server \/ UNCHANGED vars
  BY <1>4 DEF Bystander
<1> QED
  BY <1>1, <1>2, <1>3, <1>4 DEF Next

\* Every step keeps client and honest server in turn.
LEMMA StepTurn ==
  ASSUME RouterInv, TurnInv, [Next]_vars, "fault" \notin Disturbances
  PROVE  TurnInv'
<1> USE Names, StreamFacts, RouterNames DEF RouterInv, IndInv
<1>1. CASE InstallFirst \/ InstallNext
  BY <1>1, InstallTurn
<1>2. CASE \E p \in Owners : WriteStart(p) \/ WriteBytes(p)
  BY <1>2, BeginTurn, BytesTurn
<1>3. CASE Handler
  BY <1>3, AnswerTurn, OtherTurn DEF Handler
<1>4. CASE Server
  BY <1>4, ServerTurn
<1>5. CASE Teardown
  <2>1. Away'
    BY <1>5 DEF Teardown, Goto, Away, Leaving, GoroutineTypes
  <2> QED
    BY <2>1 DEF TurnInv, Serving
<1>6. CASE ReadPing
  <2>1. /\ UNCHANGED << c, loc, outbox, peer >> /\ inbox # << >> /\ inbox' = Tail(inbox)
        /\ ~ Answer(Head(inbox)) /\ pc[Run] = "read" /\ pc' = [pc EXCEPT ![Run] = "wgate"]
    BY <1>6 DEF ReadPing, Answer, Goto
  <2>2. NoNewRequest
    BY <2>1 DEF NoNewRequest, GoroutineTypes
  <2>3. Serving' => Serving
    BY <2>1, HandlerServing DEF Serving
  <2> QED
    BY <2>1, <2>2, <2>3, TurnReads DEF SameTurn
<1>7. CASE Bystander /\ ~ InstallFirst /\ ~ InstallNext
  <2>1. /\ UNCHANGED network /\ NoNewRequest
        /\ c'.current # NoSession => SameTurn(c, c')
    BY <1>7, BystanderStep
  <2>2. Serving' => Serving
    BY <1>7, <2>1, EntersByInstall DEF Serving, SameTurn
  <2> QED
    BY <2>1, <2>2, TurnStays
<1> QED
  BY <1>1, <1>2, <1>3, <1>4, <1>5, <1>6, <1>7, OtherSteps

\* A frame or an acknowledgement that an honest server sent is handled in the
\* turn of the request for which it was sent.
LEMMA HandlerAnswers ==
  ASSUME IndInv, TurnInv, AckAnswersRequest, FramesAnswerRequest, Handler
  PROVE  AckAnswersRequest' /\ FramesAnswerRequest'
<1> USE Names, StreamFacts, RouterNames DEF IndInv
<1> DEFINE m == Head(inbox)
           s == loc[Run].s
<1>0. /\ pc[Run] = "read" /\ inbox # << >> /\ inbox \in Seq(Messages) /\ s \in Sessions
      /\ m.results \in Seq(BOOLEAN) /\ m.revision \in Nat
      /\ m.key \in Keys \union {NoPair} /\ inbox[1] = m /\ 1 \in DOMAIN inbox
  BY HandlerInput
<1>1. ~ Stale(c, s) => NetTurn(c, inbox, outbox, peer)
  BY <1>0, HandlerServing DEF TurnInv
<1>2. c' \in ClientState /\ c.reply \in [Owners -> Replies] /\ c.frames \in Seq(FrameUpdates)
  BY HandlerProgress DEF Progress, ClientState
<1>3. ASSUME c'.frames = c.frames \/ c'.frames = << >> PROVE FramesAnswerRequest'
  BY <1>3 DEF FramesAnswerRequest
<1>4. ASSUME c'.reply = c.reply PROVE AckAnswersRequest'
  BY <1>4 DEF AckAnswersRequest
<1>5. CASE c' = c
  BY <1>3, <1>4, <1>5
<1>6. CASE HandleAck
  <2>1. c' = Ack(c, s, m.results, m.revision) /\ m.kind = "ack"
    BY <1>6 DEF HandleAck, Receive
  <2>2. ~ AckFails(c, s, m.results)
    BY <1>0, <2>1, AnswerFits
  <2> HIDE DEF s
  <2>3. CASE Stale(c, s)
    BY <1>5, <2>1, <2>3 DEF Ack
  <2>4. CASE ~ Stale(c, s)
    <3>1. m.revision = c.revision /\ c.pending # NoPending
      BY <1>0, <1>1, <2>1, <2>4, TurnAnswered DEF Answer
    <3>2. c.pending.revision = c.revision
      BY <3>1 DEF Consistent, SubscriptionAgrees
    <3> HIDE DEF m
    <3>3. \A o \in Owners :
            \/ c'.reply[o] = c.reply[o]
            \/ c'.reply[o].err # NoErr
            \/ c'.reply[o].answers = m.revision /\ c'.reply[o].revision = c.pending.revision
      BY <1>0, <2>1, AckKept
    <3>4. c'.frames = c.frames \/ c'.frames = << >>
      BY <1>0, <2>1, <2>2, <2>4, AckEnds
    <3>5. AckAnswersRequest'
      BY <3>1, <3>2, <3>3 DEF AckAnswersRequest
    <3> QED
      BY <1>3, <3>4, <3>5
  <2> QED
    BY <2>3, <2>4
<1>7. CASE HandleTooLarge
  <2>1. c' = TooLarge(c, s) /\ m.kind = "too_large"
    BY <1>7 DEF HandleTooLarge, Receive
  <2>2. ~ TooLargeFails(c, s)
    BY <1>0, <2>1, AnswerFits
  <2> HIDE DEF s, m
  <2>3. CASE Stale(c, s)
    BY <1>5, <2>1, <2>3 DEF TooLarge
  <2>4. CASE ~ Stale(c, s)
    <3>1. \A o \in Owners : c'.reply[o] = c.reply[o] \/ c'.reply[o].err # NoErr
      BY <2>1, TooLargeKept
    <3>2. c'.frames = c.frames \/ c'.frames = << >>
      BY <2>1, <2>2, <2>4, TooLargeEnds
    <3>3. AckAnswersRequest'
      BY <3>1 DEF AckAnswersRequest
    <3> QED
      BY <1>3, <3>2, <3>3
  <2> QED
    BY <2>3, <2>4
<1>8. CASE HandleServerError
  BY <1>3, <1>4, <1>8, ServerErrorCalm DEF HandleServerError, Calm, Aside
<1>9. CASE HandleFrame
  <2>1. c' = Update(c, s, m.key, m.revision) /\ m.kind = "frame"
    BY <1>9 DEF HandleFrame, Receive
  <2> DEFINE u == [ key |-> m.key, generation |-> c.sgen[s],
                    revision |-> c.revision, source |-> m.revision ]
  <2>2. u.source = m.revision /\ u.revision = c.revision
    OBVIOUS
  <2>3. \/ Calm(c, c')
        \/ c.ready /\ c.current = s /\ c' = [c EXCEPT !.frames = Append(c.frames, u)]
    <3> HIDE DEF m, s
    <3> QED
      BY <1>0, <2>1, UpdateCalm
  <2> HIDE DEF u
  <2>4. CASE Calm(c, c')
    BY <1>3, <1>4, <2>4 DEF Calm, Aside
  <2>5. CASE c.ready /\ c.current = s /\ c' = [c EXCEPT !.frames = Append(c.frames, u)]
    <3>1. ~ Stale(c, s)
      BY <2>5 DEF Stale, Consistent, SubscriptionAgrees
    <3>2. m.revision = c.revision
      BY <1>0, <1>1, <2>1, <2>5, <3>1 DEF NetTurn
    <3>3. c'.reply = c.reply /\ c'.frames = Append(c.frames, u)
      BY <2>5 DEF ClientState
    <3>4. \A i \in DOMAIN c'.frames :
            (i \in DOMAIN c.frames /\ c'.frames[i] = c.frames[i]) \/ c'.frames[i] = u
      BY <1>2, <3>3
    <3>5. FramesAnswerRequest'
      BY <2>2, <3>2, <3>4 DEF FramesAnswerRequest
    <3> QED
      BY <1>4, <3>3, <3>5
  <2> QED
    BY <2>3, <2>4, <2>5
<1> QED
  BY <1>6, <1>7, <1>8, <1>9 DEF Handler

\* Nothing but a handler brings a reply or a frame.
LEMMA StepAnswers ==
  ASSUME RouterInv, TurnInv, AckAnswersRequest, FramesAnswerRequest, [Next]_vars
  PROVE  AckAnswersRequest' /\ FramesAnswerRequest'
<1> USE Names, StreamFacts, RouterNames DEF RouterInv, IndInv
<1>0. c.reply \in [Owners -> Replies] /\ c.frames \in Seq(FrameUpdates)
  BY DEF ClientState
<1>1. ASSUME FewerReplies(c, c') PROVE AckAnswersRequest'
  BY <1>1 DEF AckAnswersRequest, FewerReplies, NoReply
<1>2. ASSUME FewerFrames(c, c') PROVE FramesAnswerRequest'
  <2>1. CASE c'.frames \in {c.frames, << >>}
    BY <2>1 DEF FramesAnswerRequest
  <2>2. CASE c.frames # << >> /\ c'.frames = Tail(c.frames)
    <3>1. \A i \in DOMAIN c'.frames :
            i + 1 \in DOMAIN c.frames /\ c'.frames[i] = c.frames[i + 1]
      BY <1>0, <2>2
    <3> QED
      BY <3>1 DEF FramesAnswerRequest
  <2> QED
    BY <1>2, <2>1, <2>2 DEF FewerFrames
<1>3. CASE Handler
  BY <1>3, HandlerAnswers
<1>4. CASE Bystander
  BY <1>1, <1>2, <1>4, BystanderStep
<1>5. CASE InstallFirst \/ InstallNext
  BY <1>1, <1>2, <1>5, InstallStep, InstallBare DEF Aside, FewerReplies, FewerFrames
<1>6. CASE Teardown
  <2>1. ~ Handover
    BY <1>6 DEF Teardown, Handover, DialFirst, DialNext, TakeSubscribeGate, InstallFirst,
                InstallNext
  <2>2. Calm(c, c')
    BY <1>6, <2>1, StreamCalm DEF StreamNext, RunStep
  <2> QED
    BY <1>1, <1>2, <2>2 DEF Calm, Aside, FewerReplies, FewerFrames
<1>7. ASSUME NEW p \in Owners, WriteStart(p)
      PROVE  AckAnswersRequest' /\ FramesAnswerRequest'
  BY <1>0, <1>1, <1>2, <1>7, StartFacts DEF FewerReplies, FewerFrames
<1>8. CASE ReadPing \/ Server \/ \E p \in Owners : WriteBytes(p)
  <2>1. UNCHANGED c
    BY <1>8
    DEF ReadPing, WriteBytes, Server, ServerAck, ServerTooLarge, ServerFrame,
        ServerReport, ServerFault, Send
  <2> QED
    BY <2>1, <1>1, <1>2 DEF FewerReplies, FewerFrames
<1> QED
  BY <1>3, <1>4, <1>5, <1>6, <1>7, <1>8, OtherSteps

\* restore has not written the saved request yet, or it is about to give the
\* session up.
RestoreBusy ==
  \/ pc[Restore] \in {"load", "wgate"}
  \/ pc[Restore] \in {"written", "settle"} /\ loc[Restore].err # NoErr

\* The saved request is acknowledged, in flight or refused, or restore sees to it.
SavedInv ==
  c.current # NoSession /\ ~ SessionDone(c, c.current) /\ c.saved # NoRequest =>
    c.ready \/ c.pending # NoPending \/ peer.refused = c.revision \/ RestoreBusy

\* restore goes on until the request is written, or gives the session up.
LEMMA BusyStays ==
  ASSUME RouterInv, Bystander, RestoreBusy, c'.current # NoSession, c.saved # NoRequest
  PROVE  RestoreBusy'
<1> USE Names, StreamFacts, RouterNames, ErrorNames DEF RouterInv, IndInv
<1>0. /\ pc \in [Procs -> Labels] /\ loc \in [Procs -> Locals] /\ loc[Restore] \in Locals
      /\ Restore \in Procs \ Waiters
  BY ProcsAssumption DEF GoroutineTypes
<1>1. CASE pc'[Restore] = pc[Restore] /\ loc'[Restore] = loc[Restore]
  BY <1>1 DEF RestoreBusy
<1>2. c.current = dialed /\ c.current \in Sessions /\ c.current # NoSession
  <2>1. c.current # NoSession
    BY BystanderStep DEF SameTurn
  <2> QED
    BY <2>1 DEF RunOwnsSession, LifeInv, ClientState
<1>3. CASE StreamNext /\ ~ InstallFirst /\ ~ InstallNext
  <2>1. CASE ~ Handover
    BY <1>1, <1>3, <2>1, StreamMoves
  <2>2. CASE DialFirst \/ DialNext \/ TakeSubscribeGate
    BY <1>0, <1>1, <2>2 DEF DialFirst, DialNext, Dialed, TakeSubscribeGate, Goto
  <2> QED
    BY <1>3, <2>1, <2>2 DEF Handover
<1>4. ASSUME NEW p \in Writers,
             \/ SubscribeCall(p) \/ SubscribeGateTimeout(p) \/ SubscribeGateStopped(p)
             \/ SubscribeEnter(p) \/ SendSubscription(p)
      PROVE  RestoreBusy'
  BY <1>0, <1>1, <1>4
  DEF SubscribeCall, SubscribeGateTimeout, SubscribeGateStopped, SubscribeEnter, Return,
      SendSubscription, SubscriptionWritten, AwaitReply, AwaitTimeout, AwaitExpired,
      AwaitDisconnected, Conclude, Goto
<1>5. CASE RestoreLoad
  BY <1>0, <1>5 DEF RestoreLoad, RestoreBusy, Goto
<1>6. CASE RestoreSettle
  <2>1. /\ loc[Restore].err # NoErr /\ loc[Restore].err \in Errors
        /\ loc[Restore].s = c.current
    BY <1>0, <1>2, <1>6 DEF RestoreSettle, RestoreBusy, SequencerInv, Locals
  <2>2. \/ c' = StopLocked(c, "server")
        \/ c' = Discard(c, c.current, loc[Restore].err)
    BY <1>6, <2>1 DEF RestoreSettle
  <2>3. CASE c' = StopLocked(c, "server")
    <3>1. ~ c.stopped
      BY <1>2
    <3>2. Plain(c) /\ "server" \in Errors
      BY DEF Plain, Errors
    <3>3. Halted(c, c', "server")
      BY <2>3, <3>1, <3>2, StopFacts
    <3> QED
      BY <3>3 DEF Halted
  <2>4. CASE c' = Discard(c, c.current, loc[Restore].err)
    <3> DEFINE e == loc[Restore].err
    <3>1. c' = Discard(c, c.current, e) /\ e \in Errors
      BY <2>1, <2>4
    <3> HIDE DEF e
    <3>2. Lost(c, c') \/ Halted(c, c', "event_full")
      BY <1>2, <3>1, DiscardFacts
    <3> QED
      BY <3>2 DEF Lost, Halted
  <2> QED
    BY <2>2, <2>3, <2>4
<1>7. CASE RestoreFinish
  BY <1>7 DEF RestoreFinish, RestoreBusy
<1>8. CASE SendSubscription(Restore)
  <2>1. pc[Restore] = "written" /\ loc[Restore].err # NoErr /\ SubscriptionWritten(Restore)
    BY <1>8
    DEF RestoreBusy, SendSubscription, SubscriptionWritten, AwaitReply, AwaitTimeout,
        AwaitExpired, AwaitDisconnected
  <2>2. Conclude(Restore, loc[Restore].err)
    BY <2>1 DEF SubscriptionWritten
  <2>3. pc'[Restore] = "settle" /\ loc'[Restore].err = loc[Restore].err
    BY <1>0, <2>2 DEF Conclude, Goto, Locals
  <2> QED
    BY <2>1, <2>3 DEF RestoreBusy
<1>9. ASSUME NEW p \in Owners, Write(p), ~ WriteStart(p), ~ WriteBytes(p)
      PROVE  RestoreBusy'
  <2>1. CASE p # Restore
    <3>1. p \in Procs \ Waiters
      BY ProcsAssumption
    <3>2. pc' = [pc EXCEPT ![p] = pc'[p]] /\ loc' = [loc EXCEPT ![p] = loc'[p]]
      BY <1>9, <3>1, WriteMoves
    <3> QED
      BY <1>0, <1>1, <2>1, <3>2
  <2>2. CASE p = Restore
    <3>1. \/ WriteQueueTimeout(Restore) \/ WriteQueueDisconnected(Restore)
          \/ WriteTooLate(Restore)
      BY <1>9, <2>2 DEF Write, WriteOk, WriteFail, RestoreBusy
    <3>2. WriteRefused(Restore, "transient")
      BY <3>1 DEF WriteQueueTimeout, WriteQueueDisconnected, WriteTooLate
    <3>3. pc'[Restore] = "written" /\ loc'[Restore].err = "transient"
      BY <1>0, <3>2 DEF WriteRefused, Goto, Locals
    <3> QED
      BY <3>3 DEF RestoreBusy
  <2> QED
    BY <2>1, <2>2
<1>10. CASE DrainFrame \/ UNCHANGED vars
  BY <1>1, <1>10 DEF DrainFrame, vars
<1> QED
  BY <1>3, <1>4, <1>5, <1>6, <1>7, <1>8, <1>9, <1>10 DEF Bystander, OwnerStep

\* Every step leaves the saved request with somebody.
LEMMA StepSaved ==
  ASSUME RouterInv, TurnInv, SavedInv, [Next]_vars
  PROVE  SavedInv'
<1> USE Names, StreamFacts, RouterNames DEF RouterInv, IndInv
<1>0. /\ pc \in [Procs -> Labels] /\ loc \in [Procs -> Locals]
      /\ Kept(c, c') /\ c' \in ClientState
  BY StepLife, StepProgress DEF GoroutineTypes, Progress
<1>1. ASSUME c'.current = c.current PROVE SessionDone(c, c.current) => SessionDone(c', c'.current)
  BY <1>0, <1>1 DEF Kept, SessionDone
<1>2. CASE Bystander
  BY <1>1, <1>2, BystanderStep, BusyStays DEF SavedInv, SameTurn, network
<1>3. CASE InstallFirst
  <2>1. c'.saved = c.saved /\ c.saved = NoRequest
    BY <1>3, InstallStep DEF Aside, InstallFirst, SequencerInv, Returned
  <2> QED
    BY <2>1 DEF SavedInv
<1>4. CASE InstallNext
  <2>1. c'.restoring /\ c.current = NoSession /\ loc[Run].s \in Sessions
    BY <1>4, InstallStep, InstallBare DEF Aside, InstallNext, SequencerInv, LocalsAgree
  <2>2. CASE Installed(c, loc[Run].s)
    <3>1. pc'[Restore] = "load"
      BY <1>0, <1>4, <2>1, <2>2 DEF InstallNext, StartSession
    <3> QED
      BY <3>1 DEF SavedInv, RestoreBusy
  <2>3. CASE ~ Installed(c, loc[Run].s)
    <3>1. c' = Install(c, loc[Run].s)
      BY <1>4 DEF InstallNext
    <3>2. Same(c, c') \/ Overrun(c, c')
      BY <2>1, <2>3, <3>1, InstallFacts
    <3>3. c'.current = NoSession
      BY <2>1, <3>2 DEF Same, Overrun
    <3> QED
      BY <3>3 DEF SavedInv
  <2> QED
    BY <2>2, <2>3
<1>5. CASE Teardown
  <2>1. LifeInv' /\ RunOwnsSession' /\ dialed' \in Nat
    <3>1. GoroutineTypes'
      BY StepProgress DEF Progress
    <3> QED
      BY <3>1, StepLife, StepProgress DEF Progress, GoroutineTypes
  <2>2. pc'[Run] \in Ended
    BY <1>0, <1>5 DEF Teardown, Goto, Ended, Leaving
  <2>3. c'.current # NoSession => c'.current = dialed' /\ c'.current \in Sessions
    BY <1>0, <2>1 DEF RunOwnsSession, LifeInv, ClientState
  <2>4. c'.current # NoSession => c'.current \in c'.cancelled
    BY <2>1, <2>2, <2>3 DEF LifeInv, Sessions
  <2> QED
    BY <2>4 DEF SavedInv, SessionDone
<1>6. CASE ReadPing
  BY <1>0, <1>6 DEF ReadPing, Goto, SavedInv, RestoreBusy, SessionDone
<1>7. ASSUME NEW p \in Owners, WriteStart(p) PROVE SavedInv'
  BY <1>7, StartFacts DEF SavedInv
<1>8. ASSUME NEW p \in Owners, WriteBytes(p) PROVE SavedInv'
  BY <1>0, <1>8 DEF WriteBytes, Goto, SavedInv, RestoreBusy, SessionDone
<1>9. CASE Server
  <2>1. UNCHANGED << c, pc, loc >> /\ Reading
    BY <1>9
    DEF Server, ServerAck, ServerTooLarge, ServerFrame, ServerReport, ServerFault, Send
  <2>2. CASE peer'.refused = peer.refused
    BY <2>1, <2>2 DEF SavedInv, RestoreBusy, SessionDone
  <2>3. CASE ServerTooLarge
    <3>1. outbox # << >>
      BY <2>3 DEF ServerTooLarge
    <3>2. c.current # NoSession => c.pending # NoPending
      BY <2>1, <3>1 DEF TurnInv, Serving, NetTurn, Reading, Away, Leaving, Between
    <3> QED
      BY <2>1, <3>2 DEF SavedInv
  <2>4. CASE ServerAck \/ ServerFrame \/ ServerReport \/ ServerFault
    <3>1. CASE ServerAck
      <4> DEFINE request == Head(outbox).payload
                 revision == Head(outbox).revision
      <4>1. PICK results \in [1 .. Len(request) -> BOOLEAN] :
              peer' = [peer EXCEPT
                !.revision = revision,
                !.filters = {request[i] : i \in {j \in DOMAIN request : results[j]}}]
        BY <3>1 DEF ServerAck
      <4> DEFINE new == {request[i] : i \in {j \in DOMAIN request : results[j]}}
      <4>2. peer' = [peer EXCEPT !.revision = revision, !.filters = new]
        BY <4>1
      <4> HIDE DEF new, revision, request
      <4>3. peer'.refused = peer.refused
        BY <4>2 DEF NetworkTypes
      <4> QED
        BY <2>2, <4>3
    <3>2. CASE ServerFrame \/ ServerReport \/ ServerFault
      <4>1. UNCHANGED peer
        BY <3>2 DEF ServerFrame, ServerReport, ServerFault
      <4> QED
        BY <2>2, <4>1
    <3> QED
      BY <2>4, <3>1, <3>2
  <2> QED
    BY <1>9, <2>3, <2>4 DEF Server
<1>10. CASE Handler
  <2> DEFINE m == Head(inbox)
             s == loc[Run].s
  <2>0. /\ pc[Run] = "read" /\ inbox # << >> /\ inbox \in Seq(Messages) /\ s \in Sessions
        /\ m.results \in Seq(BOOLEAN) /\ m.revision \in Nat /\ UNCHANGED peer
        /\ m.key \in Keys \union {NoPair} /\ pc'[Restore] = pc[Restore]
        /\ loc'[Restore] = loc[Restore] /\ c'.saved = c.saved
    BY <1>10, HandlerInput, HandlerKept
  <2>1. ASSUME c'.current # NoSession => SameTurn(c, c') PROVE SavedInv'
    BY <1>1, <2>0, <2>1 DEF SavedInv, SameTurn, RestoreBusy
  <2>2. CASE HandleAck
    <3>1. c' = Ack(c, s, m.results, m.revision) /\ m.kind = "ack"
      BY <2>2 DEF HandleAck, Receive
    <3>2. ~ AckFails(c, s, m.results)
      BY <2>0, <3>1, AnswerFits
    <3> HIDE DEF s, m
    <3>3. CASE Stale(c, s)
      BY <2>1, <3>1, <3>3 DEF Ack, SameTurn
    <3>4. CASE ~ Stale(c, s)
      BY <2>0, <3>1, <3>2, <3>4, AckEnds DEF SavedInv
    <3> QED
      BY <3>3, <3>4
  <2>3. CASE HandleTooLarge
    <3>1. c' = TooLarge(c, s) /\ m.kind = "too_large"
      BY <2>3 DEF HandleTooLarge, Receive
    <3>2. ~ TooLargeFails(c, s)
      BY <2>0, <3>1, AnswerFits
    <3>3. ~ Stale(c, s) => peer.refused = c.revision
      <4>1. ~ Stale(c, s) => NetTurn(c, inbox, outbox, peer)
        BY <2>0, HandlerServing DEF TurnInv
      <4>2. Answer(m)
        BY <3>1 DEF Answer
      <4>3. ASSUME ~ Stale(c, s) PROVE peer.refused = c.revision
        BY ONLY <2>0, <3>1, <4>1, <4>2, <4>3, TurnAnswered
      <4> QED
        BY <4>3
    <3> HIDE DEF s, m
    <3>4. CASE Stale(c, s)
      BY <2>1, <3>1, <3>4 DEF TooLarge, SameTurn
    <3>5. CASE ~ Stale(c, s)
      BY <2>0, <3>1, <3>2, <3>3, <3>5, TooLargeEnds DEF SavedInv
    <3> QED
      BY <3>4, <3>5
  <2>4. CASE HandleServerError
    BY <2>1, <2>4, ServerErrorCalm DEF HandleServerError, Calm, SameTurn
  <2>5. CASE HandleFrame
    <3>1. c' = Update(c, s, m.key, m.revision)
      BY <2>5 DEF HandleFrame
    <3> DEFINE q == Append(c.frames, [ key |-> m.key, generation |-> c.sgen[s],
                                       revision |-> c.revision, source |-> m.revision ])
    <3> HIDE DEF m, s
    <3>2. Calm(c, c') \/ c' = [c EXCEPT !.frames = q]
      BY <2>0, <3>1, UpdateCalm
    <3> HIDE DEF q
    <3>3. c'.current # NoSession => SameTurn(c, c')
      BY <3>2 DEF Calm, SameTurn, ClientState
    <3> QED
      BY <2>1, <3>3
  <2> QED
    BY <1>10, <2>2, <2>3, <2>4, <2>5 DEF Handler
<1> QED
  BY <1>2, <1>3, <1>4, <1>5, <1>6, <1>7, <1>8, <1>9, <1>10, OtherSteps

-----------------------------------------------------------------------------
(* What holds with an honest server *)

HonestInv ==
  /\ RouterInv /\ TurnInv /\ SavedInv
  /\ AckAnswersRequest /\ FramesAnswerRequest

\* Nothing is served in a new client, and no reply and no frame is there.
LEMMA InitHonestInv == Init => HonestInv
<1> SUFFICES ASSUME Init PROVE HonestInv
  OBVIOUS
<1>1. RouterInv
  BY InitRouterInv
<1>2. c = NewClient
  BY DEF Init, StreamInit
<1>3. /\ c.current = NoSession /\ c.frames = << >>
      /\ c.reply = [o \in Owners |-> NoReply]
  BY <1>2 DEF NewClient
<1>4. AckAnswersRequest /\ FramesAnswerRequest
  BY <1>3 DEF AckAnswersRequest, FramesAnswerRequest, NoReply
<1> QED
  BY <1>1, <1>3, <1>4 DEF HonestInv, TurnInv, Serving, SavedInv

\* Every step preserves HonestInv.
LEMMA StepHonestInv ==
  ASSUME "fault" \notin Disturbances
  PROVE  HonestInv /\ [Next]_vars => HonestInv'
BY StepRouterInv, StepTurn, StepSaved, StepAnswers DEF HonestInv

\* HonestInv holds in every reachable state when the server is honest.
THEOREM HonestInvariance ==
  ASSUME "fault" \notin Disturbances
  PROVE  Spec => []HonestInv
BY InitHonestInv, StepHonestInv, PTL DEF Spec

\* A successful Subscribe was answered for its own request, over any number of
\* timeouts, late acknowledgements and reconnects.
THEOREM OwnAnswer ==
  ASSUME "fault" \notin Disturbances
  PROVE  Spec => []AckAnswersRequest
<1>1. HonestInv => AckAnswersRequest
  BY DEF HonestInv
<1> QED
  BY <1>1, HonestInvariance, PTL

\* A queued frame was sent for the acknowledged request.
THEOREM OwnFrames ==
  ASSUME "fault" \notin Disturbances
  PROVE  Spec => []FramesAnswerRequest
<1>1. HonestInv => FramesAnswerRequest
  BY DEF HonestInv
<1> QED
  BY <1>1, HonestInvariance, PTL

\* No answer of an honest server is taken for a violation of the protocol.
THEOREM NotAccused ==
  ASSUME "fault" \notin Disturbances
  PROVE  Spec => []HonestServerNotAccused
<1>1. HonestInv => HonestServerNotAccused
  BY AnswerFits DEF HonestInv, RouterInv, HonestServerNotAccused
<1> QED
  BY <1>1, HonestInvariance, PTL

\* A connected client that is not restoring has its saved request acknowledged,
\* in flight, or refused.
THEOREM NotSilent ==
  ASSUME "fault" \notin Disturbances
  PROVE  Spec => []NotSilentlyUnsubscribed
<1>1. HonestInv => NotSilentlyUnsubscribed
  <2> SUFFICES ASSUME HonestInv, c.phase = "connected", ~ c.restoring,
                      c.saved # NoRequest, ~ SessionDone(c, c.current)
               PROVE  c.ready \/ c.pending # NoPending \/ peer.refused = c.revision
    BY DEF NotSilentlyUnsubscribed
  <2>1. c.current # NoSession
    BY StreamFacts DEF HonestInv, RouterInv, IndInv, Consistent, StatusAgrees
  <2>2. ~ RestoreBusy
    BY DEF HonestInv, RouterInv, SequencerInv, RestoreBusy
  <2> QED
    BY <2>1, <2>2 DEF HonestInv, SavedInv
<1> QED
  BY <1>1, HonestInvariance, PTL

=============================================================================
