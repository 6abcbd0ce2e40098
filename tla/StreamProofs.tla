---------------------------- MODULE StreamProofs ----------------------------
(***************************************************************************)
(* Theorems about what Maker and Router share.                             *)
(*                                                                         *)
(* The first part says what each critical section does to the record that  *)
(* client.mu protects, once per operator of Client, for every record and   *)
(* every value of the constants.  The proofs of the state machines never   *)
(* expand an operator of Client: they use the relations below, which say   *)
(* how the fields that matter change.  The lemma of an operator says which *)
(* relation its result is in.                                              *)
(*                                                                         *)
(* The second part shows that every action of Stream is such a step of the *)
(* record and preserves what both clients rely on: StreamInv.              *)
(*                                                                         *)
(* The third part follows the sessions.  LifeInv is the account that run   *)
(* keeps of them, GateInv that of the tokens of writeGate.                 *)
(***************************************************************************)
EXTENDS Stream, TLAPS


\* Nothing that the application can see changes.
Same(x, y) ==
  /\ y.phase = x.phase /\ y.generation = x.generation
  /\ y.revision = x.revision /\ y.stopped = x.stopped /\ y.err = x.err
  /\ y.current = x.current /\ y.sgen = x.sgen /\ y.ready = x.ready
  /\ y.accepted = x.accepted /\ y.pending = x.pending /\ y.frames = x.frames

\* The subscription ends; everything else is the same.
Cleared(x, y) ==
  /\ y.phase = x.phase /\ y.generation = x.generation
  /\ y.revision = x.revision /\ y.stopped = x.stopped /\ y.err = x.err
  /\ y.current = x.current /\ y.sgen = x.sgen /\ y.ready = FALSE
  /\ y.accepted = {} /\ y.pending = NoPending /\ y.frames = << >>

\* The client stops with cause err.
Halted(x, y, err) ==
  /\ y.phase = "stopped" /\ y.generation = x.generation
  /\ y.revision = x.revision /\ y.stopped = TRUE /\ y.err = err
  /\ y.current = NoSession /\ y.ready = FALSE
  /\ y.accepted = {} /\ y.pending = NoPending /\ y.frames = << >>

\* One event more is queued.
Told(x, y) == y.events = x.events + 1

\* A Maker keeps no subscription state: its record never leaves this condition,
\* and so the critical sections that skip clearLocked for a Maker lose nothing.
Plain(x) ==
  IsMaker => /\ ~ x.ready /\ x.accepted = {} /\ x.pending = NoPending
             /\ x.frames = << >>

\* The nil request is a value of the type of pending.
LEMMA NoPendingType == NoPending \in Pendings
BY DEF NoPending, Pendings

\* signalLocked wakes the waiters and changes nothing else.
LEMMA SignalFacts ==
  ASSUME NEW x \in ClientState
  PROVE  SignalLocked(x) \in ClientState /\ Same(x, SignalLocked(x))
BY DEF SignalLocked, Same, ClientState

\* clearLocked ends the subscription and keeps status and session.
LEMMA ClearFacts ==
  ASSUME NEW x \in ClientState
  PROVE  ClearLocked(x) \in ClientState /\ Cleared(x, ClearLocked(x))
<1>1. << >> \in Seq(FrameUpdates) /\ {} \in SUBSET Filters
  OBVIOUS
<1>2. ClearLocked(x) \in ClientState
  BY <1>1, NoPendingType DEF ClearLocked, ClientState
<1> QED
  BY <1>2 DEF ClearLocked, Cleared, ClientState

\* Closing a connection changes nothing that the application sees.
LEMMA CloseFacts ==
  ASSUME NEW x \in ClientState, NEW s \in Sessions \union {NoSession}
  PROVE  CloseSession(x, s) \in ClientState /\ Same(x, CloseSession(x, s))
BY DEF CloseSession, Same, ClientState, Sessions, NoSession

\* The first stopLocked stops the client, forgets its session and ends the
\* subscription.
LEMMA StopFacts ==
  ASSUME NEW x \in ClientState, NEW err \in Errors, Plain(x), ~ x.stopped
  PROVE  StopLocked(x, err) \in ClientState /\ Halted(x, StopLocked(x, err), err)
<1> DEFINE w == IF IsMaker THEN x ELSE ClearLocked(x)
           v == CloseSession(w, x.current)
           room == IF v.events < EventBufferSize THEN v.events + 1 ELSE v.events
           u == [v EXCEPT !.stopped = TRUE, !.err = err, !.phase = "stopped",
                          !.current = NoSession, !.ctxDone = TRUE,
                          !.events = room]
<1>1. StopLocked(x, err) = SignalLocked(u)
  BY DEF StopLocked
<1>2. w \in ClientState /\ Cleared(x, w)
  BY ClearFacts DEF Plain, Cleared, ClientState
<1>3. x.current \in Sessions \union {NoSession}
  BY DEF ClientState
<1> HIDE DEF w
<1>4. v \in ClientState /\ Same(w, v)
  BY <1>2, <1>3, CloseFacts
<1> HIDE DEF v
<1>5. room \in 0 .. EventBufferSize
  BY <1>4, BufferAssumption DEF ClientState
<1> HIDE DEF room
<1>6. u \in ClientState
  BY <1>4, <1>5 DEF ClientState, Phases
<1>7. Halted(x, u, err)
  BY <1>2, <1>4 DEF ClientState, Halted, Same, Cleared
<1> HIDE DEF u
<1> QED
  BY <1>1, <1>6, <1>7, SignalFacts DEF Same, Halted

\* A second stopLocked changes nothing: the first cause is kept.
LEMMA StopAgain ==
  ASSUME NEW x, NEW err, x.stopped
  PROVE  StopLocked(x, err) = x
BY DEF StopLocked

\* An event is queued, or its overflow stops the client.
LEMMA EmitFacts ==
  ASSUME NEW x \in ClientState, Plain(x)
  PROVE  /\ EmitLocked(x) \in ClientState
         /\ Same(x, EmitLocked(x))
              \/ (~ x.stopped /\ Halted(x, EmitLocked(x), "event_full"))
<1>1. CASE x.stopped
  BY <1>1 DEF EmitLocked, Same
<1>2. CASE ~ x.stopped /\ x.events < EventBufferSize
  <2>1. x.events + 1 \in 0 .. EventBufferSize
    BY <1>2, BufferAssumption DEF ClientState
  <2> QED
    BY <1>2, <2>1 DEF EmitLocked, Same, ClientState
<1>3. CASE ~ x.stopped /\ ~ (x.events < EventBufferSize)
  BY <1>3, StopFacts DEF EmitLocked, Errors, TerminalErrors
<1> QED
  BY <1>1, <1>2, <1>3

\* An event of a client that goes on is in the queue.
LEMMA EmitTold ==
  ASSUME NEW x \in ClientState, Plain(x), ~ x.stopped, ~ EmitLocked(x).stopped
  PROVE  Told(x, EmitLocked(x))
<1>1. CASE x.events < EventBufferSize
  BY <1>1 DEF EmitLocked, Told, ClientState
<1>2. CASE ~ (x.events < EventBufferSize)
  BY <1>2, StopFacts DEF EmitLocked, Halted, Errors, TerminalErrors
<1> QED
  BY <1>1, <1>2

\* What happens besides an announcement leaves the events alone.
LEMMA EventsKept ==
  ASSUME NEW x \in ClientState, NEW s, NEW o, NEW v
  PROVE  /\ SignalLocked(x).events = x.events
         /\ ClearLocked(x).events = x.events
         /\ CloseSession(x, s).events = x.events
         /\ SetFailure(x, s, v).events = x.events
         /\ [x EXCEPT !.reply[o] = v].events = x.events
BY DEF SignalLocked, ClearLocked, CloseSession, SetFailure, ClientState

-----------------------------------------------------------------------------
(* install and discard *)

\* Session s becomes the current one.
Connected(x, y, s) ==
  /\ y.phase = "connected" /\ y.generation = x.generation + 1
  /\ y.revision = x.revision /\ y.stopped = x.stopped /\ y.err = x.err
  /\ y.current = s /\ y.sgen[s] = y.generation /\ y.ready = x.ready
  /\ y.accepted = x.accepted /\ y.pending = x.pending /\ y.frames = x.frames

\* The announcement of the new session stops the client.
Overrun(x, y) ==
  /\ y.phase = "stopped" /\ y.generation = x.generation + 1
  /\ y.revision = x.revision /\ y.stopped = TRUE
  /\ y.current = NoSession /\ y.ready = FALSE
  /\ y.accepted = {} /\ y.pending = NoPending /\ y.frames = << >>

\* The current session is lost, and with it the subscription.
Lost(x, y) ==
  /\ y.phase = "reconnecting" /\ y.generation = x.generation
  /\ y.revision = x.revision /\ y.stopped = x.stopped /\ y.err = x.err
  /\ y.current = NoSession /\ y.sgen = x.sgen /\ y.ready = FALSE
  /\ y.accepted = {} /\ y.pending = NoPending /\ y.frames = << >>

\* Recording the cause of a session's end changes nothing visible.
LEMMA SetFailureFacts ==
  ASSUME NEW x \in ClientState, NEW s \in Sessions, NEW err \in Errors
  PROVE  /\ SetFailure(x, s, err) \in ClientState
         /\ Same(x, SetFailure(x, s, err))
BY DEF SetFailure, Same, ClientState

\* install makes the session current, or leaves the client alone, or stops it
\* because the announcement overflows the event channel.
LEMMA InstallFacts ==
  ASSUME NEW x \in ClientState, NEW s \in Sessions, Plain(x)
  PROVE  /\ Install(x, s) \in ClientState
         /\ Installed(x, s) => /\ ~ x.stopped /\ Connected(x, Install(x, s), s)
                               /\ Told(x, Install(x, s))
         /\ ~ Installed(x, s) => \/ Same(x, Install(x, s))
                                 \/ ~ x.stopped /\ Overrun(x, Install(x, s))
<1> DEFINE w == [x EXCEPT !.generation = @ + 1, !.sgen[s] = x.generation + 1,
                          !.current = s, !.phase = "connected"]
           v == SignalLocked(w)
<1>1. CASE x.stopped \/ x.ctxDone
  BY <1>1, CloseFacts DEF Install, Installed
<1>2. CASE ~ (x.stopped \/ x.ctxDone)
  <2>1. Install(x, s) = EmitLocked(v)
    BY <1>2 DEF Install
  <2>2. w \in ClientState /\ Connected(x, w, s)
    <3>1. x.generation + 1 \in Nat
      BY DEF ClientState
    <3>2. [x.sgen EXCEPT ![s] = x.generation + 1] \in [Sessions -> Nat]
      BY <3>1 DEF ClientState
    <3>3. w.sgen = [x.sgen EXCEPT ![s] = x.generation + 1]
      BY DEF ClientState
    <3>4. w \in ClientState
      BY <3>1, <3>2 DEF ClientState, Phases
    <3> QED
      BY <3>3, <3>4 DEF ClientState, Connected
  <2>e. w.events = x.events
    BY DEF ClientState
  <2> HIDE DEF w
  <2>3. v \in ClientState /\ Same(w, v)
    BY <2>2, SignalFacts
  <2>f. v.events = x.events
    BY <2>2, <2>e, EventsKept
  <2>4. Connected(x, v, s)
    BY <2>2, <2>3 DEF Connected, Same
  <2> HIDE DEF v
  <2>5. ~ v.stopped /\ Plain(v)
    BY <1>2, <2>4 DEF Connected, Plain
  <2>6. CASE Same(v, EmitLocked(v))
    <3>1. Installed(x, s)
      BY <1>2, <2>1, <2>5, <2>6 DEF Installed, Same
    <3>2. Told(x, Install(x, s))
      BY <2>1, <2>3, <2>5, <2>6, <2>f, EmitTold DEF Same, Told
    <3> QED
      BY <1>2, <2>1, <2>3, <2>4, <2>5, <2>6, <3>1, <3>2, EmitFacts DEF Same, Connected
  <2>7. CASE Halted(v, EmitLocked(v), "event_full")
    <3>1. ~ Installed(x, s)
      BY <2>1, <2>7 DEF Installed, Halted
    <3> QED
      BY <1>2, <2>1, <2>3, <2>4, <2>5, <2>7, <3>1, EmitFacts
      DEF Connected, Halted, Overrun
  <2> QED
    BY <2>3, <2>5, <2>6, <2>7, EmitFacts
<1> QED
  BY <1>1, <1>2

\* discard of a session that is not current changes nothing visible; discard of
\* the current one loses it.
LEMMA DiscardFacts ==
  ASSUME NEW x \in ClientState, NEW s \in Sessions, NEW err \in Errors, Plain(x),
         x.stopped => x.current = NoSession
  PROVE  /\ Discard(x, s, err) \in ClientState
         /\ \/ x.current # s /\ Same(x, Discard(x, s, err))
            \/ /\ x.current = s /\ ~ x.stopped
               /\ \/ Lost(x, Discard(x, s, err)) /\ Told(x, Discard(x, s, err))
                  \/ Halted(x, Discard(x, s, err), "event_full")
<1> DEFINE f == SetFailure(x, s, err)
           w == IF IsMaker THEN f ELSE ClearLocked(f)
           v == [w EXCEPT !.current = NoSession, !.phase = "reconnecting"]
           u == SignalLocked(v)
           t == EmitLocked(u)
<1>0. s # NoSession /\ s \in Sessions \union {NoSession}
  BY MaxSessionsAssumption DEF Sessions, NoSession
<1>1. f \in ClientState /\ Same(x, f)
  BY SetFailureFacts
<1>e. f.events = x.events
  BY EventsKept
<1>2. CASE x.current # s
  <2>1. Discard(x, s, err) = CloseSession(f, s)
    BY <1>2 DEF Discard
  <2> HIDE DEF f
  <2> QED
    BY <1>0, <1>1, <1>2, <2>1, CloseFacts DEF Same
<1>3. CASE x.current = s
  <2>0. ~ x.stopped
    BY <1>0, <1>3
  <2>1. Discard(x, s, err) = CloseSession(t, s)
    BY <1>3, <2>0 DEF Discard
  <2> HIDE DEF f
  <2>2. w \in ClientState /\ Cleared(f, w)
    BY <1>1, ClearFacts DEF Plain, Same, Cleared, ClientState
  <2>e. w.events = x.events
    BY <1>1, <1>e, EventsKept
  <2> HIDE DEF w
  <2>3. v \in ClientState /\ Lost(x, v)
    BY <1>1, <2>2 DEF ClientState, Phases, Cleared, Same, Lost
  <2>f. v.events = x.events
    BY <2>2, <2>e DEF ClientState
  <2> HIDE DEF v
  <2>4. u \in ClientState /\ Lost(x, u)
    BY <2>3, SignalFacts DEF Lost, Same
  <2>g. u.events = x.events
    BY <2>3, <2>f, EventsKept
  <2> HIDE DEF u
  <2>5. t \in ClientState /\ (Lost(x, t) \/ Halted(x, t, "event_full"))
    BY <2>4, EmitFacts DEF Lost, Same, Halted, Plain
  <2>h. Lost(x, t) => Told(x, t)
    BY <2>0, <2>4, <2>g, EmitTold DEF Lost, Told, Plain
  <2> HIDE DEF t
  <2>6. CloseSession(t, s) \in ClientState /\ Same(t, CloseSession(t, s))
    BY <1>0, <2>5, CloseFacts
  <2>7. Told(x, t) => Told(x, CloseSession(t, s))
    BY <2>5, EventsKept DEF Told
  <2> QED
    BY <1>3, <2>0, <2>1, <2>5, <2>6, <2>7, <2>h DEF Same, Lost, Halted
<1> QED
  BY <1>2, <1>3

-----------------------------------------------------------------------------
(* the subscription *)

\* A new request is pending.
Begun(x, y, s, o) ==
  /\ y.phase = x.phase /\ y.generation = x.generation
  /\ y.revision = x.revision + 1 /\ y.stopped = x.stopped /\ y.err = x.err
  /\ y.current = x.current /\ y.sgen = x.sgen /\ y.ready = FALSE
  /\ y.accepted = {} /\ y.frames = << >> /\ y.pending # NoPending
  /\ y.pending.session = s /\ y.pending.revision = y.revision
  /\ y.pending.owner = o

\* The pending request is answered: ready tells how.
Answered(x, y, ready) ==
  /\ x.pending # NoPending /\ y.pending = NoPending
  /\ y.phase = x.phase /\ y.generation = x.generation
  /\ y.revision = x.revision /\ y.stopped = x.stopped /\ y.err = x.err
  /\ y.current = x.current /\ y.sgen = x.sgen
  /\ y.ready = ready /\ y.frames = x.frames

\* A frame of the current session joins the queue.
Delivered(x, y, s, u) ==
  /\ x.ready /\ x.current = s /\ Len(x.frames) < FrameBufferSize
  /\ u \in FrameUpdates /\ u.generation = x.sgen[s] /\ u.revision = x.revision
  /\ MatchesLocked(x, u.key)
  /\ y = [x EXCEPT !.frames = Append(x.frames, u)]

\* The before function of a subscription write replaces the pending request.
LEMMA BeginFacts ==
  ASSUME NEW x \in ClientState, NEW s \in Sessions, NEW o \in Owners,
         NEW request \in Requests
  PROVE  /\ BeginSubscription(x, s, o, request) \in ClientState
         /\ Begun(x, BeginSubscription(x, s, o, request), s, o)
<1> DEFINE w == ClearLocked(x)
           p == [ request |-> request, session |-> s,
                  revision |-> x.revision + 1, owner |-> o ]
           v == [w EXCEPT !.revision = @ + 1, !.saved = request,
                          !.reply[o] = NoReply, !.pending = p]
<1>1. BeginSubscription(x, s, o, request) = SignalLocked(v)
  BY DEF BeginSubscription
<1>2. w \in ClientState /\ Cleared(x, w)
  BY ClearFacts
<1> HIDE DEF w
<1>3. x.revision + 1 \in Nat /\ x.revision + 1 # 0
  BY DEF ClientState
<1>4. p \in Pendings /\ p # NoPending /\ p.session = s /\ p.owner = o
        /\ p.revision = x.revision + 1
  BY <1>3 DEF Pendings, NoPending
<1> HIDE DEF p
<1>5. [w.reply EXCEPT ![o] = NoReply] \in [Owners -> Replies]
  BY <1>2 DEF ClientState, NoReply, Replies, Errors
<1>6. v \in ClientState
  BY <1>2, <1>3, <1>4, <1>5 DEF ClientState, Cleared
<1>7. Begun(x, v, s, o)
  BY <1>2, <1>4 DEF ClientState, Cleared, Begun
<1> HIDE DEF v
<1> QED
  BY <1>1, <1>6, <1>7, SignalFacts DEF Same, Begun

\* A reply to a pending request may be put into its owner's channel.
LEMMA ReplyFacts ==
  ASSUME NEW x \in ClientState, NEW o, NEW r \in Replies
  PROVE  /\ [x EXCEPT !.reply[o] = r] \in ClientState
         /\ Same(x, [x EXCEPT !.reply[o] = r])
<1>1. [x.reply EXCEPT ![o] = r] \in [Owners -> Replies]
  BY DEF ClientState
<1> QED
  BY <1>1 DEF ClientState, Same

\* ack ignores or refuses the message, or answers the pending request.
LEMMA AckFacts ==
  ASSUME NEW x \in ClientState, NEW s \in Sessions, NEW results \in Seq(BOOLEAN),
         NEW answers \in Nat, ~ IsMaker
  PROVE  /\ Ack(x, s, results, answers) \in ClientState
         /\ \/ Same(x, Ack(x, s, results, answers))
            \/ /\ ~ x.stopped /\ Answered(x, Ack(x, s, results, answers), TRUE)
               /\ Told(x, Ack(x, s, results, answers))
            \/ ~ x.stopped /\ Halted(x, Ack(x, s, results, answers), "event_full")
<1>1. CASE Stale(x, s) \/ AckFails(x, s, results)
  BY <1>1 DEF Ack, Same
<1>2. CASE ~ (Stale(x, s) \/ AckFails(x, s, results))
  <2> DEFINE p == x.pending
             yes == {p.request[i] : i \in {j \in DOMAIN results : results[j]}}
             w == [x EXCEPT !.accepted = yes, !.ready = TRUE, !.pending = NoPending]
             v == EmitLocked(w)
             reply ==
               IF v.stopped
               THEN [NoReply EXCEPT !.full = TRUE, !.err = StoppedError(v)]
               ELSE [ full |-> TRUE, err |-> NoErr, revision |-> p.revision,
                      answers |-> answers ]
             u == [v EXCEPT !.reply[p.owner] = reply]
  <2>1. Ack(x, s, results, answers) = SignalLocked(u)
    BY <1>2 DEF Ack
  <2>2. /\ ~ x.stopped
        /\ x.pending # NoPending
        /\ Len(results) = Len(x.pending.request)
    BY <1>2 DEF Stale, AckFails
  <2>3. yes \in SUBSET Filters
    <3>0. x.pending \in Pendings
      BY DEF ClientState
    <3>1. x.pending.request \in Requests \union {NoRequest}
      BY <3>0 DEF Pendings
    <3>2. x.pending.request \in Seq(Filters)
      <4>1. NoRequest \in Seq(Filters)
        BY DEF NoRequest
      <4>2. Requests \subseteq Seq(Filters)
        BY RequestsAssumption
      <4> QED
        BY <3>1, <4>1, <4>2
    <3> QED
      BY <2>2, <3>2
  <2> HIDE DEF yes
  <2>4. w \in ClientState
    BY <2>3, NoPendingType DEF ClientState
  <2>5. Answered(x, w, TRUE)
    BY <2>2 DEF ClientState, Answered
  <2>e. w.events = x.events
    BY DEF ClientState
  <2> HIDE DEF w
  <2>6. v \in ClientState
    BY <2>4, EmitFacts DEF Plain
  <2>7. Answered(x, v, TRUE) \/ Halted(x, v, "event_full")
    <3>1. Same(w, v) \/ Halted(w, v, "event_full")
      BY <2>4, EmitFacts DEF Plain
    <3> HIDE DEF v
    <3>2. CASE Same(w, v)
      BY <2>5, <3>2 DEF Answered, Same
    <3>3. CASE Halted(w, v, "event_full")
      BY <2>5, <3>3 DEF Answered, Halted
    <3> QED
      BY <3>1, <3>2, <3>3
  <2>f. Answered(x, v, TRUE) => Told(x, v)
    BY <2>2, <2>4, <2>5, <2>e, EmitTold DEF Answered, Told, Plain
  <2> HIDE DEF v
  <2>8. reply \in Replies
    BY <2>6 DEF ClientState, Replies, NoReply, StoppedError, Errors,
                TransientErrors, Pendings
  <2> HIDE DEF reply
  <2>9. u \in ClientState /\ Same(v, u)
    BY <2>6, <2>8, ReplyFacts
  <2>g. u.events = v.events
    BY <2>6, EventsKept
  <2> HIDE DEF u
  <2>10. SignalLocked(u) \in ClientState /\ Same(u, SignalLocked(u))
    BY <2>9, SignalFacts
  <2>11. Told(x, v) => Told(x, SignalLocked(u))
    BY <2>9, <2>g, EventsKept DEF Told
  <2> QED
    BY <2>1, <2>2, <2>7, <2>9, <2>10, <2>11, <2>f DEF Same, Answered, Halted
<1> QED
  BY <1>1, <1>2

\* A refusal answers the pending request and leaves delivery paused.
LEMMA TooLargeFacts ==
  ASSUME NEW x \in ClientState, NEW s, ~ IsMaker, x.pending # NoPending => ~ x.ready
  PROVE  /\ TooLarge(x, s) \in ClientState
         /\ \/ Same(x, TooLarge(x, s))
            \/ /\ ~ x.stopped /\ Answered(x, TooLarge(x, s), FALSE)
               /\ Told(x, TooLarge(x, s))
            \/ ~ x.stopped /\ Halted(x, TooLarge(x, s), "event_full")
<1>1. CASE Stale(x, s) \/ TooLargeFails(x, s)
  BY <1>1 DEF TooLarge, Same
<1>2. CASE ~ (Stale(x, s) \/ TooLargeFails(x, s))
  <2> DEFINE o == x.pending.owner
             r == [NoReply EXCEPT !.full = TRUE, !.err = "server"]
             w == [x EXCEPT !.pending = NoPending]
             v == [w EXCEPT !.reply[o] = r]
  <2>1. TooLarge(x, s) = EmitLocked(v)
    BY <1>2 DEF TooLarge
  <2>2. ~ x.stopped /\ x.pending # NoPending
    BY <1>2 DEF Stale, TooLargeFails
  <2>3. w \in ClientState /\ Answered(x, w, FALSE)
    BY <2>2, NoPendingType DEF ClientState, Answered
  <2>e. w.events = x.events
    BY DEF ClientState
  <2>4. r \in Replies
    BY DEF Replies, NoReply, Errors, TransientErrors
  <2> HIDE DEF w, r, o
  <2>5. v \in ClientState /\ Answered(x, v, FALSE)
    <3>1. v \in ClientState /\ Same(w, v)
      BY <2>3, <2>4, ReplyFacts
    <3> HIDE DEF v
    <3> QED
      BY <2>3, <3>1 DEF Same, Answered
  <2>f. v.events = x.events
    BY <2>3, <2>e, EventsKept
  <2> HIDE DEF v
  <2>6. EmitLocked(v) \in ClientState
    BY <2>5, EmitFacts DEF Plain
  <2>7. Same(v, EmitLocked(v)) \/ Halted(v, EmitLocked(v), "event_full")
    BY <2>5, EmitFacts DEF Plain
  <2>8. CASE Same(v, EmitLocked(v))
    <3>1. Told(x, EmitLocked(v))
      BY <2>2, <2>5, <2>8, <2>f, EmitTold DEF Same, Answered, Told, Plain
    <3> QED
      BY <2>1, <2>2, <2>5, <2>6, <2>8, <3>1 DEF Same, Answered
  <2>9. CASE Halted(v, EmitLocked(v), "event_full")
    BY <2>1, <2>2, <2>5, <2>6, <2>9 DEF Answered, Halted
  <2> QED
    BY <2>7, <2>8, <2>9
<1> QED
  BY <1>1, <1>2

\* Any other server error is only announced.
LEMMA ServerErrorFacts ==
  ASSUME NEW x \in ClientState, NEW s, ~ IsMaker
  PROVE  /\ OtherServerError(x, s) \in ClientState
         /\ \/ Same(x, OtherServerError(x, s))
            \/ ~ x.stopped /\ Halted(x, OtherServerError(x, s), "event_full")
BY EmitFacts DEF OtherServerError, Same, Plain

\* update drops the frame, stops the client, or queues one frame of the present
\* subscription.
LEMMA UpdateFacts ==
  ASSUME NEW x \in ClientState, NEW s \in Sessions, NEW key \in Keys \union {NoPair},
         NEW source \in Nat, ~ IsMaker
  PROVE  /\ Update(x, s, key, source) \in ClientState
         /\ \/ Same(x, Update(x, s, key, source))
            \/ ~ x.stopped /\ Halted(x, Update(x, s, key, source), "frame_full")
            \/ \E u : Delivered(x, Update(x, s, key, source), s, u)
<1>1. CASE Dropped(x, s) \/ key = NoPair \/ ~ MatchesLocked(x, key)
  BY <1>1 DEF Update, Same
<1>2. CASE /\ ~ (Dropped(x, s) \/ key = NoPair \/ ~ MatchesLocked(x, key))
           /\ Len(x.frames) >= FrameBufferSize
  <2>1. Update(x, s, key, source) = StopLocked(x, "frame_full")
    BY <1>2 DEF Update
  <2>2. ~ x.stopped
    BY <1>2 DEF Dropped, Stale
  <2> QED
    <3>1. "frame_full" \in Errors
      BY DEF Errors, TerminalErrors
    <3>2. Halted(x, StopLocked(x, "frame_full"), "frame_full")
      BY <2>2, <3>1, StopFacts DEF Plain
    <3> QED
      BY <2>1, <2>2, <3>1, <3>2, StopFacts DEF Plain
<1>3. CASE /\ ~ (Dropped(x, s) \/ key = NoPair \/ ~ MatchesLocked(x, key))
           /\ ~ (Len(x.frames) >= FrameBufferSize)
  <2> DEFINE u == [ key |-> key, generation |-> x.sgen[s],
                    revision |-> x.revision, source |-> source ]
             q == Append(x.frames, u)
             y == [x EXCEPT !.frames = q]
  <2>1. Update(x, s, key, source) = y
    BY <1>3 DEF Update
  <2>2. x.ready /\ x.current = s
    BY <1>3 DEF Dropped, Stale
  <2>3. u \in FrameUpdates
    BY <1>3 DEF FrameUpdates, ClientState
  <2>4. q \in Seq(FrameUpdates) /\ Len(x.frames) < FrameBufferSize
    <3>1. x.frames \in Seq(FrameUpdates) /\ Len(x.frames) \in Nat
      BY DEF ClientState
    <3> HIDE DEF u
    <3> QED
      BY <1>3, <2>3, <3>1, BufferAssumption
  <2>5. y \in ClientState /\ y.frames = q
    BY <2>4 DEF ClientState
  <2>6. Delivered(x, y, s, u)
    BY <1>3, <2>2, <2>3, <2>4 DEF Delivered
  <2> HIDE DEF u, q, y
  <2> QED
    BY <2>1, <2>4, <2>5, <2>6
<1> QED
  BY <1>1, <1>2, <1>3

-----------------------------------------------------------------------------
(* The steps of the record, and what they preserve *)

Consistent(x) ==
  StatusAgrees(x) /\ SubscriptionAgrees(x) /\ FramesAgree(x) /\ Plain(x)

\* The application takes the oldest frame.
Taken(x, y) == x.frames # << >> /\ y = [x EXCEPT !.frames = Tail(x.frames)]

\* The steps that install no session.
QuietStep(x, y) ==
  \/ Same(x, y)
  \/ ~ x.stopped /\ \E err : Halted(x, y, err)
  \/ ~ x.stopped /\ x.current # NoSession /\ Lost(x, y) /\ Told(x, y)
  \/ x.current # NoSession /\ \E o \in Owners : Begun(x, y, x.current, o)
  \/ ~ x.stopped /\ (\E ready \in BOOLEAN : Answered(x, y, ready)) /\ Told(x, y)
  \/ \E u : Delivered(x, y, x.current, u)
  \/ Taken(x, y)
  \/ ~ x.stopped /\ x.current = NoSession /\ Overrun(x, y)

ClientStep(x, y) ==
  \/ QuietStep(x, y)
  \/ /\ ~ x.stopped /\ x.current = NoSession
     /\ \E s \in Sessions : Connected(x, y, s)
     /\ Told(x, y)

\* Only install makes a session current.
LEMMA QuietKeepsSession ==
  ASSUME NEW x \in ClientState, NEW y \in ClientState, QuietStep(x, y)
  PROVE  y.current \in {x.current, NoSession}
BY DEF QuietStep, Same, Halted, Lost, Begun, Answered, Delivered, Taken, Overrun,
       ClientState

\* No queued frame outlives the subscription under which it was queued.
LEMMA NoFramesWithoutSubscription ==
  ASSUME NEW x \in ClientState, FramesAgree(x), ~ x.ready
  PROVE  x.frames = << >>
<1>1. x.frames \in Seq(FrameUpdates)
  BY DEF ClientState
<1>2. DOMAIN x.frames = {}
  BY DEF FramesAgree
<1>3. Len(x.frames) \in Nat /\ DOMAIN x.frames = 1 .. Len(x.frames)
  BY <1>1
<1>4. Len(x.frames) # 0 => 1 \in DOMAIN x.frames
  BY <1>3
<1>5. Len(x.frames) = 0
  BY <1>2, <1>4
<1> QED
  BY <1>1, <1>5

\* Appending a frame of the present epoch keeps the queue consistent.
LEMMA DeliveredConsistent ==
  ASSUME NEW x \in ClientState, NEW y \in ClientState, Consistent(x), NEW u,
         Delivered(x, y, x.current, u)
  PROVE  Consistent(y)
<1>1. /\ y.phase = x.phase /\ y.generation = x.generation /\ y.revision = x.revision
      /\ y.stopped = x.stopped /\ y.current = x.current /\ y.sgen = x.sgen
      /\ y.ready = x.ready /\ y.accepted = x.accepted /\ y.pending = x.pending
      /\ y.frames = Append(x.frames, u)
  BY DEF Delivered, ClientState
<1>2. StatusAgrees(y) /\ SubscriptionAgrees(y)
  BY <1>1 DEF Consistent, StatusAgrees, SubscriptionAgrees
<1>3. u.generation = x.generation /\ u.revision = x.revision
        /\ MatchesLocked(x, u.key) /\ x.ready
  BY DEF Delivered, Consistent, StatusAgrees, SubscriptionAgrees
<1>4. x.frames \in Seq(FrameUpdates) /\ u \in FrameUpdates
  BY DEF ClientState, Delivered
<1>5. \A key : MatchesLocked(x, key) => MatchesLocked(y, key)
  BY <1>1 DEF MatchesLocked
<1>6. FramesAgree(y)
  <2> SUFFICES ASSUME NEW i \in DOMAIN y.frames
               PROVE  /\ y.ready
                      /\ y.frames[i].generation = y.generation
                      /\ y.frames[i].revision = y.revision
                      /\ MatchesLocked(y, y.frames[i].key)
    BY DEF FramesAgree
  <2>1. CASE i \in DOMAIN x.frames
    <3>1. y.frames[i] = x.frames[i]
      BY <1>1, <1>4, <2>1
    <3> QED
      BY <1>1, <1>5, <2>1, <3>1 DEF Consistent, FramesAgree
  <2>2. CASE i \notin DOMAIN x.frames
    <3>1. y.frames[i] = u
      BY <1>1, <1>4, <2>2
    <3> QED
      BY <1>1, <1>3, <1>5, <3>1
  <2> QED
    BY <2>1, <2>2
<1>7. Plain(y)
  BY <1>1 DEF Consistent, Plain, Delivered
<1> QED
  BY <1>2, <1>6, <1>7 DEF Consistent

\* Receiving the oldest frame keeps the queue consistent.
LEMMA TakenConsistent ==
  ASSUME NEW x \in ClientState, NEW y \in ClientState, Consistent(x), Taken(x, y)
  PROVE  Consistent(y)
<1>1. /\ y.phase = x.phase /\ y.generation = x.generation /\ y.revision = x.revision
      /\ y.stopped = x.stopped /\ y.current = x.current /\ y.sgen = x.sgen
      /\ y.ready = x.ready /\ y.accepted = x.accepted /\ y.pending = x.pending
      /\ y.frames = Tail(x.frames)
  BY DEF Taken, ClientState
<1>2. StatusAgrees(y) /\ SubscriptionAgrees(y)
  BY <1>1 DEF Consistent, StatusAgrees, SubscriptionAgrees
<1>3. x.frames \in Seq(FrameUpdates) /\ x.frames # << >>
  BY DEF ClientState, Taken
<1>4. \A key : MatchesLocked(x, key) => MatchesLocked(y, key)
  BY <1>1 DEF MatchesLocked
<1>5. \A i \in DOMAIN y.frames :
        i + 1 \in DOMAIN x.frames /\ y.frames[i] = x.frames[i + 1]
  BY <1>1, <1>3
<1>6. FramesAgree(y)
  BY <1>1, <1>4, <1>5 DEF Consistent, FramesAgree
<1>7. Plain(y)
  BY <1>1 DEF Consistent, Plain, Taken
<1> QED
  BY <1>2, <1>6, <1>7 DEF Consistent

\* A Maker's record stays without subscription state.
LEMMA StepPlain ==
  ASSUME NEW x \in ClientState, NEW y \in ClientState, Consistent(x), ClientStep(x, y)
  PROVE  Plain(y)
BY DEF Consistent, Plain, ClientStep, QuietStep, Same, Halted, Lost, Begun, Answered,
       Delivered, Taken, Overrun, Connected, Owners

\* Every step of the record keeps it consistent.
LEMMA StepConsistent ==
  ASSUME NEW x \in ClientState, NEW y \in ClientState, Consistent(x), ClientStep(x, y)
  PROVE  Consistent(y)
<1>0. Plain(y)
  BY StepPlain
<1>1. CASE Same(x, y)
  <2>1. \A key : MatchesLocked(x, key) => MatchesLocked(y, key)
    BY <1>1 DEF MatchesLocked, Same
  <2> QED
    BY <1>0, <1>1, <2>1 DEF Same, Consistent, StatusAgrees, SubscriptionAgrees, FramesAgree
<1>2. CASE \E err : Halted(x, y, err)
  BY <1>0, <1>2 DEF Halted, Consistent, StatusAgrees, SubscriptionAgrees, FramesAgree
<1>3. CASE ~ x.stopped /\ x.current # NoSession /\ Lost(x, y)
  BY <1>0, <1>3 DEF Lost, Consistent, StatusAgrees, SubscriptionAgrees, FramesAgree
<1>4. CASE x.current # NoSession /\ \E o \in Owners : Begun(x, y, x.current, o)
  BY <1>0, <1>4 DEF Begun, Consistent, StatusAgrees, SubscriptionAgrees, FramesAgree
<1>5. CASE ~ x.stopped /\ \E ready \in BOOLEAN : Answered(x, y, ready)
  <2>1. ~ x.ready /\ x.current # NoSession
    BY <1>5 DEF Answered, Consistent, SubscriptionAgrees
  <2>2. x.frames = << >>
    BY <2>1, NoFramesWithoutSubscription DEF Consistent
  <2> QED
    BY <1>0, <1>5, <2>1, <2>2
    DEF Answered, Consistent, StatusAgrees, SubscriptionAgrees, FramesAgree
<1>6. CASE \E u : Delivered(x, y, x.current, u)
  BY <1>6, DeliveredConsistent
<1>7. CASE Taken(x, y)
  BY <1>7, TakenConsistent
<1>8. CASE ~ x.stopped /\ x.current = NoSession /\ Overrun(x, y)
  BY <1>0, <1>8 DEF Overrun, Consistent, StatusAgrees, SubscriptionAgrees, FramesAgree
<1>9. CASE /\ ~ x.stopped /\ x.current = NoSession
           /\ \E s \in Sessions : Connected(x, y, s)
  <2>1. ~ x.ready /\ x.pending = NoPending
    BY <1>9 DEF Consistent, SubscriptionAgrees
  <2>2. x.frames = << >>
    BY <2>1, NoFramesWithoutSubscription DEF Consistent
  <2>3. \A s \in Sessions : s # NoSession
    BY MaxSessionsAssumption DEF Sessions, NoSession
  <2> QED
    BY <1>0, <1>9, <2>1, <2>2, <2>3
    DEF Connected, Consistent, StatusAgrees, SubscriptionAgrees, FramesAgree
<1> QED
  BY <1>1, <1>2, <1>3, <1>4, <1>5, <1>6, <1>7, <1>8, <1>9 DEF ClientStep, QuietStep

\* The frame channel never exceeds its capacity.
LEMMA StepBounded ==
  ASSUME NEW x \in ClientState, NEW y \in ClientState, Consistent(x),
         Len(x.frames) <= FrameBufferSize, ClientStep(x, y)
  PROVE  Len(y.frames) <= FrameBufferSize
<1>0. x.frames \in Seq(FrameUpdates)
  BY DEF ClientState
<1>1. CASE y.frames = x.frames
  BY <1>1
<1>2. CASE y.frames = << >>
  BY <1>2, BufferAssumption
<1>3. CASE \E u : Delivered(x, y, x.current, u)
  <2>1. PICK u : Delivered(x, y, x.current, u)
    BY <1>3
  <2>2. u \in FrameUpdates /\ Len(x.frames) < FrameBufferSize
    BY <2>1 DEF Delivered
  <2>3. y.frames = Append(x.frames, u)
    BY <2>1 DEF Delivered, ClientState
  <2>4. Len(y.frames) = Len(x.frames) + 1 /\ Len(x.frames) \in Nat
    BY <1>0, <2>2, <2>3
  <2> QED
    BY <2>2, <2>4, BufferAssumption
<1>4. CASE Taken(x, y)
  <2>1. y.frames = Tail(x.frames) /\ x.frames # << >>
    BY <1>4 DEF Taken, ClientState
  <2>2. Len(y.frames) = Len(x.frames) - 1 /\ Len(x.frames) \in Nat
    BY <1>0, <2>1
  <2> QED
    BY <2>2, BufferAssumption
<1> QED
  BY <1>1, <1>2, <1>3, <1>4
  DEF ClientStep, QuietStep, Same, Halted, Lost, Begun, Answered, Overrun, Connected

\* Nothing happens to the record of a stopped client.
LEMMA StoppedStep ==
  ASSUME NEW x \in ClientState, NEW y \in ClientState, Consistent(x), x.stopped,
         ClientStep(x, y)
  PROVE  Same(x, y) /\ x.current = NoSession /\ x.frames = << >>
<1>1. x.current = NoSession /\ ~ x.ready
  BY DEF Consistent, StatusAgrees, SubscriptionAgrees
<1>2. x.frames = << >>
  BY <1>1, NoFramesWithoutSubscription DEF Consistent
<1>3. ~ Taken(x, y) /\ \A u : ~ Delivered(x, y, x.current, u)
  BY <1>1, <1>2 DEF Taken, Delivered
<1> QED
  BY <1>1, <1>2, <1>3 DEF ClientStep, QuietStep

\* What the application may miss without an event is only a new request.
LEMMA StepTold ==
  ASSUME NEW x \in ClientState, NEW y \in ClientState, Consistent(x), ClientStep(x, y)
  PROVE  \/ y.stopped
         \/ Told(x, y)
         \/ /\ y.phase = x.phase /\ y.generation = x.generation
            /\ y.ready => x.ready
            /\ x.pending # NoPending => y.pending # NoPending
<1>1. ASSUME NEW q, y = [x EXCEPT !.frames = q]
      PROVE  /\ y.phase = x.phase /\ y.generation = x.generation
             /\ y.ready = x.ready /\ y.pending = x.pending
  BY <1>1 DEF ClientState
<1>2. CASE (\E u : Delivered(x, y, x.current, u)) \/ Taken(x, y)
  BY <1>1, <1>2 DEF Delivered, Taken
<1> QED
  BY <1>2 DEF ClientStep, QuietStep, Same, Halted, Begun, Overrun

-----------------------------------------------------------------------------
(* The goroutines *)

\* The labels at which a goroutine other than run works on a session.
SessionLabels ==
  { "wgate", "write", "wrote", "written", "await", "expired", "settle", "rediscard" }

LocalsAgree ==
  /\ pc[Run] \notin {"new", "failed"} => loc[Run].s \in Sessions
  /\ ~ Returned => pc[Beat] = "off" /\ pc[Restore] = "off"
  /\ \A p \in Procs \ {Run} : pc[p] \in SessionLabels => loc[p].s \in Sessions
  /\ \A p \in {Run, Beat} : loc[p].payload = NoPayload
  /\ \A p \in Owners :
       pc[p] \in {"sgate", "wgate", "write"} => loc[p].payload \in Requests

\* The types of everything but the record and the messages.
GoroutineTypes ==
  /\ pc \in [Procs -> Labels]
  /\ loc \in [Procs -> Locals]
  /\ calls \in [Writers \union Waiters -> Nat]
  /\ ticks \in Nat
  /\ dialed \in 0 .. MaxSessions
  /\ fatal \subseteq Sessions
  /\ subscribeGate \in BOOLEAN
  /\ writeGate \in [Sessions -> BOOLEAN]

StreamInv ==
  /\ StreamTypeOK
  /\ Len(c.frames) <= FrameBufferSize
  /\ Consistent(c)
  /\ RunOwnsSession
  /\ LocalsAgree

\* What is shown of every action.
Progress ==
  /\ c' \in ClientState
  /\ ClientStep(c, c')
  /\ GoroutineTypes'
  /\ RunOwnsSession'
  /\ LocalsAgree'

\* The type invariant, divided the way the proofs use it.
LEMMA TypeParts == StreamTypeOK <=> c \in ClientState /\ GoroutineTypes
BY DEF StreamTypeOK, GoroutineTypes

\* The goroutines of a client are distinct and known to Procs.
LEMMA Names ==
  /\ Run \in Procs /\ Beat \in Procs /\ Restore \in Procs
  /\ Run # Beat /\ Run # Restore /\ Beat # Restore
  /\ Writers \subseteq Procs /\ Waiters \subseteq Procs
  /\ Run \notin Writers \union Waiters
  /\ Beat \notin Writers \union Waiters
  /\ Restore \notin Writers \union Waiters
  /\ Owners \subseteq Writers \union {Restore}
BY ProcsAssumption
DEF Procs, SessionBound, Run, Beat, Restore, Owners, NoOwner

\* The parts of the inductive invariant.
LEMMA StreamFacts ==
  ASSUME StreamInv
  PROVE  /\ c \in ClientState /\ GoroutineTypes
         /\ Consistent(c) /\ RunOwnsSession /\ LocalsAgree
         /\ c.stopped => c.current = NoSession
         /\ c.pending # NoPending => ~ c.ready
         /\ Plain(c)
BY TypeParts DEF StreamInv, Consistent, StatusAgrees, SubscriptionAgrees

-----------------------------------------------------------------------------
(* What a step of one goroutine must respect *)

\* Goroutine p goes to label, with r as its local variables.
Moved(p, label, r) ==
  /\ pc' = [pc EXCEPT ![p] = label]
  /\ loc' = [loc EXCEPT ![p] = r] \/ (loc' = loc /\ r = loc[p])

\* label and r respect the conditions that StreamInv puts on p.
Fits(p, label, r) ==
  /\ label \in Labels /\ r \in Locals
  /\ p = Run => /\ label \notin {"new", "failed"} => r.s \in Sessions
                /\ c'.current \in {NoSession, r.s}
                /\ label \in Between => c'.current = NoSession
                /\ Returned => label \notin {"new", "install_first", "failed"}
  /\ p # Run /\ label \in SessionLabels => r.s \in Sessions
  /\ p \in {Beat, Restore} => pc[p] # "off"
  /\ p \in {Run, Beat} => r.payload = NoPayload
  /\ p \in Owners /\ label \in {"sgate", "wgate", "write"} => r.payload \in Requests

\* The types of the variables that no goroutine has to itself.
SharedTypes ==
  /\ calls \in [Writers \union Waiters -> Nat]
  /\ ticks \in Nat
  /\ dialed \in 0 .. MaxSessions
  /\ fatal \subseteq Sessions
  /\ subscribeGate \in BOOLEAN
  /\ writeGate \in [Sessions -> BOOLEAN]

\* A step that moves one goroutine and installs no session.
LEMMA MoveProgress ==
  ASSUME StreamInv, NEW p \in Procs, NEW label, NEW r,
         Moved(p, label, r), Fits(p, label, r),
         c' \in ClientState, QuietStep(c, c'), SharedTypes'
  PROVE  Progress
<1> USE Names, StreamFacts
<1>1. pc' \in [Procs -> Labels]
  BY DEF Moved, Fits, GoroutineTypes
<1>2. loc' \in [Procs -> Locals]
  BY DEF Moved, Fits, GoroutineTypes
<1>3. GoroutineTypes'
  BY <1>1, <1>2 DEF GoroutineTypes, SharedTypes
<1>4. \A q \in Procs : /\ pc'[q] = IF q = p THEN label ELSE pc[q]
                       /\ loc'[q] = IF q = p THEN r ELSE loc[q]
  BY DEF Moved, GoroutineTypes
<1>5. RunOwnsSession'
  <2>1. c'.current \in {c.current, NoSession}
    BY QuietKeepsSession
  <2> QED
    BY <1>4, <2>1 DEF RunOwnsSession, Fits
<1>6. LocalsAgree'
  <2>1. (pc[Run] \notin {"new", "failed"} => loc[Run].s \in Sessions)'
    BY <1>4 DEF LocalsAgree, Fits
  <2>2. (~ Returned => pc[Beat] = "off" /\ pc[Restore] = "off")'
    BY <1>4 DEF LocalsAgree, Fits, Returned
  <2>3. (\A q \in Procs \ {Run} : pc[q] \in SessionLabels => loc[q].s \in Sessions)'
    BY <1>4 DEF LocalsAgree, Fits
  <2>4. (\A q \in {Run, Beat} : loc[q].payload = NoPayload)'
    BY <1>4 DEF LocalsAgree, Fits
  <2>5. (\A q \in Owners : pc[q] \in {"sgate", "wgate", "write"}
                             => loc[q].payload \in Requests)'
    BY <1>4 DEF LocalsAgree, Fits
  <2> QED
    BY <2>1, <2>2, <2>3, <2>4, <2>5 DEF LocalsAgree
<1> QED
  BY <1>3, <1>5, <1>6 DEF Progress, ClientStep

\* A step that moves no goroutine.
LEMMA StillProgress ==
  ASSUME StreamInv, UNCHANGED << pc, loc >>,
         c' \in ClientState, QuietStep(c, c'), SharedTypes'
  PROVE  Progress
<1> USE Names, StreamFacts
<1>1. GoroutineTypes'
  BY DEF GoroutineTypes, SharedTypes
<1>2. RunOwnsSession'
  BY QuietKeepsSession DEF RunOwnsSession
<1>3. LocalsAgree'
  BY DEF LocalsAgree, Returned
<1> QED
  BY <1>1, <1>2, <1>3 DEF Progress, ClientStep

\* A step that leaves the record alone.
LEMMA SameRecord ==
  ASSUME StreamInv, UNCHANGED c
  PROVE  c' \in ClientState /\ QuietStep(c, c') /\ c'.current = c.current
BY StreamFacts DEF QuietStep, Same

\* A step that leaves counters, history and gates alone keeps their types.
LEMMA SharedUnchanged ==
  ASSUME StreamInv, UNCHANGED << calls, ticks, history, gates >>
  PROVE  SharedTypes'
BY StreamFacts DEF GoroutineTypes, SharedTypes, history, gates

\* discard, from whichever goroutine.
LEMMA DiscardStep ==
  ASSUME StreamInv, NEW s \in Sessions, NEW err \in Errors, c' = Discard(c, s, err)
  PROVE  /\ c' \in ClientState /\ QuietStep(c, c')
         /\ c'.current \in {c.current, NoSession} \ {s}
<1> USE Names, StreamFacts
<1>1. s # NoSession
  BY MaxSessionsAssumption DEF Sessions, NoSession
<1>2. c' \in ClientState /\ QuietStep(c, c')
  BY <1>1, DiscardFacts DEF QuietStep
<1>3. \/ c.current # s /\ Same(c, c')
      \/ c.current = s /\ (Lost(c, c') \/ Halted(c, c', "event_full"))
  BY DiscardFacts
<1>4. CASE c.current # s /\ Same(c, c')
  BY <1>2, <1>4 DEF Same
<1>5. CASE c.current = s /\ (Lost(c, c') \/ Halted(c, c', "event_full"))
  BY <1>1, <1>2, <1>5 DEF Lost, Halted
<1> QED
  BY <1>3, <1>4, <1>5

\* stopLocked, from whichever goroutine.
LEMMA StopStep ==
  ASSUME StreamInv, NEW err \in Errors, c' = StopLocked(c, err)
  PROVE  c' \in ClientState /\ QuietStep(c, c') /\ c'.current = NoSession
<1> USE Names, StreamFacts
<1>1. CASE c.stopped
  BY <1>1, StopAgain DEF QuietStep, Same
<1>2. CASE ~ c.stopped
  BY <1>2, StopFacts DEF QuietStep, Halted
<1> QED
  BY <1>1, <1>2

-----------------------------------------------------------------------------
(* write *)

\* session.write, in whichever goroutine.
LEMMA WriteProgress ==
  ASSUME StreamInv, NEW p \in Procs \ Waiters, Write(p)
  PROVE  Progress
<1> USE Names, StreamFacts
<1>0. pc[p] \in {"wgate", "write", "wrote"} =>
        /\ loc[p] \in Locals /\ loc[p].s \in Sessions
        /\ p = Run => /\ Returned /\ c.current \in {NoSession, loc[Run].s}
        /\ p \in {Run, Beat} => loc[p].payload = NoPayload
        /\ p \in Owners /\ pc[p] \in {"wgate", "write"} => loc[p].payload \in Requests
  BY DEF LocalsAgree, RunOwnsSession, GoroutineTypes, SessionLabels, Returned
<1>1. ASSUME pc[p] = "wgate", WriteRefused(p, "transient")
      PROVE  Progress
  <2> DEFINE r == [loc[p] EXCEPT !.err = "transient", !.started = FALSE]
  <2>1. Moved(p, "written", r)
    BY <1>1 DEF Moved, WriteRefused, Goto
  <2>2. r \in Locals /\ r.s = loc[p].s /\ r.payload = loc[p].payload
    BY <1>0, <1>1 DEF Locals, Errors, TransientErrors
  <2>3. UNCHANGED c
    BY <1>1 DEF WriteRefused
  <2>4. Fits(p, "written", r)
    BY <1>0, <1>1, <2>2, <2>3, SameRecord DEF Fits, Labels, Between
  <2>5. SharedTypes'
    BY <1>1, SharedUnchanged DEF WriteRefused
  <2> HIDE DEF r
  <2> QED
    BY <2>1, <2>3, <2>4, <2>5, SameRecord, MoveProgress
<1>2. CASE WriteStart(p)
  <2> DEFINE r == [loc[p] EXCEPT
                     !.revision = IF p \in Owners THEN c'.revision ELSE 0,
                     !.started = TRUE]
  <2>0. pc[p] = "wgate" /\ CanWrite(c, loc[p].s)
    BY <1>2 DEF WriteStart
  <2>1. c' \in ClientState /\ QuietStep(c, c') /\ c'.current = c.current
    <3>1. CASE p \in Owners
      <4>1. c' = BeginSubscription(c, loc[p].s, p, loc[p].payload)
        BY <1>2, <3>1 DEF WriteStart
      <4>2. c' \in ClientState /\ Begun(c, c', loc[p].s, p)
        BY <1>0, <2>0, <3>1, <4>1, BeginFacts
      <4>3. c.current = loc[p].s /\ c.current # NoSession
        BY <1>0, <2>0, MaxSessionsAssumption DEF CanWrite, Sessions, NoSession
      <4> QED
        BY <3>1, <4>2, <4>3 DEF QuietStep, Begun
    <3>2. CASE p \notin Owners
      BY <1>2, <3>2, SameRecord DEF WriteStart
    <3> QED
      BY <3>1, <3>2
  <2>2. r \in Locals /\ r.s = loc[p].s /\ r.payload = loc[p].payload
    BY <1>0, <2>0, <2>1 DEF Locals, ClientState
  <2>3. Moved(p, "write", r)
    BY <1>2 DEF Moved, WriteStart, Goto
  <2>4. Fits(p, "write", r)
    BY <1>0, <2>0, <2>1, <2>2 DEF Fits, Labels, Between
  <2>5. SharedTypes'
    BY <1>2 DEF WriteStart, SharedTypes, GoroutineTypes, history
  <2> HIDE DEF r
  <2> QED
    BY <2>1, <2>3, <2>4, <2>5, MoveProgress
<1>3. CASE WriteBytes(p)
  <2>1. UNCHANGED c /\ pc[p] = "write"
    BY <1>3 DEF WriteBytes
  <2>2. Moved(p, "wrote", loc[p])
    BY <1>3 DEF Moved, WriteBytes, Goto
  <2>3. Fits(p, "wrote", loc[p])
    BY <1>0, <2>1, SameRecord DEF Fits, Labels, Between
  <2>4. SharedTypes'
    BY <1>3, SharedUnchanged DEF WriteBytes
  <2> QED
    BY <2>1, <2>2, <2>3, <2>4, SameRecord, MoveProgress
<1>4. CASE WriteOk(p)
  <2> DEFINE r == [loc[p] EXCEPT !.err = NoErr]
  <2>1. UNCHANGED c /\ pc[p] = "wrote"
    BY <1>4 DEF WriteOk
  <2>2. r \in Locals /\ r.s = loc[p].s /\ r.payload = loc[p].payload
    BY <1>0, <2>1 DEF Locals, Errors
  <2>3. Moved(p, "written", r)
    BY <1>4 DEF Moved, WriteOk, Goto
  <2>4. Fits(p, "written", r)
    BY <1>0, <2>1, <2>2, SameRecord DEF Fits, Labels, Between
  <2>5. SharedTypes'
    BY <1>4 DEF WriteOk, ReleaseWriteGate, SharedTypes, GoroutineTypes, history
  <2> HIDE DEF r
  <2> QED
    BY <2>1, <2>3, <2>4, <2>5, SameRecord, MoveProgress
<1>5. CASE WriteFail(p)
  <2> DEFINE r == [loc[p] EXCEPT !.err = "transient"]
  <2>0. pc[p] \in {"write", "wrote"} /\ "transient" \in Errors
    BY <1>5 DEF WriteFail, Errors, TransientErrors
  <2>1. c' \in ClientState /\ QuietStep(c, c') /\ c'.current \in {c.current, NoSession}
    BY <1>0, <1>5, <2>0, DiscardStep DEF WriteFail
  <2>2. r \in Locals /\ r.s = loc[p].s /\ r.payload = loc[p].payload
    BY <1>0, <2>0 DEF Locals
  <2>3. Moved(p, "written", r)
    BY <1>5 DEF Moved, WriteFail, Goto
  <2>4. Fits(p, "written", r)
    BY <1>0, <2>0, <2>1, <2>2 DEF Fits, Labels, Between
  <2>5. SharedTypes'
    BY <1>5 DEF WriteFail, ReleaseWriteGate, SharedTypes, GoroutineTypes, history
  <2> HIDE DEF r
  <2> QED
    BY <2>1, <2>3, <2>4, <2>5, MoveProgress
<1> QED
  BY <1>1, <1>2, <1>3, <1>4, <1>5
  DEF Write, WriteQueueTimeout, WriteQueueDisconnected, WriteTooLate

-----------------------------------------------------------------------------
(* run: dialing and installing *)

\* A successful dial hands run a session that is not installed yet.
LEMMA DialedProgress ==
  ASSUME StreamInv, NEW label \in {"install_first", "gate", "install"}, Dialed(label),
         pc[Run] \in {"new", "dial"}, label = "install_first" => pc[Run] = "new"
  PROVE  Progress
<1> USE Names, StreamFacts
<1> DEFINE r == [NoLocals EXCEPT !.s = dialed + 1]
<1>1. UNCHANGED c /\ c.current = NoSession
  BY DEF Dialed, RunOwnsSession, Between
<1>2. dialed + 1 \in Sessions
  BY MaxSessionsAssumption DEF Dialed, GoroutineTypes, Sessions
<1>3. r \in Locals /\ r.s = dialed + 1 /\ r.payload = NoPayload
  BY <1>2 DEF Locals, NoLocals, Errors
<1>4. Moved(Run, label, r)
  BY DEF Dialed, Moved, Goto
<1>5. Fits(Run, label, r)
  BY <1>1, <1>2, <1>3, SameRecord DEF Fits, Labels, Between, Returned
<1>6. SharedTypes'
  BY <1>2 DEF Dialed, SharedTypes, GoroutineTypes, gates, Sessions
<1> HIDE DEF r
<1> QED
  BY <1>1, <1>4, <1>5, <1>6, SameRecord, MoveProgress

\* runSession starts with the session that was just installed.
LEMMA StartProgress ==
  ASSUME StreamInv, loc[Run].s \in Sessions, c.current = NoSession, ~ c.stopped,
         c' \in ClientState, Connected(c, c', loc[Run].s), Told(c, c'),
         pc' = StartSession(c'), UNCHANGED loc, SharedTypes'
  PROVE  Progress
<1> USE Names, StreamFacts
<1>1. pc' \in [Procs -> Labels]
  BY DEF StartSession, GoroutineTypes, Labels
<1>2. GoroutineTypes'
  BY <1>1 DEF GoroutineTypes, SharedTypes
<1>3. /\ pc'[Run] = "read" /\ pc'[Beat] = "idle" /\ pc'[Restore] \in {"load", "off"}
      /\ \A q \in Procs \ {Run, Beat, Restore} : pc'[q] = pc[q]
  BY DEF StartSession, GoroutineTypes
<1>4. RunOwnsSession'
  BY <1>3 DEF RunOwnsSession, Connected, Between
<1>5. LocalsAgree'
  BY <1>3 DEF LocalsAgree, Returned, SessionLabels
<1>6. ClientStep(c, c')
  BY DEF ClientStep
<1> QED
  BY <1>2, <1>4, <1>5, <1>6 DEF Progress

\* DialRouter and the redial of run: dial, reserve the sequencer, install.
LEMMA DialProgress ==
  ASSUME StreamInv,
         \/ DialFirst \/ DialFirstFails \/ InstallFirst \/ DialNext \/ DialNextFails
         \/ TakeSubscribeGate \/ GateCancelled \/ InstallNext
  PROVE  Progress
<1> USE Names, StreamFacts
<1>0. /\ pc[Run] \in Between => c.current = NoSession
      /\ pc[Run] \in {"install_first", "dial", "gate", "install"} =>
           /\ loc[Run].s \in Sessions
           /\ c.current = NoSession
      /\ loc[Run] \in Locals /\ loc[Run].payload = NoPayload
  BY DEF LocalsAgree, RunOwnsSession, Between, GoroutineTypes
<1>1. CASE DialFirst
  BY <1>1, DialedProgress DEF DialFirst
<1>2. CASE DialNext
  BY <1>2, DialedProgress DEF DialNext
<1>3. CASE DialFirstFails
  <2>1. pc[Run] = "new" /\ c' = [c EXCEPT !.ctxDone = TRUE]
    BY <1>3 DEF DialFirstFails
  <2>2. c' \in ClientState /\ Same(c, c')
    BY <2>1 DEF ClientState, Same
  <2>3. Moved(Run, "failed", loc[Run])
    BY <1>3 DEF DialFirstFails, Moved, Goto
  <2>4. Fits(Run, "failed", loc[Run])
    BY <1>0, <2>1, <2>2 DEF Fits, Same, Labels, Between, Returned
  <2>5. SharedTypes'
    BY <1>3, SharedUnchanged DEF DialFirstFails
  <2> QED
    BY <2>2, <2>3, <2>4, <2>5, MoveProgress DEF QuietStep
<1>4. CASE InstallFirst
  <2> DEFINE y == Install(c, loc[Run].s)
  <2>1. pc[Run] = "install_first" /\ UNCHANGED loc
    BY <1>4 DEF InstallFirst
  <2>2. SharedTypes'
    BY <1>4, SharedUnchanged DEF InstallFirst
  <2>3. CASE Installed(c, loc[Run].s)
    <3>1. c' = y /\ pc' = StartSession(c')
      BY <1>4, <2>3 DEF InstallFirst
    <3>2. c' \in ClientState /\ ~ c.stopped /\ Connected(c, c', loc[Run].s) /\ Told(c, c')
      BY <1>0, <2>1, <2>3, <3>1, InstallFacts
    <3> QED
      BY <1>0, <2>1, <2>2, <3>1, <3>2, StartProgress
  <2>4. CASE ~ Installed(c, loc[Run].s)
    <3>1. c' = [y EXCEPT !.ctxDone = TRUE] /\ Goto(Run, "failed")
      BY <1>4, <2>4 DEF InstallFirst
    <3>2. y \in ClientState /\ (Same(c, y) \/ (~ c.stopped /\ Overrun(c, y)))
      BY <1>0, <2>1, <2>4, InstallFacts
    <3> HIDE DEF y
    <3>3. c' \in ClientState /\ (Same(c, c') \/ (~ c.stopped /\ Overrun(c, c')))
      BY <3>1, <3>2 DEF ClientState, Same, Overrun
    <3>4. QuietStep(c, c') /\ c'.current = NoSession
      BY <1>0, <2>1, <3>3 DEF QuietStep, Same, Overrun
    <3>5. Moved(Run, "failed", loc[Run])
      BY <2>1, <3>1 DEF Moved, Goto
    <3>6. Fits(Run, "failed", loc[Run])
      BY <1>0, <2>1, <3>4 DEF Fits, Labels, Between, Returned
    <3> QED
      BY <2>2, <3>3, <3>4, <3>5, <3>6, MoveProgress
  <2> QED
    BY <2>3, <2>4
<1>5. CASE DialNextFails
  <2>1. pc[Run] = "dial" /\ UNCHANGED loc
    BY <1>5 DEF DialNextFails
  <2>2. PICK err \in DialErrors :
          IF err \in TerminalErrors
          THEN c' = StopLocked(c, err) /\ Goto(Run, "exit")
          ELSE /\ c' = SignalLocked(c)
               /\ Goto(Run, IF c.ctxDone THEN "exit" ELSE "backoff")
    BY <1>5 DEF DialNextFails
  <2>3. err \in Errors
    BY StreamAssumption DEF DialErrors, Errors, TerminalErrors, TransientErrors
  <2>4. c' \in ClientState /\ QuietStep(c, c') /\ c'.current = NoSession
    <3>1. CASE err \in TerminalErrors
      BY <2>2, <2>3, <3>1, StopStep
    <3>2. CASE err \notin TerminalErrors
      BY <1>0, <2>1, <2>2, <3>2, SignalFacts DEF QuietStep, Same
    <3> QED
      BY <3>1, <3>2
  <2>5. PICK label \in {"exit", "backoff"} : Goto(Run, label)
    BY <2>2
  <2>6. Moved(Run, label, loc[Run])
    BY <2>1, <2>5 DEF Moved, Goto
  <2>7. Fits(Run, label, loc[Run])
    BY <1>0, <2>1, <2>4 DEF Fits, Labels, Between
  <2>8. SharedTypes'
    BY <1>5, SharedUnchanged DEF DialNextFails
  <2> QED
    BY <2>4, <2>6, <2>7, <2>8, MoveProgress
<1>6. CASE TakeSubscribeGate
  <2>1. pc[Run] = "gate" /\ c' = [c EXCEPT !.restoring = TRUE]
    BY <1>6 DEF TakeSubscribeGate
  <2>2. c' \in ClientState /\ Same(c, c')
    BY <2>1 DEF ClientState, Same
  <2>3. Moved(Run, "install", loc[Run])
    BY <1>6 DEF TakeSubscribeGate, Moved, Goto
  <2>4. Fits(Run, "install", loc[Run])
    BY <1>0, <2>1, <2>2 DEF Fits, Same, Labels, Between
  <2>5. SharedTypes'
    BY <1>6 DEF TakeSubscribeGate, SharedTypes, GoroutineTypes, history
  <2> QED
    BY <2>2, <2>3, <2>4, <2>5, MoveProgress DEF QuietStep
<1>7. CASE GateCancelled
  <2>1. pc[Run] = "gate" /\ c' = CloseSession(c, loc[Run].s)
    BY <1>7 DEF GateCancelled
  <2>2. c' \in ClientState /\ Same(c, c')
    BY <1>0, <2>1, CloseFacts
  <2>3. Moved(Run, "exit", loc[Run])
    BY <1>7 DEF GateCancelled, Moved, Goto
  <2>4. Fits(Run, "exit", loc[Run])
    BY <1>0, <2>1, <2>2 DEF Fits, Same, Labels, Between
  <2>5. SharedTypes'
    BY <1>7, SharedUnchanged DEF GateCancelled
  <2> QED
    BY <2>2, <2>3, <2>4, <2>5, MoveProgress DEF QuietStep
<1>8. CASE InstallNext
  <2>1. pc[Run] = "install" /\ UNCHANGED loc /\ c' = Install(c, loc[Run].s)
    BY <1>8 DEF InstallNext
  <2>2. SharedTypes'
    BY <1>8 DEF InstallNext, SharedTypes, GoroutineTypes, history
  <2>4. CASE Installed(c, loc[Run].s)
    <3>1. pc' = StartSession(c')
      BY <1>8, <2>4 DEF InstallNext
    <3>2. c' \in ClientState /\ ~ c.stopped /\ Connected(c, c', loc[Run].s) /\ Told(c, c')
      BY <1>0, <2>1, <2>4, InstallFacts
    <3> QED
      BY <1>0, <2>1, <2>2, <3>1, <3>2, StartProgress
  <2>5. CASE ~ Installed(c, loc[Run].s)
    <3>1. Goto(Run, "exit")
      BY <1>8, <2>5 DEF InstallNext
    <3>2. c' \in ClientState /\ (Same(c, c') \/ (~ c.stopped /\ Overrun(c, c')))
      BY <1>0, <2>1, <2>5, InstallFacts
    <3>3. QuietStep(c, c') /\ c'.current = NoSession
      BY <1>0, <2>1, <3>2 DEF QuietStep, Same, Overrun
    <3>4. Moved(Run, "exit", loc[Run])
      BY <2>1, <3>1 DEF Moved, Goto
    <3>5. Fits(Run, "exit", loc[Run])
      BY <1>0, <2>1, <3>3 DEF Fits, Labels, Between
    <3> QED
      BY <2>2, <3>2, <3>3, <3>4, <3>5, MoveProgress
  <2> QED
    BY <2>4, <2>5
<1> QED
  BY <1>1, <1>2, <1>3, <1>4, <1>5, <1>6, <1>7, <1>8

-----------------------------------------------------------------------------
(* run: the read loop and what follows it *)

\* The read loop ends with err.
LEMMA EndReadProgress ==
  ASSUME StreamInv, pc[Run] \in {"read", "written"}, NEW err \in Errors, EndRead(err),
         c' \in ClientState, QuietStep(c, c'), SharedTypes'
  PROVE  Progress
<1> USE Names, StreamFacts
<1> DEFINE r == [NoLocals EXCEPT !.s = loc[Run].s, !.err = err]
<1>1. loc[Run].s \in Sessions /\ c.current \in {NoSession, loc[Run].s}
  BY DEF LocalsAgree, RunOwnsSession
<1>2. r \in Locals /\ r.s = loc[Run].s /\ r.payload = NoPayload
  BY <1>1 DEF Locals, NoLocals
<1>3. Moved(Run, "teardown", r)
  BY DEF EndRead, Moved, Goto
<1>4. Fits(Run, "teardown", r)
  BY <1>1, <1>2, QuietKeepsSession DEF Fits, Labels, Between
<1> HIDE DEF r
<1> QED
  BY <1>3, <1>4, MoveProgress

\* The read loop of runSession and its teardown.
LEMMA ReadProgress ==
  ASSUME StreamInv,
         \/ ReadFails \/ ReadClosed \/ CloseOnCancel \/ ReadPing \/ PongWritten
         \/ Teardown \/ Join
  PROVE  Progress
<1> USE Names, StreamFacts
<1>0. /\ loc[Run] \in Locals /\ loc[Run].payload = NoPayload
      /\ pc[Run] \notin {"new", "failed"} => loc[Run].s \in Sessions
      /\ c.current \in {NoSession, loc[Run].s}
  BY DEF LocalsAgree, RunOwnsSession, GoroutineTypes
<1>1. CASE ReadFails
  <2>1. PICK err \in ReadErrors : EndRead(err)
    BY <1>1 DEF ReadFails
  <2>2. err \in Errors
    BY StreamAssumption DEF Errors, TerminalErrors, TransientErrors
  <2>3. SharedTypes' /\ UNCHANGED c /\ pc[Run] = "read"
    BY <1>1, SharedUnchanged DEF ReadFails
  <2> QED
    BY <2>1, <2>2, <2>3, SameRecord, EndReadProgress
<1>2. CASE ReadClosed
  <2>1. SharedTypes' /\ UNCHANGED c /\ pc[Run] = "read"
    BY <1>2, SharedUnchanged DEF ReadClosed
  <2>2. "transient" \in Errors /\ EndRead("transient")
    BY <1>2 DEF ReadClosed, Errors, TransientErrors
  <2> QED
    BY <2>1, <2>2, SameRecord, EndReadProgress
<1>3. CASE CloseOnCancel
  <2>1. loc[Run].s \in Sessions
    BY <1>0, <1>3 DEF CloseOnCancel, Reading
  <2>2. c' \in ClientState /\ Same(c, c')
    BY <1>3, <2>1 DEF CloseOnCancel, ClientState, Same
  <2>3. SharedTypes' /\ UNCHANGED << pc, loc >>
    BY <1>3, SharedUnchanged DEF CloseOnCancel
  <2> QED
    BY <2>2, <2>3, StillProgress DEF QuietStep
<1>4. CASE ReadPing
  <2>1. UNCHANGED c /\ pc[Run] = "read"
    BY <1>4 DEF ReadPing
  <2>2. Moved(Run, "wgate", loc[Run])
    BY <1>4 DEF ReadPing, Moved, Goto
  <2>3. Fits(Run, "wgate", loc[Run])
    BY <1>0, <2>1, SameRecord DEF Fits, Labels, Between
  <2>4. SharedTypes'
    BY <1>4, SharedUnchanged DEF ReadPing
  <2> QED
    BY <2>1, <2>2, <2>3, <2>4, SameRecord, MoveProgress
<1>5. CASE PongWritten
  <2>1. UNCHANGED c /\ pc[Run] = "written" /\ loc[Run].err \in Errors
    BY <1>0, <1>5 DEF PongWritten, Locals
  <2>2. SharedTypes'
    BY <1>5, SharedUnchanged DEF PongWritten
  <2>3. CASE loc[Run].err = NoErr
    <3> DEFINE r == [NoLocals EXCEPT !.s = loc[Run].s]
    <3>1. Moved(Run, "read", r)
      BY <1>5, <2>3 DEF PongWritten, Moved, Goto
    <3>2. r \in Locals /\ r.s = loc[Run].s /\ r.payload = NoPayload
      BY <1>0, <2>1 DEF Locals, NoLocals, Errors
    <3>3. Fits(Run, "read", r)
      BY <1>0, <2>1, <3>2, SameRecord DEF Fits, Labels, Between
    <3> HIDE DEF r
    <3> QED
      BY <2>1, <2>2, <3>1, <3>3, SameRecord, MoveProgress
  <2>4. CASE loc[Run].err # NoErr
    BY <1>5, <2>1, <2>2, <2>4, SameRecord, EndReadProgress DEF PongWritten
  <2> QED
    BY <2>3, <2>4
<1>6. CASE Teardown
  <2>1. pc[Run] = "teardown" /\ loc[Run].err \in Errors /\ loc[Run].s \in Sessions
    BY <1>0, <1>6 DEF Teardown, Locals
  <2>2. c' \in ClientState /\ Same(c, c')
    <3> DEFINE f == SetFailure(c, loc[Run].s, loc[Run].err)
    <3>1. f \in ClientState /\ Same(c, f)
      BY <2>1, SetFailureFacts
    <3>2. c' = CloseSession(f, loc[Run].s)
      BY <1>6 DEF Teardown
    <3> HIDE DEF f
    <3>3. c' \in ClientState /\ Same(f, c')
      BY <2>1, <3>1, <3>2, CloseFacts
    <3> QED
      BY <3>1, <3>3 DEF Same
  <2>3. Moved(Run, "join", loc[Run])
    BY <1>6 DEF Teardown, Moved, Goto
  <2>4. Fits(Run, "join", loc[Run])
    BY <1>0, <2>1, <2>2 DEF Fits, Same, Labels, Between
  <2>5. SharedTypes'
    BY <1>6, <2>1 DEF Teardown, SharedTypes, GoroutineTypes, gates
  <2> QED
    BY <2>2, <2>3, <2>4, <2>5, MoveProgress DEF QuietStep
<1>7. CASE Join
  <2>1. UNCHANGED c /\ pc[Run] = "join"
    BY <1>7 DEF Join
  <2>2. Moved(Run, "after", loc[Run])
    BY <1>7 DEF Join, Moved, Goto
  <2>3. Fits(Run, "after", loc[Run])
    BY <1>0, <2>1, SameRecord DEF Fits, Labels, Between
  <2>4. SharedTypes'
    BY <1>7, SharedUnchanged DEF Join
  <2> QED
    BY <2>1, <2>2, <2>3, <2>4, SameRecord, MoveProgress
<1> QED
  BY <1>1, <1>2, <1>3, <1>4, <1>5, <1>6, <1>7

\* What run does between the end of a session and the next dial.
LEMMA BetweenProgress ==
  ASSUME StreamInv,
         \/ AfterSession \/ LeaveSession \/ DiscardSession \/ DecideRetry
         \/ BackoffElapsed \/ BackoffCancelled \/ Exit
  PROVE  Progress
<1> USE Names, StreamFacts
<1>0. /\ loc[Run] \in Locals /\ loc[Run].payload = NoPayload
      /\ pc[Run] \notin {"new", "failed"} => loc[Run].s \in Sessions
      /\ pc[Run] \in Between => c.current = NoSession
      /\ c.current \in {NoSession, loc[Run].s}
  BY DEF LocalsAgree, RunOwnsSession, GoroutineTypes
<1>1. CASE AfterSession
  <2> DEFINE r == [loc[Run] EXCEPT !.err = Cause(c, loc[Run].s, loc[Run].err)]
  <2>1. UNCHANGED c /\ pc[Run] = "after" /\ loc[Run].s \in Sessions
    BY <1>0, <1>1 DEF AfterSession
  <2>2. Cause(c, loc[Run].s, loc[Run].err) \in Errors
    BY <1>0, <2>1 DEF Cause, Locals, ClientState
  <2>3. r \in Locals /\ r.s = loc[Run].s /\ r.payload = NoPayload
    BY <1>0, <2>2 DEF Locals
  <2>4. PICK label \in {"exit", "leave"} :
          Goto(Run, label) /\ (label = "exit" => c.stopped)
    BY <1>1 DEF AfterSession
  <2>5. Moved(Run, label, r)
    BY <1>1, <2>4 DEF AfterSession, Moved, Goto
  <2>6. Fits(Run, label, r)
    BY <1>0, <2>1, <2>3, <2>4, SameRecord DEF Fits, Labels, Between
  <2>7. SharedTypes'
    BY <1>1, SharedUnchanged DEF AfterSession
  <2> HIDE DEF r
  <2> QED
    BY <2>1, <2>5, <2>6, <2>7, SameRecord, MoveProgress
<1>2. CASE LeaveSession
  <2>1. pc[Run] = "leave" /\ UNCHANGED loc
    BY <1>2 DEF LeaveSession
  <2>2. SharedTypes'
    BY <1>2, SharedUnchanged DEF LeaveSession
  <2>3. CASE c.ctxDone
    <3>1. c' = StopLocked(c, "canceled") /\ Goto(Run, "exit") /\ "canceled" \in Errors
      BY <1>2, <2>3 DEF LeaveSession, Errors, TransientErrors
    <3>2. c' \in ClientState /\ QuietStep(c, c') /\ c'.current = NoSession
      BY <3>1, StopStep
    <3>3. Moved(Run, "exit", loc[Run]) /\ Fits(Run, "exit", loc[Run])
      BY <1>0, <2>1, <3>1, <3>2 DEF Moved, Goto, Fits, Labels, Between
    <3> QED
      BY <2>2, <3>2, <3>3, MoveProgress
  <2>4. CASE ~ c.ctxDone
    <3>1. UNCHANGED c /\ Goto(Run, "discard")
      BY <1>2, <2>4 DEF LeaveSession
    <3>2. Moved(Run, "discard", loc[Run]) /\ Fits(Run, "discard", loc[Run])
      BY <1>0, <2>1, <3>1, SameRecord DEF Moved, Goto, Fits, Labels, Between
    <3> QED
      BY <2>2, <3>1, <3>2, SameRecord, MoveProgress
  <2> QED
    BY <2>3, <2>4
<1>3. CASE DiscardSession
  <2>1. /\ pc[Run] = "discard" /\ loc[Run].s \in Sessions /\ loc[Run].err \in Errors
        /\ c' = Discard(c, loc[Run].s, loc[Run].err)
    BY <1>0, <1>3 DEF DiscardSession, Locals
  <2>2. c' \in ClientState /\ QuietStep(c, c') /\ c'.current = NoSession
    BY <1>0, <2>1, DiscardStep
  <2>3. Moved(Run, "decide", loc[Run])
    BY <1>3 DEF DiscardSession, Moved, Goto
  <2>4. Fits(Run, "decide", loc[Run])
    BY <1>0, <2>1, <2>2 DEF Fits, Labels, Between
  <2>5. SharedTypes'
    BY <1>3, SharedUnchanged DEF DiscardSession
  <2> QED
    BY <2>2, <2>3, <2>4, <2>5, MoveProgress
<1>4. CASE DecideRetry
  <2>1. pc[Run] = "decide" /\ UNCHANGED loc /\ loc[Run].err \in Errors
    BY <1>0, <1>4 DEF DecideRetry, Locals
  <2>2. SharedTypes'
    BY <1>4, SharedUnchanged DEF DecideRetry
  <2>3. c' \in ClientState /\ QuietStep(c, c') /\ c'.current = NoSession
    <3>1. CASE GiveUp(loc[Run].err)
      BY <1>4, <2>1, <3>1, StopStep DEF DecideRetry
    <3>2. CASE ~ GiveUp(loc[Run].err)
      BY <1>0, <1>4, <2>1, <3>2, SameRecord DEF DecideRetry, Between
    <3> QED
      BY <3>1, <3>2
  <2>4. PICK label \in {"exit", "dial", "backoff"} : Goto(Run, label)
    BY <1>4 DEF DecideRetry
  <2>5. Moved(Run, label, loc[Run]) /\ Fits(Run, label, loc[Run])
    BY <1>0, <2>1, <2>3, <2>4 DEF Moved, Goto, Fits, Labels, Between
  <2> QED
    BY <2>2, <2>3, <2>5, MoveProgress
<1>5. ASSUME BackoffElapsed \/ BackoffCancelled
      PROVE  Progress
  <2>1. pc[Run] = "backoff" /\ UNCHANGED << c, loc >>
    BY <1>5 DEF BackoffElapsed, BackoffCancelled
  <2>2. SharedTypes'
    BY <1>5, SharedUnchanged DEF BackoffElapsed, BackoffCancelled
  <2>3. PICK label \in {"exit", "dial"} : Goto(Run, label)
    BY <1>5 DEF BackoffElapsed, BackoffCancelled
  <2>4. Moved(Run, label, loc[Run]) /\ Fits(Run, label, loc[Run])
    BY <1>0, <2>1, <2>3, SameRecord DEF Moved, Goto, Fits, Labels, Between
  <2> QED
    BY <2>1, <2>2, <2>4, SameRecord, MoveProgress
<1>6. CASE Exit
  <2>1. PICK err \in {"canceled", NoErr} : c' = StopLocked(c, err)
    BY <1>6 DEF Exit
  <2>2. err \in Errors
    BY DEF Errors, TransientErrors
  <2>3. c' \in ClientState /\ QuietStep(c, c') /\ c'.current = NoSession
    BY <2>1, <2>2, StopStep
  <2>4. Moved(Run, "done", loc[Run]) /\ pc[Run] = "exit"
    BY <1>6 DEF Exit, Moved, Goto
  <2>5. Fits(Run, "done", loc[Run])
    BY <1>0, <2>3, <2>4 DEF Fits, Labels, Between
  <2>6. SharedTypes'
    BY <1>6, SharedUnchanged DEF Exit
  <2> QED
    BY <2>3, <2>4, <2>5, <2>6, MoveProgress
<1> QED
  BY <1>1, <1>2, <1>3, <1>4, <1>5, <1>6

-----------------------------------------------------------------------------
(* the heartbeat, Reconnect and the user *)

\* The heartbeat goroutine.
LEMMA BeatProgress ==
  ASSUME StreamInv, BeatTick \/ BeatStop \/ BeatWritten
  PROVE  Progress
<1> USE Names, StreamFacts
<1>0. /\ loc[Beat] \in Locals /\ loc[Beat].payload = NoPayload
      /\ Beat \notin Owners
      /\ pc[Beat] \in SessionLabels => loc[Beat].s \in Sessions
      /\ pc[Beat] # "off" => loc[Run].s \in Sessions
      /\ NoLocals \in Locals /\ NoLocals.payload = NoPayload
  BY DEF LocalsAgree, GoroutineTypes, Returned, NoLocals, Locals, Errors
<1>1. CASE BeatTick
  <2> DEFINE r == [NoLocals EXCEPT !.s = loc[Run].s]
  <2>1. UNCHANGED c /\ pc[Beat] = "idle"
    BY <1>1 DEF BeatTick
  <2>2. r \in Locals /\ r.s \in Sessions /\ r.payload = NoPayload
    BY <1>0, <2>1 DEF Locals, NoLocals, Errors
  <2>3. Moved(Beat, "wgate", r)
    BY <1>1 DEF BeatTick, Moved, Goto
  <2>4. Fits(Beat, "wgate", r)
    BY <1>0, <2>1, <2>2 DEF Fits, Labels
  <2>5. SharedTypes'
    BY <1>1 DEF BeatTick, SharedTypes, GoroutineTypes, history, gates
  <2> HIDE DEF r
  <2> QED
    BY <2>1, <2>3, <2>4, <2>5, SameRecord, MoveProgress
<1>2. CASE BeatStop
  <2>1. UNCHANGED c /\ pc[Beat] = "idle" /\ Moved(Beat, "off", loc[Beat])
    BY <1>2 DEF BeatStop, Moved, Goto
  <2>2. Fits(Beat, "off", loc[Beat])
    BY <1>0, <2>1 DEF Fits, Labels, SessionLabels
  <2>3. SharedTypes'
    BY <1>2, SharedUnchanged DEF BeatStop
  <2> QED
    BY <2>1, <2>2, <2>3, SameRecord, MoveProgress
<1>3. CASE BeatWritten
  <2>1. pc[Beat] = "written" /\ loc[Beat].s \in Sessions /\ loc[Beat].err \in Errors
    BY <1>0, <1>3 DEF BeatWritten, SessionLabels, Locals
  <2>2. c' \in ClientState /\ QuietStep(c, c')
    <3>1. CASE c' = Discard(c, loc[Beat].s, loc[Beat].err)
      BY <2>1, <3>1, DiscardStep
    <3>2. CASE UNCHANGED c
      BY <3>2, SameRecord
    <3> QED
      BY <1>3, <3>1, <3>2 DEF BeatWritten
  <2>3. PICK label \in {"idle", "off"} : Goto(Beat, label)
    BY <1>3 DEF BeatWritten
  <2>4. Moved(Beat, label, NoLocals)
    BY <1>3, <2>3 DEF BeatWritten, Moved, Goto
  <2>5. Fits(Beat, label, NoLocals)
    BY <1>0, <2>1 DEF Fits, Labels, SessionLabels
  <2>6. SharedTypes'
    BY <1>3, SharedUnchanged DEF BeatWritten
  <2> QED
    BY <2>2, <2>4, <2>5, <2>6, MoveProgress
<1> QED
  BY <1>1, <1>2, <1>3

\* A caller is on its way to a label at which it works on no session.
LEMMA CallerFits ==
  ASSUME StreamInv, NEW p \in Writers \union Waiters,
         NEW label \in {"idle", "check", "parked"}, NEW r \in Locals
  PROVE  Fits(p, label, r)
BY Names DEF Fits, Labels, SessionLabels

\* A caller's entry counts the call.
LEMMA EnterTypes ==
  ASSUME StreamInv, NEW p \in Writers \union Waiters, Enter(p),
         UNCHANGED << ticks, history, gates >>
  PROVE  SharedTypes'
BY StreamFacts DEF Enter, SharedTypes, GoroutineTypes, history, gates

\* Fresh local variables are well typed.
LEMMA NoLocalsType == NoLocals \in Locals /\ NoLocals.payload = NoPayload
BY DEF NoLocals, Locals, Errors

\* Callers of Reconnect.
LEMMA ReconnectProgress ==
  ASSUME StreamInv, NEW p \in Waiters,
         \/ ReconnectCall(p) \/ ReconnectDiscard(p) \/ ReconnectCheck(p)
         \/ ReconnectWake(p) \/ ReconnectCancel(p)
  PROVE  Progress
<1> USE Names, StreamFacts
<1>0. loc[p] \in Locals /\ (pc[p] = "rediscard" => loc[p].s \in Sessions)
  BY DEF LocalsAgree, GoroutineTypes, SessionLabels
<1>1. CASE ReconnectCall(p)
  <2> DEFINE r == [NoLocals EXCEPT !.s = c.current, !.generation = c.generation]
  <2>1. UNCHANGED c
    BY <1>1 DEF ReconnectCall
  <2>2. SharedTypes'
    BY <1>1, EnterTypes DEF ReconnectCall
  <2>3. r \in Locals /\ r.s = c.current
    BY DEF Locals, NoLocals, Errors, ClientState
  <2>4. CASE c.stopped
    BY <1>1, <2>1, <2>2, <2>4, SameRecord, StillProgress DEF ReconnectCall
  <2>5. CASE ~ c.stopped /\ c.current = NoSession
    <3>1. Moved(p, "check", r)
      BY <1>1, <2>5 DEF ReconnectCall, Moved, Goto
    <3> HIDE DEF r
    <3> QED
      BY <2>1, <2>2, <2>3, <3>1, CallerFits, SameRecord, MoveProgress
  <2>6. CASE ~ c.stopped /\ c.current # NoSession
    <3>1. Moved(p, "rediscard", r)
      BY <1>1, <2>6 DEF ReconnectCall, Moved, Goto
    <3>2. r.s \in Sessions
      BY <2>3, <2>6 DEF ClientState
    <3> HIDE DEF r
    <3>3. Fits(p, "rediscard", r)
      BY <2>3, <3>2 DEF Fits, Labels
    <3> QED
      BY <2>1, <2>2, <3>1, <3>3, SameRecord, MoveProgress
  <2> QED
    BY <2>4, <2>5, <2>6
<1>2. CASE ReconnectDiscard(p)
  <2>1. pc[p] = "rediscard" /\ c' = Discard(c, loc[p].s, "manual")
    BY <1>2 DEF ReconnectDiscard
  <2>2. c' \in ClientState /\ QuietStep(c, c')
    BY <1>0, <2>1, DiscardStep DEF Errors, TransientErrors
  <2>3. Moved(p, "check", loc[p])
    BY <1>2 DEF ReconnectDiscard, Moved, Goto
  <2>4. SharedTypes'
    BY <1>2, SharedUnchanged DEF ReconnectDiscard
  <2> QED
    BY <1>0, <2>2, <2>3, <2>4, CallerFits, MoveProgress
<1>3. CASE ReconnectCheck(p)
  <2>1. SharedTypes'
    BY <1>3, SharedUnchanged DEF ReconnectCheck
  <2>2. CASE ReconnectEnds(p)
    <3>1. Moved(p, "idle", NoLocals) /\ UNCHANGED c
      BY <1>3, <2>2 DEF ReconnectCheck, Moved, Goto
    <3> QED
      BY <2>1, <3>1, NoLocalsType, CallerFits, SameRecord, MoveProgress
  <2>3. CASE ~ ReconnectEnds(p)
    <3>1. Moved(p, "parked", loc[p])
      BY <1>3, <2>3 DEF ReconnectCheck, Moved, Goto
    <3>2. c' \in ClientState /\ Same(c, c')
      <4>1. c' = [c EXCEPT !.waiting = c.waiting \union {p}]
        BY <1>3, <2>3 DEF ReconnectCheck
      <4>2. c.waiting \union {p} \in SUBSET Waiters
        BY DEF ClientState
      <4> QED
        BY <4>1, <4>2 DEF ClientState, Same
    <3> QED
      BY <1>0, <2>1, <3>1, <3>2, CallerFits, MoveProgress DEF QuietStep
  <2> QED
    BY <2>2, <2>3
<1>4. CASE ReconnectWake(p)
  <2>1. SharedTypes' /\ UNCHANGED c
    BY <1>4, SharedUnchanged DEF ReconnectWake
  <2>2. Moved(p, "check", loc[p])
    BY <1>4 DEF ReconnectWake, Moved, Goto
  <2> QED
    BY <1>0, <2>1, <2>2, CallerFits, SameRecord, MoveProgress
<1>5. CASE ReconnectCancel(p)
  <2>1. SharedTypes'
    BY <1>5, SharedUnchanged DEF ReconnectCancel
  <2>2. Moved(p, "idle", NoLocals)
    BY <1>5 DEF ReconnectCancel, Moved, Goto
  <2>3. c' \in ClientState /\ Same(c, c')
    BY <1>5 DEF ReconnectCancel, ClientState, Same
  <2> QED
    BY <2>1, <2>2, <2>3, NoLocalsType, CallerFits, MoveProgress DEF QuietStep
<1> QED
  BY <1>1, <1>2, <1>3, <1>4, <1>5

\* Close, the lifetime context and the receiver of events.
LEMMA UserProgress ==
  ASSUME StreamInv, Close \/ CancelLifetime \/ DrainEvent
  PROVE  Progress
<1> USE Names, StreamFacts
<1>0. SharedTypes' /\ UNCHANGED << pc, loc >>
  BY SharedUnchanged DEF Close, CancelLifetime, DrainEvent
<1>1. CASE Close
  BY <1>0, <1>1, StopStep, StillProgress DEF Close, Errors
<1>2. CASE CancelLifetime
  <2>1. c' \in ClientState /\ Same(c, c')
    BY <1>2 DEF CancelLifetime, ClientState, Same
  <2> QED
    BY <1>0, <2>1, StillProgress DEF QuietStep
<1>3. CASE DrainEvent
  <2>1. c.events - 1 \in 0 .. EventBufferSize
    BY <1>3, BufferAssumption DEF DrainEvent, ClientState
  <2>2. c' \in ClientState /\ Same(c, c')
    BY <1>3, <2>1 DEF DrainEvent, ClientState, Same
  <2> QED
    BY <1>0, <2>2, StillProgress DEF QuietStep
<1> QED
  BY <1>1, <1>2, <1>3

-----------------------------------------------------------------------------
(* The invariant that both clients keep *)

\* Every action of the goroutines that both clients share.
LEMMA StreamProgress ==
  ASSUME StreamInv, StreamNext
  PROVE  Progress
<1> USE Names
<1>1. CASE RunStep
  BY <1>1, DialProgress, ReadProgress, BetweenProgress, WriteProgress DEF RunStep
<1>2. CASE BeatStep
  BY <1>2, BeatProgress, WriteProgress DEF BeatStep
<1>3. CASE StreamEnvironment
  BY <1>3, ReadProgress, BeatProgress, UserProgress, ReconnectProgress
  DEF StreamEnvironment
<1>4. CASE \E p \in Waiters : ReconnectStep(p)
  BY <1>4, ReconnectProgress DEF ReconnectStep
<1> QED
  BY <1>1, <1>2, <1>3, <1>4 DEF StreamNext

\* A step that changes nothing.
LEMMA StutterProgress ==
  ASSUME StreamInv, UNCHANGED vars
  PROVE  Progress
BY SameRecord, SharedUnchanged, StillProgress DEF vars, history, gates

\* A new client has no session and no subscription.
LEMMA InitStreamInv == StreamInit => StreamInv
<1> SUFFICES ASSUME StreamInit PROVE StreamInv
  OBVIOUS
<1> USE DEF StreamInit
<1>1. c \in ClientState /\ c.frames = << >>
  BY NoPendingType, BufferAssumption
  DEF NewClient, ClientState, Phases, Errors, NoReply, Replies
<1>2. GoroutineTypes
  BY MaxSessionsAssumption
  DEF GoroutineTypes, Labels, NoLocals, Locals, Errors, Sessions
<1>3. StreamTypeOK /\ Len(c.frames) <= FrameBufferSize
  BY <1>1, <1>2, TypeParts, BufferAssumption
<1>4. Consistent(c)
  BY DEF NewClient, Consistent, StatusAgrees, SubscriptionAgrees, FramesAgree, Plain
<1>5. RunOwnsSession
  BY Names DEF RunOwnsSession, NewClient, NoLocals
<1>6. LocalsAgree
  BY Names DEF LocalsAgree, NoLocals, SessionLabels, Returned, SessionBound, Procs
<1> QED
  BY <1>3, <1>4, <1>5, <1>6 DEF StreamInv

\* What is shown of every action makes StreamInv inductive.
LEMMA ProgressStreamInv ==
  ASSUME StreamInv, Progress
  PROVE  StreamInv'
<1>1. c \in ClientState /\ Consistent(c) /\ Len(c.frames) <= FrameBufferSize
  BY StreamFacts DEF StreamInv
<1>2. c' \in ClientState /\ ClientStep(c, c')
  BY DEF Progress
<1>3. Consistent(c') /\ Len(c'.frames) <= FrameBufferSize
  BY <1>1, <1>2, StepConsistent, StepBounded
<1>4. StreamTypeOK'
  BY <1>2 DEF Progress, StreamTypeOK, GoroutineTypes
<1> QED
  BY <1>3, <1>4 DEF StreamInv, Progress

-----------------------------------------------------------------------------
(* What no step takes back *)

\* What no step takes back, and what the loss of the current session leaves
\* behind: a closed connection, a cancelled context and a cause.
Kept(x, y) ==
  /\ x.closed \subseteq y.closed /\ x.cancelled \subseteq y.cancelled
  /\ x.stopped => y.stopped
  /\ x.ctxDone => y.ctxDone
  /\ \A s \in Sessions : x.failure[s] # NoErr => y.failure[s] # NoErr
  /\ x.current # NoSession /\ y.current # x.current =>
       /\ x.current \in y.closed \intersect y.cancelled
       /\ y.stopped \/ y.failure[x.current] # NoErr

\* The fields that only the subscription code touches.
Aside(x, y) == y.restoring = x.restoring /\ y.saved = x.saved /\ y.reply = x.reply

\* What is kept by two steps is kept by their composition.
LEMMA KeptTwice ==
  ASSUME NEW x \in ClientState, NEW y \in ClientState, NEW z \in ClientState,
         Kept(x, y), Kept(y, z)
  PROVE  Kept(x, z)
BY DEF Kept, ClientState

\* Nothing changes: nothing is lost.
LEMMA KeptSame == ASSUME NEW x PROVE Kept(x, x) /\ Aside(x, x)
BY DEF Kept, Aside

\* stopLocked closes the current session.
LEMMA StopKept ==
  ASSUME NEW x \in ClientState, NEW err \in Errors
  PROVE  Kept(x, StopLocked(x, err)) /\ Aside(x, StopLocked(x, err))
BY DEF StopLocked, ClearLocked, CloseSession, SignalLocked, Kept, Aside, ClientState

\* An event is queued, or its overflow stops the client.
LEMMA EmitKept ==
  ASSUME NEW x \in ClientState
  PROVE  Kept(x, EmitLocked(x)) /\ Aside(x, EmitLocked(x))
<1>1. "event_full" \in Errors
  BY DEF Errors, TerminalErrors
<1>2. CASE x.stopped
  BY <1>2, KeptSame DEF EmitLocked
<1>3. CASE ~ x.stopped /\ x.events < EventBufferSize
  <2>1. EmitLocked(x) = [x EXCEPT !.events = @ + 1]
    BY <1>3 DEF EmitLocked
  <2> QED
    BY <2>1 DEF Kept, Aside, ClientState
<1>4. CASE ~ x.stopped /\ ~ (x.events < EventBufferSize)
  BY <1>1, <1>4, StopKept DEF EmitLocked
<1> QED
  BY <1>2, <1>3, <1>4

\* A session is closed together with its context.
LEMMA CloseKept ==
  ASSUME NEW x \in ClientState, NEW s \in Sessions
  PROVE  /\ Kept(x, CloseSession(x, s)) /\ Aside(x, CloseSession(x, s))
         /\ s \in CloseSession(x, s).closed \intersect CloseSession(x, s).cancelled
BY DEF CloseSession, Kept, Aside, ClientState, Sessions, NoSession

\* The first recorded cause of a session stays.
LEMMA SetFailureKept ==
  ASSUME NEW x \in ClientState, NEW s \in Sessions, NEW err \in Errors
  PROVE  /\ Kept(x, SetFailure(x, s, err)) /\ Aside(x, SetFailure(x, s, err))
         /\ err # NoErr => SetFailure(x, s, err).failure[s] # NoErr
BY DEF SetFailure, Kept, Aside, ClientState

\* discard closes its own session, and loses the current one only if it is that.
LEMMA DiscardKept ==
  ASSUME NEW x \in ClientState, NEW s \in Sessions, NEW err \in Errors, err # NoErr,
         Plain(x), x.stopped => x.current = NoSession
  PROVE  /\ Kept(x, Discard(x, s, err)) /\ Aside(x, Discard(x, s, err))
         /\ s \in Discard(x, s, err).closed \intersect Discard(x, s, err).cancelled
<1> DEFINE f == SetFailure(x, s, err)
           w == IF IsMaker THEN f ELSE ClearLocked(f)
           v == SignalLocked([w EXCEPT !.current = NoSession, !.phase = "reconnecting"])
           t == EmitLocked(v)
           d == Discard(x, s, err)
<1>0. s # NoSession
  BY MaxSessionsAssumption DEF Sessions, NoSession
<1>1. /\ f \in ClientState /\ Same(x, f) /\ Kept(x, f) /\ Aside(x, f)
      /\ f.failure[s] # NoErr
  BY SetFailureFacts, SetFailureKept
<1>2. CASE x.current # s
  <2>1. d = CloseSession(f, s)
    BY <1>2 DEF Discard
  <2> HIDE DEF f, d
  <2>2. /\ d \in ClientState /\ Kept(f, d) /\ Aside(f, d)
        /\ s \in d.closed \intersect d.cancelled
    BY <1>1, <2>1, CloseFacts, CloseKept
  <2> QED
    BY <1>1, <2>2, KeptTwice DEF Aside, d
<1>3. CASE x.current = s
  <2>1. d = CloseSession(t, s)
    BY <1>0, <1>3 DEF Discard
  <2> HIDE DEF f
  <2>2. w \in ClientState /\ Cleared(f, w)
    BY <1>1, ClearFacts DEF Plain, Same, Cleared, ClientState
  <2>3. /\ w.closed = f.closed /\ w.cancelled = f.cancelled /\ w.ctxDone = f.ctxDone
        /\ w.failure = f.failure /\ Aside(f, w)
    BY <1>1 DEF ClearLocked, Aside, ClientState
  <2> HIDE DEF w
  <2>4. /\ v \in ClientState /\ v.closed = f.closed /\ v.cancelled = f.cancelled
        /\ v.ctxDone = f.ctxDone /\ v.failure = f.failure /\ v.stopped = f.stopped
        /\ v.current = NoSession /\ Aside(f, v)
    BY <2>2, <2>3 DEF SignalLocked, Aside, Cleared, ClientState, Phases
  <2>5. Plain(v)
    BY <2>2 DEF Plain, SignalLocked, ClientState, Cleared
  <2> HIDE DEF v
  <2>6. t \in ClientState /\ Kept(v, t) /\ Aside(v, t)
    BY <2>4, <2>5, EmitFacts, EmitKept
  <2>7. t.current = NoSession
    BY <2>4, <2>5, <2>6, EmitFacts DEF Same, Halted
  <2> HIDE DEF t
  <2>8. /\ d \in ClientState /\ Kept(t, d) /\ Aside(t, d)
        /\ s \in d.closed \intersect d.cancelled
    BY <2>1, <2>6, CloseFacts, CloseKept
  <2> HIDE DEF d
  <2>9. Kept(v, d) /\ Aside(x, d)
    BY <1>1, <2>4, <2>6, <2>8, KeptTwice DEF Aside
  <2>10. Kept(x, d)
    BY <1>1, <1>3, <2>4, <2>8, <2>9 DEF Kept, Same, ClientState
  <2> QED
    BY <2>8, <2>9, <2>10 DEF d
<1> QED
  BY <1>2, <1>3

\* install replaces no session, and closes the one that it does not install.
LEMMA InstallKept ==
  ASSUME NEW x \in ClientState, NEW s \in Sessions, Plain(x), x.current = NoSession
  PROVE  /\ Kept(x, Install(x, s)) /\ Aside(x, Install(x, s))
         /\ ~ Installed(x, s) =>
              s \in Install(x, s).closed \intersect Install(x, s).cancelled
<1> DEFINE w == [x EXCEPT !.generation = @ + 1, !.sgen[s] = x.generation + 1,
                          !.current = s, !.phase = "connected"]
           v == SignalLocked(w)
           t == EmitLocked(v)
<1>1. CASE x.stopped \/ x.ctxDone
  BY <1>1, CloseKept DEF Install
<1>2. CASE ~ (x.stopped \/ x.ctxDone)
  <2>0. s # NoSession
    BY MaxSessionsAssumption DEF Sessions, NoSession
  <2>1. Install(x, s) = t
    BY <1>2 DEF Install
  <2>2. /\ v \in ClientState /\ v.closed = x.closed /\ v.cancelled = x.cancelled
        /\ v.ctxDone = x.ctxDone /\ v.failure = x.failure /\ v.stopped = x.stopped
        /\ v.current = s /\ Aside(x, v)
    <3>1. x.generation + 1 \in Nat
      BY DEF ClientState
    <3>2. [x.sgen EXCEPT ![s] = x.generation + 1] \in [Sessions -> Nat]
      BY <3>1 DEF ClientState
    <3>3. w \in ClientState
      BY <3>1, <3>2 DEF ClientState, Phases
    <3>4. /\ w.closed = x.closed /\ w.cancelled = x.cancelled
          /\ w.ctxDone = x.ctxDone /\ w.failure = x.failure /\ w.stopped = x.stopped
          /\ w.current = s /\ Aside(x, w)
      BY DEF ClientState, Aside
    <3> HIDE DEF w
    <3>5. v \in ClientState
      BY <3>3, SignalFacts
    <3>6. /\ v.closed = w.closed /\ v.cancelled = w.cancelled
          /\ v.ctxDone = w.ctxDone /\ v.failure = w.failure /\ v.stopped = w.stopped
          /\ v.current = w.current /\ Aside(w, v)
      BY <3>3 DEF SignalLocked, ClientState, Aside
    <3> HIDE DEF v
    <3> QED
      BY <3>4, <3>5, <3>6 DEF Aside
  <2> HIDE DEF v
  <2>3. Kept(v, t) /\ Aside(v, t)
    BY <2>2, EmitKept
  <2>4. ~ Installed(x, s) => t.stopped
    BY <1>2, <2>1 DEF Installed
  <2>5. t.stopped => t.current = NoSession
    BY <1>2, <2>2 DEF EmitLocked, StopLocked, SignalLocked, CloseSession, ClearLocked,
                      ClientState
  <2> HIDE DEF t
  <2> QED
    BY <2>0, <2>1, <2>2, <2>3, <2>4, <2>5 DEF Kept, Aside
<1> QED
  BY <1>1, <1>2

\* The start of a request touches no session.
LEMMA BeginKept ==
  ASSUME NEW x \in ClientState, NEW s, NEW o \in Owners, NEW request
  PROVE  LET y == BeginSubscription(x, s, o, request) IN
         /\ Kept(x, y) /\ y.restoring = x.restoring /\ y.saved = request
         /\ y.reply = [x.reply EXCEPT ![o] = NoReply]
         /\ y.pending = [ request |-> request, session |-> s,
                          revision |-> x.revision + 1, owner |-> o ]
         /\ y.revision = x.revision + 1 /\ y.current = x.current /\ ~ y.ready
         /\ y.frames = << >> /\ y.ctxDone = x.ctxDone /\ y.cancelled = x.cancelled
BY DEF BeginSubscription, SignalLocked, ClearLocked, Kept, ClientState

\* A step that begins, answers and installs nothing: the subscription is the one
\* it was, or it is gone together with its session.
Calm(x, y) ==
  /\ Kept(x, y) /\ Aside(x, y)
  /\ y.revision = x.revision
  /\ \/ /\ y.current = x.current /\ y.ready = x.ready
        /\ y.pending = x.pending /\ y.frames = x.frames
     \/ /\ y.current = NoSession /\ ~ y.ready
        /\ y.pending = NoPending /\ y.frames = << >>

\* Nothing changes: that is calm.
LEMMA CalmSame == ASSUME NEW x PROVE Calm(x, x)
BY KeptSame DEF Calm

\* Two calm steps are a calm step.
LEMMA CalmTwice ==
  ASSUME NEW x \in ClientState, NEW y \in ClientState, NEW z \in ClientState,
         Calm(x, y), Calm(y, z)
  PROVE  Calm(x, z)
<1>1. Kept(x, z)
  BY KeptTwice DEF Calm
<1> QED
  BY <1>1 DEF Calm, Aside

\* The small updates that actions make by themselves.
LEMMA SmallCalm ==
  ASSUME NEW x \in ClientState, NEW S
  PROVE  /\ Calm(x, [x EXCEPT !.ctxDone = TRUE])
         /\ Calm(x, [x EXCEPT !.waiting = S])
         /\ Calm(x, [x EXCEPT !.events = S])
         /\ Calm(x, [x EXCEPT !.closed = @ \union S])
BY DEF Calm, Kept, Aside, ClientState

\* stopLocked takes the subscription away with the session.
LEMMA StopCalm ==
  ASSUME NEW x \in ClientState, Plain(x), NEW err \in Errors
  PROVE  Calm(x, StopLocked(x, err))
<1>1. Kept(x, StopLocked(x, err)) /\ Aside(x, StopLocked(x, err))
  BY StopKept
<1>2. CASE x.stopped
  BY <1>2, StopAgain, CalmSame
<1>3. CASE ~ x.stopped
  BY <1>1, <1>3, StopFacts DEF Calm, Halted
<1> QED
  BY <1>2, <1>3

\* Closing a connection takes nothing from the record.
LEMMA CloseCalm ==
  ASSUME NEW x \in ClientState, NEW s \in Sessions
  PROVE  Calm(x, CloseSession(x, s))
BY CloseFacts, CloseKept DEF Calm, Same

\* Neither does recording a cause.
LEMMA SetFailureCalm ==
  ASSUME NEW x \in ClientState, NEW s \in Sessions, NEW err \in Errors
  PROVE  Calm(x, SetFailure(x, s, err))
BY SetFailureFacts, SetFailureKept DEF Calm, Same

\* An event that overflows its channel is a stop.
LEMMA EmitCalm ==
  ASSUME NEW x \in ClientState, Plain(x)
  PROVE  Calm(x, EmitLocked(x))
BY EmitFacts, EmitKept DEF Calm, Same, Halted

\* discard takes the subscription away, or touches neither.
LEMMA DiscardCalm ==
  ASSUME NEW x \in ClientState, NEW s \in Sessions, NEW err \in Errors, err # NoErr,
         Plain(x), x.stopped => x.current = NoSession
  PROVE  Calm(x, Discard(x, s, err))
<1> DEFINE d == Discard(x, s, err)
<1>1. Kept(x, d) /\ Aside(x, d)
  BY DiscardKept
<1>2. Same(x, d) \/ Lost(x, d) \/ Halted(x, d, "event_full")
  BY DiscardFacts
<1> HIDE DEF d
<1>3. Calm(x, d)
  BY <1>1, <1>2 DEF Calm, Same, Lost, Halted
<1> QED
  BY <1>3 DEF d

-----------------------------------------------------------------------------
(* The life of a session *)

\* runSession has returned, and the run loop has not left its session yet.
Leaving == {"join", "after", "leave", "discard"}

\* run serves no session: none is dialed, or the last one is closed.
Ended == Leaving \union {"new", "failed", "decide", "backoff", "dial", "exit", "done"}

(***************************************************************************)
(* The session that run holds is the one dialed last, every other one is   *)
(* closed, and the last one too once its read loop has returned; a         *)
(* terminal error is still in run's hands until the client stops; the      *)
(* heartbeat and restore goroutines live only inside runSession.           *)
(***************************************************************************)
LifeInv ==
  /\ loc[Run].s = dialed
  /\ pc[Run] \in Leaving \union {"teardown"} => loc[Run].err # NoErr
  /\ fatal \subseteq {dialed}
  /\ fatal # {} =>
       /\ pc[Run] \in Leaving \union {"decide", "exit", "done"}
       /\ pc[Run] \in Leaving \union {"decide"} => loc[Run].err \in TerminalErrors
  /\ \A s \in 1 .. dialed :
       s # dialed \/ pc[Run] \in Ended => s \in c.closed \intersect c.cancelled
  /\ pc[Run] \in Between \union {"after", "leave", "discard"} =>
       pc[Beat] = "off" /\ pc[Restore] = "off"

\* The cause with which a read loop ends is an error.
LEMMA ErrorNames ==
  /\ "transient" \in Errors /\ "manual" \in Errors /\ "canceled" \in Errors
  /\ "server" \in Errors /\ NoErr \in Errors /\ "transient" # NoErr
  /\ "manual" # NoErr /\ NoErr \notin TerminalErrors
  /\ \A err \in ReadErrors : err \in Errors /\ err # NoErr
BY StreamAssumption DEF Errors, TransientErrors, TerminalErrors, NoErr

\* write moves its own goroutine, within its session, and nothing else.
LEMMA WriteMoves ==
  ASSUME StreamInv, NEW p \in Procs \ Waiters, Write(p)
  PROVE  /\ pc[p] \in {"wgate", "write", "wrote"}
         /\ pc'[p] \in {"write", "wrote", "written"}
         /\ loc'[p].s = loc[p].s /\ loc'[p].payload = loc[p].payload
         /\ pc' = [pc EXCEPT ![p] = pc'[p]] /\ loc' = [loc EXCEPT ![p] = loc'[p]]
         /\ UNCHANGED << calls, ticks, history, subscribeGate, inbox, peer >>
<1>0. pc \in [Procs -> Labels] /\ loc \in [Procs -> Locals] /\ loc[p] \in Locals
  BY StreamFacts DEF GoroutineTypes
<1> USE DEF Goto, Locals, gates, network
<1>1. CASE WriteQueueTimeout(p) \/ WriteQueueDisconnected(p) \/ WriteTooLate(p)
  BY <1>0, <1>1
  DEF WriteQueueTimeout, WriteQueueDisconnected, WriteTooLate, WriteRefused
<1>2. CASE WriteStart(p)
  BY <1>0, <1>2 DEF WriteStart
<1>3. CASE WriteBytes(p)
  BY <1>0, <1>3 DEF WriteBytes
<1>4. CASE WriteOk(p)
  BY <1>0, <1>4 DEF WriteOk
<1>5. CASE WriteFail(p)
  BY <1>0, <1>5 DEF WriteFail
<1> QED
  BY <1>1, <1>2, <1>3, <1>4, <1>5 DEF Write

\* write changes the record calmly, unless it starts a subscription.
LEMMA WriteCalm ==
  ASSUME StreamInv, NEW p \in Procs \ Waiters, Write(p)
  PROVE  Calm(c, c') \/ (p \in Owners /\ WriteStart(p))
<1> USE Names, StreamFacts, ErrorNames
<1>1. CASE UNCHANGED c
  BY <1>1, CalmSame
<1>2. CASE WriteFail(p)
  <2>1. loc[p].s \in Sessions
    BY <1>2 DEF WriteFail, LocalsAgree, SessionLabels
  <2> QED
    BY <1>2, <2>1, DiscardCalm DEF WriteFail
<1> QED
  BY <1>1, <1>2
  DEF Write, WriteQueueTimeout, WriteQueueDisconnected, WriteTooLate, WriteRefused,
      WriteStart, WriteBytes, WriteOk

\* The heartbeat goroutine and the callers of Reconnect and Close.
LEMMA AroundCalm ==
  ASSUME StreamInv,
         \/ BeatStep \/ StreamEnvironment \/ \E p \in Waiters : ReconnectStep(p)
  PROVE  Calm(c, c')
<1> USE Names, StreamFacts, ErrorNames
<1>1. CASE UNCHANGED c
  BY <1>1, CalmSame
<1>2. CASE Write(Beat)
  <2>1. Beat \in Procs \ Waiters /\ Beat \notin Owners
    OBVIOUS
  <2> QED
    BY <1>2, <2>1, WriteCalm
<1>3. CASE BeatWritten
  <2>1. loc[Beat].s \in Sessions /\ loc[Beat].err \in Errors
    BY <1>3 DEF BeatWritten, LocalsAgree, SessionLabels, GoroutineTypes, Locals
  <2> QED
    BY <1>1, <1>3, <2>1, DiscardCalm DEF BeatWritten
<1>4. CASE Close \/ CancelLifetime \/ DrainEvent
  BY <1>4, StopCalm, SmallCalm DEF Close, CancelLifetime, DrainEvent
<1>5. ASSUME NEW p \in Waiters, ReconnectDiscard(p) PROVE Calm(c, c')
  <2>1. loc[p].s \in Sessions
    BY <1>5 DEF ReconnectDiscard, LocalsAgree, SessionLabels
  <2> QED
    BY <1>5, <2>1, DiscardCalm DEF ReconnectDiscard
<1>6. ASSUME NEW p \in Waiters, ReconnectCheck(p) \/ ReconnectCancel(p)
      PROVE  Calm(c, c')
  <2>1. UNCHANGED c \/ \E S : c' = [c EXCEPT !.waiting = S]
    BY <1>6 DEF ReconnectCheck, ReconnectCancel
  <2> QED
    BY <1>1, <2>1, SmallCalm
<1> QED
  BY <1>1, <1>2, <1>3, <1>4, <1>5, <1>6
  DEF BeatStep, BeatStop, StreamEnvironment, ReadFails, ReadPing, BeatTick,
      ReconnectCall, ReconnectStep, ReconnectWake

\* run, as long as it reserves and installs nothing.
LEMMA RunCalm ==
  ASSUME StreamInv, LifeInv, RunStep, ~ TakeSubscribeGate, ~ InstallFirst, ~ InstallNext
  PROVE  Calm(c, c')
<1> USE Names, StreamFacts, ErrorNames
<1>0. /\ loc[Run].err \in Errors
      /\ pc[Run] \notin {"new", "failed"} => loc[Run].s \in Sessions
  BY DEF LocalsAgree, GoroutineTypes, Locals
<1>1. CASE UNCHANGED c
  BY <1>1, CalmSame
<1>2. CASE Write(Run)
  <2>1. Run \in Procs \ Waiters /\ Run \notin Owners
    OBVIOUS
  <2> QED
    BY <1>2, <2>1, WriteCalm
<1>3. CASE DialFirstFails \/ CloseOnCancel
  BY <1>3, SmallCalm DEF DialFirstFails, CloseOnCancel
<1>4. CASE Teardown
  <2> DEFINE f == SetFailure(c, loc[Run].s, loc[Run].err)
  <2>1. c' = CloseSession(f, loc[Run].s) /\ loc[Run].s \in Sessions
    BY <1>0, <1>4 DEF Teardown
  <2>2. f \in ClientState /\ Calm(c, f)
    BY <1>0, <2>1, SetFailureFacts, SetFailureCalm
  <2> HIDE DEF f
  <2>3. c' \in ClientState /\ Calm(f, c')
    BY <2>1, <2>2, CloseFacts, CloseCalm
  <2> QED
    BY <2>2, <2>3, CalmTwice
<1>5. CASE LeaveSession \/ DecideRetry \/ Exit
  BY <1>0, <1>1, <1>5, StopCalm DEF LeaveSession, DecideRetry, Exit
<1>6. CASE DiscardSession
  BY <1>0, <1>6, DiscardCalm DEF DiscardSession, LifeInv, Leaving
<1>7. CASE DialNextFails
  <2>1. ASSUME NEW err \in DialErrors, c' = StopLocked(c, err) PROVE Calm(c, c')
    BY <2>1, StopCalm DEF DialErrors
  <2>2. ASSUME c' = SignalLocked(c) PROVE Calm(c, c')
    BY <2>2, SmallCalm DEF SignalLocked
  <2> QED
    BY <1>7, <2>1, <2>2 DEF DialNextFails
<1>8. CASE GateCancelled
  BY <1>0, <1>8, CloseCalm DEF GateCancelled
<1> QED
  BY <1>1, <1>2, <1>3, <1>4, <1>5, <1>6, <1>7, <1>8
  DEF RunStep, DialFirst, ReadClosed, PongWritten, Join, AfterSession, BackoffElapsed,
      BackoffCancelled, DialNext, Dialed

\* install keeps what is kept, and an uninstalled session is closed.
LEMMA InstallStep ==
  ASSUME StreamInv, InstallFirst \/ InstallNext
  PROVE  /\ Kept(c, c') /\ Aside(c, c')
         /\ pc'[Run] # "read" => loc[Run].s \in c'.closed \intersect c'.cancelled
<1> USE Names, StreamFacts
<1> DEFINE s == loc[Run].s
           i == Install(c, s)
<1>1. s \in Sessions /\ c.current = NoSession
  BY DEF InstallFirst, InstallNext, LocalsAgree, RunOwnsSession, Between
<1>2. /\ i \in ClientState /\ Kept(c, i) /\ Aside(c, i)
      /\ ~ Installed(c, s) => s \in i.closed \intersect i.cancelled
  BY <1>1, InstallFacts, InstallKept
<1>3. c' = i \/ c' = [i EXCEPT !.ctxDone = TRUE]
  BY DEF InstallFirst, InstallNext
<1>4. pc'[Run] # "read" => ~ Installed(c, s)
  BY DEF InstallFirst, InstallNext, StartSession, GoroutineTypes
<1> HIDE DEF i
<1>5. CASE c' = i
  BY <1>2, <1>4, <1>5
<1>6. CASE c' = [i EXCEPT !.ctxDone = TRUE]
  <2>1. Calm(i, c') /\ c' \in ClientState /\ c'.closed = i.closed
        /\ c'.cancelled = i.cancelled
    BY <1>2, <1>6, SmallCalm DEF ClientState
  <2> QED
    BY <1>2, <1>4, <2>1, KeptTwice DEF Calm, Aside
<1> QED
  BY <1>3, <1>5, <1>6

\* A step that leaves run where it is and only ends goroutines of its session.
LEMMA LifeElsewhere ==
  ASSUME StreamInv, LifeInv, c' \in ClientState, Kept(c, c'),
         pc'[Run] = pc[Run], loc'[Run] = loc[Run], UNCHANGED history,
         \A q \in {Beat, Restore} : pc[q] = "off" => pc'[q] = "off"
  PROVE  LifeInv'
BY StreamFacts DEF LifeInv, Kept, history

\* run goes to another label within the same session.
LEMMA LifeMoves ==
  ASSUME StreamInv, LifeInv, c' \in ClientState, Kept(c, c'), UNCHANGED history,
         NEW label, NEW r, Moved(Run, label, r), r.s = loc[Run].s,
         label \in Leaving \union {"teardown"} => r.err # NoErr,
         fatal # {} =>
           /\ label \in Leaving \union {"decide", "exit", "done"}
           /\ label \in Leaving \union {"decide"} => r.err \in TerminalErrors,
         label \in Ended => \/ pc[Run] \in Ended
                           \/ loc[Run].s \in c'.closed \intersect c'.cancelled,
         label \in Between \union {"after", "leave", "discard"} =>
           pc[Beat] = "off" /\ pc[Restore] = "off"
  PROVE  LifeInv'
<1> USE Names, StreamFacts
<1>1. /\ pc'[Run] = label /\ loc'[Run] = r /\ pc'[Beat] = pc[Beat]
      /\ pc'[Restore] = pc[Restore]
  BY DEF Moved, GoroutineTypes
<1>2. dialed' = dialed /\ fatal' = fatal
  BY DEF history
<1>3. (\A s \in 1 .. dialed :
         s # dialed \/ pc[Run] \in Ended => s \in c.closed \intersect c.cancelled)'
  BY <1>1, <1>2 DEF LifeInv, Kept
<1> QED
  BY <1>1, <1>2, <1>3 DEF LifeInv

\* The read loop ends with an error.
LEMMA EndReadLife ==
  ASSUME StreamInv, LifeInv, c' \in ClientState, Kept(c, c'), UNCHANGED history,
         pc[Run] \in {"read", "written"}, NEW err, err # NoErr, EndRead(err)
  PROVE  LifeInv'
<1> DEFINE r == [NoLocals EXCEPT !.s = loc[Run].s, !.err = err]
<1>1. Moved(Run, "teardown", r) /\ r.s = loc[Run].s /\ r.err = err
  BY DEF EndRead, Moved, Goto, NoLocals
<1>2. fatal = {}
  BY DEF LifeInv, Leaving
<1> HIDE DEF r
<1> QED
  BY <1>1, <1>2, LifeMoves DEF Leaving, Ended, Between

\* Every step of run keeps the account of its sessions.
LEMMA RunLife ==
  ASSUME StreamInv, LifeInv, RunStep \/ ReadFails \/ ReadPing,
         c' \in ClientState, Kept(c, c')
  PROVE  LifeInv'
<1> USE Names, StreamFacts, ErrorNames
<1>0. /\ loc[Run] \in Locals /\ loc[Run].err \in Errors
      /\ pc[Run] \notin {"new", "failed"} => loc[Run].s \in Sessions
      /\ pc \in [Procs -> Labels] /\ loc \in [Procs -> Locals]
  BY DEF LocalsAgree, GoroutineTypes, Locals
<1>1. CASE Write(Run)
  <2>0. Run \in Procs \ Waiters
    OBVIOUS
  <2>1. /\ pc[Run] \in {"wgate", "write", "wrote"}
        /\ pc'[Run] \in {"write", "wrote", "written"}
        /\ Moved(Run, pc'[Run], loc'[Run]) /\ loc'[Run].s = loc[Run].s
        /\ UNCHANGED history
    BY <1>1, <2>0, WriteMoves DEF Moved
  <2>2. fatal = {}
    BY <2>1 DEF LifeInv, Leaving
  <2> QED
    BY <2>1, <2>2, LifeMoves DEF Leaving, Ended, Between
<1>2. CASE DialFirst \/ DialNext
  <2>1. PICK label \in {"install_first", "gate", "install"} :
          Dialed(label) /\ pc[Run] \in {"new", "dial"}
    BY <1>2 DEF DialFirst, DialNext
  <2>2. /\ dialed' = dialed + 1 /\ UNCHANGED << c, fatal >> /\ pc'[Run] = label
        /\ pc'[Beat] = pc[Beat] /\ pc'[Restore] = pc[Restore]
        /\ loc'[Run].s = dialed + 1 /\ dialed \in Nat
    BY <1>0, <2>1 DEF Dialed, Goto, NoLocals, GoroutineTypes
  <2>3. fatal = {} /\ pc[Beat] = "off" /\ pc[Restore] = "off"
    BY <2>1 DEF LifeInv, Leaving, Between
  <2>4. \A s \in 1 .. dialed : s \in c.closed \intersect c.cancelled
    BY <2>1 DEF LifeInv, Ended
  <2> QED
    BY <2>2, <2>3, <2>4 DEF LifeInv, Leaving, Ended
<1>3. CASE DialFirstFails
  <2>1. Moved(Run, "failed", loc[Run]) /\ UNCHANGED history /\ pc[Run] = "new"
    BY <1>3 DEF DialFirstFails, Moved, Goto
  <2>2. fatal = {} /\ pc[Beat] = "off" /\ pc[Restore] = "off"
    BY <2>1 DEF LifeInv, Leaving, Between
  <2> QED
    BY <2>1, <2>2, LifeMoves DEF Leaving, Ended, Between
<1>4. CASE InstallFirst \/ InstallNext
  <2>1. /\ pc[Run] \in {"install_first", "install"}
        /\ pc'[Run] # "read" => loc[Run].s \in c'.closed \intersect c'.cancelled
        /\ UNCHANGED << loc, history >>
    BY <1>4, InstallStep DEF InstallFirst, InstallNext
  <2>2. fatal = {} /\ pc[Beat] = "off" /\ pc[Restore] = "off"
    BY <2>1 DEF LifeInv, Leaving, Between
  <2>3. \/ \E label \in {"failed", "exit"} : Moved(Run, label, loc[Run])
        \/ pc'[Run] = "read"
    BY <1>0, <1>4
    DEF InstallFirst, InstallNext, StartSession, Moved, Goto
  <2>4. CASE \E label \in {"failed", "exit"} : Moved(Run, label, loc[Run])
    <3>1. pc'[Run] # "read"
      BY <1>0, <2>4 DEF Moved
    <3> QED
      BY <2>1, <2>2, <2>4, <3>1, LifeMoves DEF Leaving, Ended, Between
  <2>5. CASE pc'[Run] = "read"
    <3>1. dialed' = dialed /\ fatal' = fatal /\ loc' = loc
      BY <2>1 DEF history
    <3>2. (\A s \in 1 .. dialed :
             s # dialed \/ pc[Run] \in Ended => s \in c.closed \intersect c.cancelled)'
      BY <2>5, <3>1 DEF LifeInv, Kept, Ended, Leaving
    <3> QED
      BY <2>2, <2>5, <3>1, <3>2 DEF LifeInv, Leaving, Between
  <2> QED
    BY <2>3, <2>4, <2>5
<1>5. CASE ReadFails \/ ReadClosed
  <2>1. PICK err : EndRead(err) /\ err # NoErr
    BY <1>5 DEF ReadFails, ReadClosed
  <2>2. UNCHANGED history /\ pc[Run] = "read"
    BY <1>5 DEF ReadFails, ReadClosed
  <2> QED
    BY <2>1, <2>2, EndReadLife
<1>6. CASE CloseOnCancel
  BY <1>6, LifeElsewhere DEF CloseOnCancel
<1>7. CASE ReadPing
  <2>1. Moved(Run, "wgate", loc[Run]) /\ UNCHANGED history /\ pc[Run] = "read"
    BY <1>7 DEF ReadPing, Moved, Goto
  <2>2. fatal = {}
    BY <2>1 DEF LifeInv, Leaving
  <2> QED
    BY <2>1, <2>2, LifeMoves DEF Leaving, Ended, Between
<1>8. CASE PongWritten
  <2>1. UNCHANGED history /\ pc[Run] = "written"
    BY <1>8 DEF PongWritten
  <2>2. CASE loc[Run].err = NoErr
    <3> DEFINE r == [NoLocals EXCEPT !.s = loc[Run].s]
    <3>1. Moved(Run, "read", r) /\ r.s = loc[Run].s
      BY <1>8, <2>2 DEF PongWritten, Moved, Goto, NoLocals
    <3>2. fatal = {}
      BY <2>1 DEF LifeInv, Leaving
    <3> HIDE DEF r
    <3> QED
      BY <2>1, <3>1, <3>2, LifeMoves DEF Leaving, Ended, Between
  <2>3. CASE loc[Run].err # NoErr
    BY <1>8, <2>1, <2>3, EndReadLife DEF PongWritten
  <2> QED
    BY <2>2, <2>3
<1>9. CASE Teardown
  <2> DEFINE f == SetFailure(c, loc[Run].s, loc[Run].err)
  <2>1. /\ c' = CloseSession(f, loc[Run].s) /\ loc[Run].s \in Sessions
        /\ pc[Run] = "teardown" /\ pc' = [pc EXCEPT ![Run] = "join"]
        /\ UNCHANGED << loc, dialed >>
        /\ fatal' = IF loc[Run].err \in TerminalErrors
                    THEN fatal \union {loc[Run].s} ELSE fatal
    BY <1>0, <1>9 DEF Teardown, Goto
  <2>2. f \in ClientState
    BY <1>0, <2>1, SetFailureFacts
  <2> HIDE DEF f
  <2>3. loc[Run].s \in c'.closed \intersect c'.cancelled
    BY <2>1, <2>2, CloseKept
  <2>4. fatal = {} /\ loc[Run].err # NoErr /\ loc[Run].s = dialed
    BY <2>1 DEF LifeInv, Leaving
  <2>5. pc'[Run] = "join"
    BY <1>0, <2>1
  <2>6. (\A s \in 1 .. dialed :
           s # dialed \/ pc[Run] \in Ended => s \in c.closed \intersect c.cancelled)'
    BY <2>1, <2>3, <2>4 DEF LifeInv, Kept
  <2> QED
    BY <2>1, <2>4, <2>5, <2>6 DEF LifeInv, Leaving, Between
<1>10. CASE Join
  <2>1. /\ Moved(Run, "after", loc[Run]) /\ UNCHANGED history /\ pc[Run] = "join"
        /\ pc[Beat] = "off" /\ pc[Restore] = "off"
    BY <1>10 DEF Join, Moved, Goto
  <2> QED
    BY <2>1, LifeMoves DEF Leaving, Ended, Between, LifeInv
<1>11. CASE AfterSession
  <2> DEFINE r == [loc[Run] EXCEPT !.err = Cause(c, loc[Run].s, loc[Run].err)]
  <2>1. PICK label \in {"exit", "leave"} : Moved(Run, label, r)
    BY <1>11 DEF AfterSession, Moved, Goto
  <2>2. UNCHANGED history /\ pc[Run] = "after"
    BY <1>11 DEF AfterSession
  <2>3. /\ r.s = loc[Run].s /\ r.err # NoErr
        /\ loc[Run].err \in TerminalErrors => r.err \in TerminalErrors
    BY <1>0, <2>2 DEF Cause, LifeInv, Leaving, Locals
  <2> HIDE DEF r
  <2> QED
    BY <2>1, <2>2, <2>3, LifeMoves DEF Leaving, Ended, Between, LifeInv
<1>12. CASE \/ LeaveSession \/ DiscardSession \/ DecideRetry \/ BackoffElapsed
            \/ BackoffCancelled \/ DialNextFails \/ Exit
  <2>1. pc[Run] \in {"leave", "discard", "decide", "backoff", "dial", "exit"}
    BY <1>12
    DEF LeaveSession, DiscardSession, DecideRetry, BackoffElapsed, BackoffCancelled,
        DialNextFails, Exit
  <2>2. \E label : /\ Moved(Run, label, loc[Run]) 
                   /\ \/ label = "exit" /\ pc[Run] # "exit"
                      \/ label = "discard" /\ pc[Run] = "leave"
                      \/ label = "decide" /\ pc[Run] = "discard"
                      \/ /\ label \in {"dial", "backoff"} 
                         /\ pc[Run] \in {"decide", "backoff", "dial"}
                         /\ pc[Run] = "decide" => loc[Run].err \notin TerminalErrors
                      \/ label = "done" /\ pc[Run] = "exit"
    BY <1>12
    DEF LeaveSession, DiscardSession, DecideRetry, BackoffElapsed, BackoffCancelled,
        DialNextFails, Exit, Moved, Goto, GiveUp
  <2>3. UNCHANGED history
    BY <1>12
    DEF LeaveSession, DiscardSession, DecideRetry, BackoffElapsed, BackoffCancelled,
        DialNextFails, Exit
  <2>4. pc[Beat] = "off" /\ pc[Restore] = "off"
    BY <2>1 DEF LifeInv, Between
  <2> QED
    BY <2>1, <2>2, <2>3, <2>4, LifeMoves DEF Leaving, Ended, Between, LifeInv
<1>13. CASE TakeSubscribeGate
  <2>1. Moved(Run, "install", loc[Run]) /\ UNCHANGED history /\ pc[Run] = "gate"
    BY <1>13 DEF TakeSubscribeGate, Moved, Goto
  <2> QED
    BY <2>1, LifeMoves DEF Leaving, Ended, Between, LifeInv
<1>14. CASE GateCancelled
  <2>1. /\ Moved(Run, "exit", loc[Run]) /\ UNCHANGED history /\ pc[Run] = "gate"
        /\ c' = CloseSession(c, loc[Run].s)
    BY <1>14 DEF GateCancelled, Moved, Goto
  <2>2. loc[Run].s \in c'.closed \intersect c'.cancelled
    BY <1>0, <2>1, CloseKept
  <2> QED
    BY <2>1, <2>2, LifeMoves DEF Leaving, Ended, Between, LifeInv
<1> QED
  BY <1>1, <1>2, <1>3, <1>4, <1>5, <1>6, <1>7, <1>8, <1>9, <1>10, <1>11, <1>12, <1>13,
     <1>14
  DEF RunStep

\* write loses nothing, in whichever goroutine.
LEMMA WriteKept ==
  ASSUME StreamInv, NEW p \in Procs \ Waiters, Write(p)
  PROVE  Kept(c, c')
<1>1. CASE Calm(c, c')
  BY <1>1 DEF Calm
<1>2. CASE p \in Owners /\ WriteStart(p)
  BY <1>2, BeginKept, StreamFacts DEF WriteStart
<1> QED
  BY <1>1, <1>2, WriteCalm

\* A write of a caller or of restore is no business of run's.
LEMMA WriteLife ==
  ASSUME StreamInv, LifeInv, NEW p \in Writers \union {Restore}, Write(p)
  PROVE  LifeInv'
<1> USE Names, StreamFacts
<1>1. p \in Procs \ Waiters
  BY ProcsAssumption
<1>2. /\ pc[p] \in {"wgate", "write", "wrote"}
      /\ pc' = [pc EXCEPT ![p] = pc'[p]] /\ loc' = [loc EXCEPT ![p] = loc'[p]]
      /\ UNCHANGED history
  BY <1>1, WriteMoves
<1>3. /\ pc'[Run] = pc[Run] /\ loc'[Run] = loc[Run]
      /\ \A q \in {Beat, Restore} : pc[q] = "off" => pc'[q] = "off"
  BY <1>2 DEF GoroutineTypes
<1>4. c' \in ClientState
  BY <1>1, WriteProgress DEF Progress
<1> QED
  BY <1>1, <1>2, <1>3, <1>4, WriteKept, LifeElsewhere

\* What both clients do keeps the account of the sessions.
LEMMA StreamLife ==
  ASSUME StreamInv, LifeInv, StreamNext
  PROVE  Kept(c, c') /\ LifeInv'
<1> USE Names, StreamFacts
<1>0. c' \in ClientState
  BY StreamProgress DEF Progress
<1>1. CASE RunStep
  <2>1. Kept(c, c')
    <3>1. CASE InstallFirst \/ InstallNext
      BY <3>1, InstallStep
    <3>2. CASE TakeSubscribeGate
      BY <3>2 DEF TakeSubscribeGate, Kept, ClientState
    <3> QED
      BY <1>1, <3>1, <3>2, RunCalm DEF Calm
  <2> QED
    BY <1>0, <1>1, <2>1, RunLife
<1>2. CASE ReadFails \/ ReadPing
  <2>1. Kept(c, c')
    BY <1>2, AroundCalm DEF Calm, StreamEnvironment
  <2> QED
    BY <1>0, <1>2, <2>1, RunLife
<1>3. CASE /\ ~ ReadFails /\ ~ ReadPing
           /\ BeatStep \/ StreamEnvironment \/ \E p \in Waiters : ReconnectStep(p)
  <2>1. Kept(c, c')
    BY <1>3, AroundCalm DEF Calm
  <2>2. /\ pc'[Run] = pc[Run] /\ loc'[Run] = loc[Run] /\ UNCHANGED history
        /\ \A q \in {Beat, Restore} : pc[q] = "off" => pc'[q] = "off"
    <3>0. pc \in [Procs -> Labels] /\ loc \in [Procs -> Locals]
      BY DEF GoroutineTypes
    <3>1. CASE Write(Beat)
      <4>1. Beat \in Procs \ Waiters
        OBVIOUS
      <4>2. /\ pc[Beat] \in {"wgate", "write", "wrote"}
            /\ pc' = [pc EXCEPT ![Beat] = pc'[Beat]]
            /\ loc' = [loc EXCEPT ![Beat] = loc'[Beat]] /\ UNCHANGED history
        BY <3>1, <4>1, WriteMoves
      <4> QED
        BY <3>0, <4>2
    <3>2. CASE BeatTick \/ BeatStop \/ BeatWritten
      BY <3>0, <3>2 DEF BeatTick, BeatStop, BeatWritten, Goto
    <3>3. CASE Close \/ CancelLifetime \/ DrainEvent
      BY <3>3 DEF Close, CancelLifetime, DrainEvent
    <3>4. ASSUME NEW p \in Waiters,
                 ReconnectCall(p) \/ ReconnectCancel(p) \/ ReconnectStep(p)
          PROVE  /\ pc'[Run] = pc[Run] /\ loc'[Run] = loc[Run] /\ UNCHANGED history
                 /\ pc'[Beat] = pc[Beat] /\ pc'[Restore] = pc[Restore]
      BY <3>0, <3>4
      DEF ReconnectCall, ReconnectCancel, ReconnectStep, ReconnectDiscard,
          ReconnectCheck, ReconnectWake, Goto
    <3> QED
      BY <1>3, <3>1, <3>2, <3>3, <3>4 DEF BeatStep, StreamEnvironment
  <2> QED
    BY <1>0, <2>1, <2>2, LifeElsewhere
<1> QED
  BY <1>1, <1>2, <1>3 DEF StreamNext

-----------------------------------------------------------------------------
(* The token of writeGate *)

\* Whoever writes has taken the token of the connection to which it writes.
GateInv == \A p \in Procs : pc[p] \in {"write", "wrote"} => ~ writeGate[loc[p].s]

\* A step with which no write starts and none ends.
NoNewWrite ==
  /\ UNCHANGED writeGate
  /\ \A p \in Procs : pc'[p] \in {"write", "wrote"} =>
                        pc'[p] = pc[p] /\ loc'[p] = loc[p]

\* Such a step leaves the tokens where they are.
LEMMA GateElsewhere ==
  ASSUME GateInv, OneWriter, NoNewWrite
  PROVE  GateInv' /\ OneWriter'
BY DEF GateInv, OneWriter, NoNewWrite

\* The token excludes a second writer.
LEMMA WriteGates ==
  ASSUME StreamInv, GateInv, OneWriter, NEW p \in Procs \ Waiters, Write(p)
  PROVE  GateInv' /\ OneWriter'
<1> USE Names, StreamFacts
<1>0. /\ pc \in [Procs -> Labels] /\ loc \in [Procs -> Locals]
      /\ writeGate \in [Sessions -> BOOLEAN] /\ loc[p].s \in Sessions
      /\ \A q \in Procs : pc[q] \in {"write", "wrote"} => loc[q].s \in Sessions
  BY WriteMoves DEF GoroutineTypes, LocalsAgree, SessionLabels
<1>1. /\ \A q \in Procs : q # p => pc'[q] = pc[q] /\ loc'[q] = loc[q]
      /\ loc'[p].s = loc[p].s
  BY <1>0, WriteMoves
<1>2. CASE UNCHANGED writeGate
  <2>1. pc'[p] \in {"write", "wrote"} => pc[p] \in {"write", "wrote"}
    BY <1>0, <1>2
    DEF Write, WriteQueueTimeout, WriteQueueDisconnected, WriteTooLate, WriteRefused,
        WriteStart, WriteBytes, WriteOk, WriteFail, Goto
  <2> QED
    BY <1>1, <1>2, <2>1 DEF GateInv, OneWriter
<1>3. CASE WriteStart(p)
  <2>1. /\ writeGate[loc[p].s] /\ pc'[p] = "write"
        /\ writeGate' = [writeGate EXCEPT ![loc[p].s] = FALSE]
    BY <1>0, <1>3 DEF WriteStart, Goto
  <2> QED
    BY <1>0, <1>1, <2>1 DEF GateInv, OneWriter
<1>4. CASE WriteOk(p) \/ WriteFail(p)
  <2>1. /\ pc[p] \in {"write", "wrote"} /\ pc'[p] = "written"
        /\ writeGate' = [writeGate EXCEPT ![loc[p].s] = TRUE]
    BY <1>0, <1>4 DEF WriteOk, WriteFail, ReleaseWriteGate, Goto
  <2> QED
    BY <1>0, <1>1, <2>1 DEF GateInv, OneWriter
<1> QED
  BY <1>2, <1>3, <1>4
  DEF Write, WriteQueueTimeout, WriteQueueDisconnected, WriteTooLate, WriteRefused,
      WriteBytes, gates

\* What both clients do respects the tokens.
LEMMA StreamGates ==
  ASSUME StreamInv, GateInv, OneWriter, StreamNext
  PROVE  GateInv' /\ OneWriter'
<1> USE Names, StreamFacts
<1>0. /\ pc \in [Procs -> Labels] /\ loc \in [Procs -> Locals]
      /\ Run \in Procs \ Waiters /\ Beat \in Procs \ Waiters
  BY DEF GoroutineTypes
<1>1. CASE Write(Run) \/ Write(Beat)
  BY <1>0, <1>1, WriteGates
<1>2. CASE \/ DialFirst \/ DialFirstFails \/ InstallFirst \/ DialNext \/ DialNextFails
           \/ TakeSubscribeGate \/ GateCancelled \/ InstallNext
  <2>1. NoNewWrite
    BY <1>0, <1>2
    DEF NoNewWrite, gates, DialFirst, DialFirstFails, InstallFirst, DialNext,
        DialNextFails, TakeSubscribeGate, GateCancelled, InstallNext, Dialed, Goto,
        StartSession
  <2> QED
    BY <2>1, GateElsewhere
<1>3. CASE \/ ReadClosed \/ CloseOnCancel \/ PongWritten \/ Teardown \/ Join \/ ReadFails
           \/ ReadPing
  <2>1. NoNewWrite
    BY <1>0, <1>3
    DEF NoNewWrite, gates, ReadClosed, CloseOnCancel, PongWritten, Teardown, Join,
        ReadFails, ReadPing, EndRead, Goto
  <2> QED
    BY <2>1, GateElsewhere
<1>4. CASE \/ AfterSession \/ LeaveSession \/ DiscardSession \/ DecideRetry
           \/ BackoffElapsed \/ BackoffCancelled \/ Exit
  <2>1. NoNewWrite
    BY <1>0, <1>4
    DEF NoNewWrite, gates, AfterSession, LeaveSession, DiscardSession, DecideRetry,
        BackoffElapsed, BackoffCancelled, Exit, Goto
  <2> QED
    BY <2>1, GateElsewhere
<1>5. CASE BeatTick \/ BeatStop \/ BeatWritten \/ Close \/ CancelLifetime \/ DrainEvent
  <2>1. NoNewWrite
    BY <1>0, <1>5
    DEF NoNewWrite, gates, BeatTick, BeatStop, BeatWritten, Close, CancelLifetime,
        DrainEvent, Goto
  <2> QED
    BY <2>1, GateElsewhere
<1>6. ASSUME NEW p \in Waiters, ReconnectCall(p) \/ ReconnectCancel(p) \/ ReconnectStep(p)
      PROVE  NoNewWrite
  BY <1>0, <1>6
  DEF NoNewWrite, gates, ReconnectCall, ReconnectCancel, ReconnectStep,
      ReconnectDiscard, ReconnectCheck, ReconnectWake, Goto
<1> QED
  BY <1>1, <1>2, <1>3, <1>4, <1>5, <1>6, GateElsewhere
  DEF StreamNext, RunStep, BeatStep, StreamEnvironment

-----------------------------------------------------------------------------
(* What the clients' own proofs use *)

\* Nothing is dialed and nobody writes in a new client.
LEMMA InitLife == StreamInit => LifeInv /\ GateInv /\ OneWriter
<1> SUFFICES ASSUME StreamInit PROVE LifeInv /\ GateInv /\ OneWriter
  OBVIOUS
<1>1. /\ pc[Run] = "new" /\ loc[Run] = NoLocals /\ dialed = 0 /\ fatal = {}
      /\ pc[Beat] = "off" /\ pc[Restore] = "off"
      /\ \A p \in Procs : pc[p] \notin {"write", "wrote"}
  BY Names DEF StreamInit, SessionBound
<1> QED
  BY <1>1 DEF LifeInv, GateInv, OneWriter, NoLocals, NoSession, Leaving

\* The account of the sessions implies that nothing is left behind ...
LEMMA LifeNoLeak == ASSUME StreamInv, LifeInv PROVE NoLeak
<1> USE StreamFacts
<1> SUFFICES ASSUME pc[Run] \in {"done", "failed"}
             PROVE  /\ 1 .. dialed \subseteq c.closed \intersect c.cancelled
                    /\ pc[Beat] = "off" /\ pc[Restore] = "off"
                    /\ c.current = NoSession /\ c.frames = << >>
  BY DEF NoLeak
<1>1. 1 .. dialed \subseteq c.closed \intersect c.cancelled
  BY DEF LifeInv, Ended
<1>2. c.current = NoSession
  BY DEF RunOwnsSession, Between
<1>3. c.frames = << >>
  BY <1>2, NoFramesWithoutSubscription DEF Consistent, SubscriptionAgrees
<1> QED
  BY <1>1, <1>2, <1>3 DEF LifeInv, Between

\* ... and that a terminal error of a read loop is the end.
LEMMA LifeFatal == LifeInv => NoSessionAfterFatal
BY DEF LifeInv, NoSessionAfterFatal

\* The callers of Subscribe and Publish move by themselves.
LEMMA WritersUntouched ==
  ASSUME StreamInv, StreamNext, NEW w \in Writers
  PROVE  pc'[w] = pc[w] /\ loc'[w] = loc[w] /\ calls'[w] = calls[w]
<1> USE Names, StreamFacts
<1>0. /\ pc \in [Procs -> Labels] /\ loc \in [Procs -> Locals] /\ w \in Procs
      /\ calls \in [Writers \union Waiters -> Nat] /\ w \notin Waiters
      /\ w \notin {Run, Beat, Restore} /\ {Run, Beat} \subseteq Procs \ Waiters
  BY ProcsAssumption DEF GoroutineTypes
<1>1. ASSUME NEW p \in {Run, Beat}, Write(p)
      PROVE  pc'[w] = pc[w] /\ loc'[w] = loc[w] /\ calls'[w] = calls[w]
  BY <1>0, <1>1, WriteMoves
<1>2. CASE \/ DialFirst \/ DialFirstFails \/ InstallFirst \/ DialNext \/ DialNextFails
           \/ TakeSubscribeGate \/ GateCancelled \/ InstallNext
  BY <1>0, <1>2
  DEF DialFirst, DialFirstFails, InstallFirst, DialNext, DialNextFails,
      TakeSubscribeGate, GateCancelled, InstallNext, Dialed, Goto, StartSession
<1>3. CASE \/ ReadClosed \/ CloseOnCancel \/ PongWritten \/ Teardown \/ Join \/ ReadFails
           \/ ReadPing
  BY <1>0, <1>3
  DEF ReadClosed, CloseOnCancel, PongWritten, Teardown, Join, ReadFails, ReadPing,
      EndRead, Goto
<1>4. CASE \/ AfterSession \/ LeaveSession \/ DiscardSession \/ DecideRetry
           \/ BackoffElapsed \/ BackoffCancelled \/ Exit
  BY <1>0, <1>4
  DEF AfterSession, LeaveSession, DiscardSession, DecideRetry, BackoffElapsed,
      BackoffCancelled, Exit, Goto
<1>5. CASE BeatTick \/ BeatStop \/ BeatWritten \/ Close \/ CancelLifetime \/ DrainEvent
  BY <1>0, <1>5
  DEF BeatTick, BeatStop, BeatWritten, Close, CancelLifetime, DrainEvent, Goto
<1>6. ASSUME NEW p \in Waiters, ReconnectCall(p) \/ ReconnectCancel(p) \/ ReconnectStep(p)
      PROVE  pc'[w] = pc[w] /\ loc'[w] = loc[w] /\ calls'[w] = calls[w]
  BY <1>0, <1>6
  DEF Enter, ReconnectCall, ReconnectCancel, ReconnectStep, ReconnectDiscard,
      ReconnectCheck, ReconnectWake, Goto
<1> QED
  BY <1>1, <1>2, <1>3, <1>4, <1>5, <1>6
  DEF StreamNext, RunStep, BeatStep, StreamEnvironment

=============================================================================
