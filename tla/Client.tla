------------------------------- MODULE Client -------------------------------
(***************************************************************************)
(* The state that client.mu protects, and the critical sections that       *)
(* change it (src/internal/client.go, connection.go, subscription.go and   *)
(* quote.go).                                                              *)
(*                                                                         *)
(* The Go client is one record here.  Every method that runs under mu is   *)
(* an operator from records to records, so that one locked method can call *)
(* another exactly as the code does: Discard calls EmitLocked, which calls *)
(* StopLocked, which calls ClearLocked.  The state machines in Stream,     *)
(* Router and Maker apply one of these operators per atomic step.          *)
(*                                                                         *)
(* Sessions are numbered in the order in which they are dialed, and        *)
(* NoSession is Go's nil.  Errors are classes: the code only ever asks     *)
(* whether an error is terminal, a manual reconnect, a ServerErrorInfo or  *)
(* nil.  A filter is the set of frame keys it lets through.  Counters,     *)
(* status.Identity and status.LastError are reported to the caller and     *)
(* read by nothing else; they are left out.                                *)
(***************************************************************************)
EXTENDS Integers, Sequences

CONSTANTS
  IsMaker,           \* client.maker: a Maker client has no subscription state
  MaxSessions,       \* bound: successful dials of one client
  Keys,              \* FrameKey values
  NoPair,            \* the key of a frame message without a pair
  Requests,          \* complete filter lists that callers pass to Subscribe
  Writers,           \* goroutines of callers of Subscribe or Publish
  Waiters,           \* goroutines of callers of Reconnect
  EventBufferSize,   \* capacity of routerEvents or makerEvents
  FrameBufferSize    \* capacity of frames

Filters == SUBSET Keys

NoRequest == << >>   \* Router.saved = nil

ASSUME IsMakerAssumption == IsMaker \in BOOLEAN
ASSUME MaxSessionsAssumption == MaxSessions \in Nat
\* normalizeConnection and normalizeRouter turn a zero capacity into 256.
ASSUME BufferAssumption ==
  EventBufferSize \in Nat \ {0} /\ FrameBufferSize \in Nat \ {0}
ASSUME KeysAssumption == NoPair \notin Keys
\* validateSubscriptionFilters refuses an empty list.
ASSUME RequestsAssumption == Requests \subseteq Seq(Filters) \ {NoRequest}

\* The goroutines of the client itself.
Run == "run"
Beat == "heartbeat"
Restore == "restore"
\* Goroutines that may wait for a subscription reply.
Owners == IF IsMaker THEN {} ELSE Writers \union {Restore}
NoOwner == "nobody"

ASSUME ProcsAssumption ==
  /\ Writers \intersect Waiters = {}
  /\ (Writers \union Waiters) \intersect {Run, Beat, Restore, NoOwner} = {}

Sessions == 1 .. MaxSessions
NoSession == 0

Phases == {"connecting", "connected", "reconnecting", "stopped"}

NoErr == "nil"
\* The errors that terminalError recognises ...
TerminalErrors == {"protocol", "authentication", "event_full", "frame_full"}
\* ... and those that the retry loop may survive: errManualReconnect, a
\* ServerErrorInfo, ctx.Err(), ErrClosed, and every network failure, deadline
\* or ErrDisconnected, which the code treats alike.
TransientErrors == {"manual", "server", "canceled", "closed", "transient"}
Errors == TerminalErrors \union TransientErrors \union {NoErr}

Pendings ==
  [ request: Requests \union {NoRequest}, session: Sessions \union {NoSession},
    revision: Nat, owner: Owners \union {NoOwner} ]
NoPending ==
  [ request |-> NoRequest, session |-> NoSession, revision |-> 0, owner |-> NoOwner ]

(***************************************************************************)
(* A reply carries the revision the caller is told, and the history field  *)
(* answers: the revision of the request that the server really answered.   *)
(* The wire carries no revision, so no handler may branch on answers.      *)
(***************************************************************************)
Replies == [ full: BOOLEAN, err: Errors, revision: Nat, answers: Nat ]
NoReply == [ full |-> FALSE, err |-> NoErr, revision |-> 0, answers |-> 0 ]

\* A queued FrameUpdate; source is the history field that names the request
\* for which the server sent the frame.
FrameUpdates == [ key: Keys, generation: Nat, revision: Nat, source: Nat ]

ClientState ==
  [ phase: Phases,                     \* status.Phase
    generation: Nat,                   \* status.Generation
    revision: Nat,                     \* status.SubscriptionRevision
    stopped: BOOLEAN,
    err: Errors,
    current: Sessions \union {NoSession},
    ctxDone: BOOLEAN,                  \* ctx.Err() # nil
    events: 0 .. EventBufferSize,      \* len(routerEvents) or len(makerEvents)
    waiting: SUBSET Waiters,           \* receivers of the present channel changed
    cancelled: SUBSET Sessions,        \* session.cancel was called
    closed: SUBSET Sessions,           \* session.conn was closed locally
    failure: [Sessions -> Errors],     \* session.failure
    sgen: [Sessions -> Nat],           \* session.generation
    ready: BOOLEAN,
    restoring: BOOLEAN,
    accepted: SUBSET Filters,
    saved: Requests \union {NoRequest},
    pending: Pendings,
    reply: [Owners -> Replies],        \* pendingSubscription.reply, capacity one
    frames: Seq(FrameUpdates) ]

NewClient ==
  [ phase |-> "connecting", generation |-> 0, revision |-> 0,
    stopped |-> FALSE, err |-> NoErr,
    current |-> NoSession, ctxDone |-> FALSE, events |-> 0, waiting |-> {},
    cancelled |-> {}, closed |-> {},
    failure |-> [s \in Sessions |-> NoErr], sgen |-> [s \in Sessions |-> 0],
    ready |-> FALSE, restoring |-> FALSE, accepted |-> {},
    saved |-> NoRequest, pending |-> NoPending,
    reply |-> [o \in Owners |-> NoReply], frames |-> << >> ]

-----------------------------------------------------------------------------
(* client.go *)

\* close(c.changed) wakes every receiver; the new channel has none.
SignalLocked(c) == [c EXCEPT !.waiting = {}]

\* saved is the one field that survives.
ClearLocked(c) ==
  [c EXCEPT !.frames = << >>, !.ready = FALSE, !.accepted = {},
            !.pending = NoPending]

\* s.cancel() followed by s.conn.Close(); nothing happens for NoSession.
CloseSession(c, s) ==
  [c EXCEPT !.cancelled = @ \union ({s} \ {NoSession}),
            !.closed = @ \union ({s} \ {NoSession})]

\* Fault: callers parked in Reconnect are not woken.
StopLockedSilently(c, err) ==
  IF c.stopped THEN c
  ELSE LET cleared == IF IsMaker THEN c ELSE ClearLocked(c)
       IN  [CloseSession(cleared, c.current) EXCEPT
              !.stopped = TRUE, !.err = err, !.phase = "stopped",
              !.current = NoSession, !.ctxDone = TRUE,
              !.events = IF @ < EventBufferSize THEN @ + 1 ELSE @]

\* Only the first stop counts.  The final event is dropped when no slot is left.
StopLocked(c, err) ==
  IF c.stopped THEN c
  ELSE LET cleared == IF IsMaker THEN c ELSE ClearLocked(c)
       IN  SignalLocked(
             [CloseSession(cleared, c.current) EXCEPT
                !.stopped = TRUE, !.err = err, !.phase = "stopped",
                !.current = NoSession, !.ctxDone = TRUE,
                !.events = IF @ < EventBufferSize THEN @ + 1 ELSE @])

\* Fault: an event that finds no room is dropped.
EmitLockedDrops(c) ==
  IF c.stopped \/ c.events >= EventBufferSize THEN c ELSE [c EXCEPT !.events = @ + 1]

\* emitMakerLocked and emitRouterLocked: overflow stops the client.
EmitLocked(c) ==
  IF c.stopped THEN c
  ELSE IF c.events < EventBufferSize THEN [c EXCEPT !.events = @ + 1]
  ELSE StopLocked(c, "event_full")

StoppedError(c) == IF c.err # NoErr THEN c.err ELSE "closed"

-----------------------------------------------------------------------------
(* connection.go *)

\* Fault: s.ctx is derived from context.Background().
SessionDoneDetached(c, s) == s \in c.cancelled

\* s.ctx is a child of c.ctx.
SessionDone(c, s) == c.ctxDone \/ s \in c.cancelled

\* Fault: a stop between dial and install goes unnoticed.
InstallUnchecked(c, s) ==
  EmitLocked(SignalLocked(
    [c EXCEPT !.generation = @ + 1, !.sgen[s] = c.generation + 1,
              !.current = s, !.phase = "connected"]))

\* Fault: a reconnect keeps the generation.
InstallSameGeneration(c, s) ==
  IF c.stopped \/ c.ctxDone THEN CloseSession(c, s)
  ELSE EmitLocked(SignalLocked(
         [c EXCEPT !.sgen[s] = c.generation, !.current = s, !.phase = "connected"]))

\* Fault: callers parked in Reconnect are not told of the new session.
InstallSilently(c, s) ==
  IF c.stopped \/ c.ctxDone THEN CloseSession(c, s)
  ELSE EmitLocked([c EXCEPT !.generation = @ + 1, !.sgen[s] = c.generation + 1,
                            !.current = s, !.phase = "connected"])

Install(c, s) ==
  IF c.stopped \/ c.ctxDone THEN CloseSession(c, s)
  ELSE EmitLocked(SignalLocked(
         [c EXCEPT !.generation = @ + 1, !.sgen[s] = c.generation + 1,
                   !.current = s, !.phase = "connected"]))

\* The boolean that install returns.
Installed(c, s) == ~ c.stopped /\ ~ c.ctxDone /\ ~ Install(c, s).stopped

SetFailure(c, s, err) ==
  [c EXCEPT !.failure[s] = IF @ = NoErr THEN err ELSE @]

\* Fault: whichever session is current is invalidated.
DiscardUnchecked(c, s, err) ==
  LET failed == SetFailure(c, s, err)
      cleared == IF IsMaker THEN failed ELSE ClearLocked(failed)
      lost ==
        IF c.stopped THEN failed
        ELSE EmitLocked(SignalLocked([cleared EXCEPT !.current = NoSession,
                                                     !.phase = "reconnecting"]))
  IN  CloseSession(lost, s)

Discard(c, s, err) ==
  LET failed == SetFailure(c, s, err)
      lost ==
        IF c.current # s THEN failed
        ELSE IF c.stopped THEN [failed EXCEPT !.current = NoSession]
        ELSE LET cleared == IF IsMaker THEN failed ELSE ClearLocked(failed)
             IN  EmitLocked(SignalLocked(
                   [cleared EXCEPT !.current = NoSession,
                                   !.phase = "reconnecting"]))
  IN  CloseSession(lost, s)

\* The condition that write checks under mu before it starts writing.
CanWrite(c, s) == ~ c.stopped /\ c.current = s /\ ~ SessionDone(c, s)

-----------------------------------------------------------------------------
(* subscription.go and quote.go *)

\* Fault: the old subscription stays active until the acknowledgement.
BeginSubscriptionStillOpen(c, s, o, request) ==
  SignalLocked(
    [c EXCEPT
       !.revision = @ + 1, !.saved = request, !.reply[o] = NoReply,
       !.pending = [ request |-> request, session |-> s,
                     revision |-> c.revision + 1, owner |-> o ]])

\* The function that sendSubscription passes to write as before.
BeginSubscription(c, s, o, request) ==
  SignalLocked(
    [ClearLocked(c) EXCEPT
       !.revision = @ + 1, !.saved = request, !.reply[o] = NoReply,
       !.pending = [ request |-> request, session |-> s,
                     revision |-> c.revision + 1, owner |-> o ]])

\* A handler ignores a message of a session that is no longer current.
Stale(c, s) == c.current # s \/ c.stopped

AckFails(c, s, results) ==
  /\ ~ Stale(c, s)
  /\ \/ c.pending = NoPending
     \/ c.pending.session # s
     \/ Len(results) # Len(c.pending.request)

\* results is the list of verdicts, one per filter of the request, by position.
Ack(c, s, results, answers) ==
  IF Stale(c, s) \/ AckFails(c, s, results) THEN c
  ELSE LET p == c.pending
           emitted ==
             EmitLocked([c EXCEPT
               !.accepted = {p.request[i] : i \in {j \in DOMAIN results : results[j]}},
               !.ready = TRUE, !.pending = NoPending])
           reply ==
             IF emitted.stopped
             THEN [NoReply EXCEPT !.full = TRUE, !.err = StoppedError(emitted)]
             ELSE [ full |-> TRUE, err |-> NoErr, revision |-> p.revision,
                    answers |-> answers ]
       IN  SignalLocked([emitted EXCEPT !.reply[p.owner] = reply])

\* subscribe_request_too_large without a pending request is a protocol error.
TooLargeFails(c, s) == ~ Stale(c, s) /\ c.pending = NoPending

TooLarge(c, s) ==
  IF Stale(c, s) \/ TooLargeFails(c, s) THEN c
  ELSE EmitLocked([c EXCEPT
         !.pending = NoPending,
         !.reply[c.pending.owner] = [NoReply EXCEPT !.full = TRUE, !.err = "server"]])

\* Every other error code is only reported.
OtherServerError(c, s) == IF Stale(c, s) THEN c ELSE EmitLocked(c)

MatchesLocked(c, key) == \E f \in c.accepted : key \in f

\* Pre-ack updates are discarded, never staged.
Dropped(c, s) == Stale(c, s) \/ ~ c.ready

\* The error that update returns.
UpdateError(c, s, key) ==
  IF Dropped(c, s) THEN NoErr
  ELSE IF key = NoPair THEN "protocol"
  ELSE IF MatchesLocked(c, key) /\ Len(c.frames) >= FrameBufferSize THEN "frame_full"
  ELSE NoErr

\* Fault: the frame channel has no limit.
UpdateUnbounded(c, s, key, source) ==
  IF Dropped(c, s) \/ key = NoPair \/ ~ MatchesLocked(c, key) THEN c
  ELSE [c EXCEPT !.frames = Append(@,
         [ key |-> key, generation |-> c.sgen[s], revision |-> c.revision,
           source |-> source ])]

\* Fault: the server is trusted to send only what the filters let through.
UpdateUnfiltered(c, s, key, source) ==
  IF Dropped(c, s) \/ key = NoPair THEN c
  ELSE IF Len(c.frames) >= FrameBufferSize THEN StopLocked(c, "frame_full")
  ELSE [c EXCEPT !.frames = Append(@,
         [ key |-> key, generation |-> c.sgen[s], revision |-> c.revision,
           source |-> source ])]

Update(c, s, key, source) ==
  IF Dropped(c, s) \/ key = NoPair \/ ~ MatchesLocked(c, key) THEN c
  ELSE IF Len(c.frames) >= FrameBufferSize THEN StopLocked(c, "frame_full")
  ELSE [c EXCEPT !.frames = Append(@,
         [ key |-> key, generation |-> c.sgen[s], revision |-> c.revision,
           source |-> source ])]

-----------------------------------------------------------------------------
(* What the fields of the record mean together *)

\* The client is connected exactly while a session is current, and that session
\* is the one of the present generation.
StatusAgrees(c) ==
  /\ c.stopped <=> c.phase = "stopped"
  /\ c.phase = "connected" <=> c.current # NoSession
  /\ c.current # NoSession => c.sgen[c.current] = c.generation

\* A subscription belongs to the current session; the pending request is the
\* newest one, and delivery is paused while it waits.
SubscriptionAgrees(c) ==
  /\ c.ready => c.current # NoSession
  /\ c.pending # NoPending =>
       /\ c.current # NoSession
       /\ c.pending.session = c.current
       /\ c.pending.revision = c.revision
       /\ c.pending.owner \in Owners
       /\ ~ c.ready

\* Every queued frame is of the present generation and revision and passes the
\* accepted filters.
FramesAgree(c) ==
  \A i \in DOMAIN c.frames :
    /\ c.ready
    /\ c.frames[i].generation = c.generation
    /\ c.frames[i].revision = c.revision
    /\ MatchesLocked(c, c.frames[i].key)

=============================================================================
