------------------------------- MODULE Stream -------------------------------
(***************************************************************************)
(* The goroutines that Maker and Router share: client.run with its read    *)
(* loop, the heartbeat goroutine of a session, session.write as any        *)
(* goroutine performs it, callers of Reconnect and Close, and the          *)
(* cancellation of the lifetime context (src/internal/reconnect.go,        *)
(* connection.go, client.go, wire.go).                                     *)
(*                                                                         *)
(* A step is one critical section of client.mu, or one blocking operation  *)
(* (a select, a network call) with the critical section that follows it.   *)
(* Deadlines and network failures are nondeterministic: they may strike in *)
(* any state in which the code can observe them.  Taking a gate token is   *)
(* merged with the critical section after it, because until then the       *)
(* holder has done nothing that another goroutine can see.                 *)
(***************************************************************************)
EXTENDS Client

CONSTANTS
  Payloads,          \* what Writers write: requests or frames
  NoPayload,         \* a heartbeat: the server reads it and does nothing
  ReconnectDisabled, \* cfg.Reconnect.Policy = Disabled
  Disturbances,      \* what the user and the server may do besides, see below
  ReadErrors,        \* classes of errors that reading or dialing ends with
  MaxCalls,          \* bound: calls per caller
  MaxTicks           \* bound: heartbeat ticks over the life of the client

\* Goroutines whose write context is derived from the session's context.
SessionBound == {Run, Beat, Restore}
Procs == SessionBound \union Writers \union Waiters

ASSUME StreamAssumption ==
  /\ MaxCalls \in Nat
  /\ MaxTicks \in Nat
  /\ ReconnectDisabled \in BOOLEAN
  /\ ReadErrors \subseteq {"transient", "authentication", "protocol"}
  /\ Disturbances \subseteq {"close", "cancel", "ping", "error", "fault"}
ASSUME PayloadsAssumption == Requests \subseteq Payloads \/ IsMaker

VARIABLES
  c,             \* the record that client.mu protects
  pc,            \* where each goroutine is
  loc,           \* its local variables
  calls,         \* calls that each caller has made
  ticks,         \* heartbeat ticks so far
  dialed,        \* sessions dialed so far
  fatal,         \* history: sessions whose read loop ended with a terminal error
  subscribeGate, \* the token is in Router.subscribeGate
  writeGate,     \* per session: the token is in session.writeGate
  inbox,         \* messages of the live connection to the client, in order
  outbox,        \* messages of the live connection to the server, in order
  peer           \* the server's side of the live connection

vars ==
  << c, pc, loc, calls, ticks, dialed, fatal, subscribeGate, writeGate,
     inbox, outbox, peer >>

Locals ==
  [ s: Sessions \union {NoSession}, err: Errors, started: BOOLEAN,
    payload: Payloads \union {NoPayload}, revision: Nat, generation: Nat ]
NoLocals ==
  [ s |-> NoSession, err |-> NoErr, started |-> FALSE,
    payload |-> NoPayload, revision |-> 0, generation |-> 0 ]

\* The subscription that the server serves, and the last one it refused.
NoPeer == [ revision |-> 0, filters |-> {}, refused |-> 0 ]

Labels ==
  { "idle",                                              \* every caller
    "new", "install_first", "failed",                    \* DialRouter, DialMaker
    "read", "teardown", "join", "after", "leave",        \* runSession and run
    "discard", "decide", "backoff", "dial", "gate", "install", "exit", "done",
    "off",                                               \* no such goroutine now
    "wgate", "write", "wrote", "written",                \* write
    "sgate", "await", "expired",                         \* subscribe
    "load", "settle", "finish",                          \* restore
    "rediscard", "check", "parked" }                     \* Reconnect

StreamTypeOK ==
  /\ c \in ClientState
  /\ pc \in [Procs -> Labels]
  /\ loc \in [Procs -> Locals]
  /\ calls \in [Writers \union Waiters -> Nat]
  /\ ticks \in Nat
  /\ dialed \in 0 .. MaxSessions
  /\ fatal \subseteq Sessions
  /\ subscribeGate \in BOOLEAN
  /\ writeGate \in [Sessions -> BOOLEAN]

StreamInit ==
  /\ c = NewClient
  /\ pc = [p \in Procs |-> IF p = Run THEN "new"
                           ELSE IF p \in SessionBound THEN "off" ELSE "idle"]
  /\ loc = [p \in Procs |-> NoLocals]
  /\ calls = [p \in Writers \union Waiters |-> 0]
  /\ ticks = 0
  /\ dialed = 0
  /\ fatal = {}
  /\ subscribeGate = TRUE
  /\ writeGate = [s \in Sessions |-> TRUE]
  /\ inbox = << >>
  /\ outbox = << >>
  /\ peer = NoPeer

\* DialRouter or DialMaker has returned a client to its caller.
Returned == pc[Run] \notin {"new", "install_first", "failed"}

\* run has no session, or one that is not installed yet.
Between ==
  { "new", "install_first", "failed", "decide", "backoff", "dial", "gate",
    "install", "exit", "done" }

Goto(p, label) == pc' = [pc EXCEPT ![p] = label]

\* The caller counts the call and starts with fresh local variables.
Enter(p) ==
  /\ Returned
  /\ pc[p] = "idle"
  /\ calls[p] < MaxCalls
  /\ calls' = [calls EXCEPT ![p] = @ + 1]

history == << dialed, fatal >>
gates == << subscribeGate, writeGate >>
network == << inbox, outbox, peer >>

-----------------------------------------------------------------------------
(* write: serializes all data messages of one session *)

\* The call ends before the network write was attempted.
WriteRefused(p, err) ==
  /\ Goto(p, "written")
  /\ loc' = [loc EXCEPT ![p] = [@ EXCEPT !.err = err, !.started = FALSE]]
  /\ UNCHANGED << c, calls, ticks, history, gates, network >>

WriteQueueTimeout(p) ==
  /\ pc[p] = "wgate"
  /\ WriteRefused(p, "transient")

WriteQueueDisconnected(p) ==
  /\ pc[p] = "wgate"
  /\ SessionDone(c, loc[p].s)
  /\ WriteRefused(p, "transient")

\* The token is taken, and a check under mu finds the session gone.
WriteTooLate(p) ==
  /\ pc[p] = "wgate"
  /\ writeGate[loc[p].s]
  /\ ~ CanWrite(c, loc[p].s)
  /\ WriteRefused(p, "transient")

\* Fault: the writer does not wait for the token.
WriteStartUngated(p) ==
  /\ pc[p] = "wgate"
  /\ CanWrite(c, loc[p].s)
  /\ c' = IF p \in Owners THEN BeginSubscription(c, loc[p].s, p, loc[p].payload)
          ELSE c
  /\ writeGate' = [writeGate EXCEPT ![loc[p].s] = FALSE]
  /\ Goto(p, "write")
  /\ loc' = [loc EXCEPT ![p] = [@ EXCEPT
               !.revision = IF p \in Owners THEN c'.revision ELSE 0, !.started = TRUE]]
  /\ UNCHANGED << calls, ticks, history, subscribeGate, network >>

\* before() runs in the critical section in which the write starts.
WriteStart(p) ==
  /\ pc[p] = "wgate"
  /\ writeGate[loc[p].s]
  /\ CanWrite(c, loc[p].s)
  /\ c' = IF p \in Owners THEN BeginSubscription(c, loc[p].s, p, loc[p].payload)
          ELSE c
  /\ writeGate' = [writeGate EXCEPT ![loc[p].s] = FALSE]
  /\ Goto(p, "write")
  /\ loc' = [loc EXCEPT ![p] = [@ EXCEPT
               !.revision = IF p \in Owners THEN c'.revision ELSE 0, !.started = TRUE]]
  /\ UNCHANGED << calls, ticks, history, subscribeGate, network >>

\* The message leaves; only a connection that is open locally can carry it.
WriteBytes(p) ==
  /\ pc[p] = "write"
  /\ loc[p].s \notin c.closed
  /\ Goto(p, "wrote")
  /\ outbox' = IF loc[p].payload = NoPayload THEN outbox
               ELSE Append(outbox, [ payload |-> loc[p].payload,
                                     revision |-> loc[p].revision ])
  /\ UNCHANGED << c, loc, calls, ticks, history, gates, inbox, peer >>

ReleaseWriteGate(p) == writeGate' = [writeGate EXCEPT ![loc[p].s] = TRUE]

\* call.Err() for a context that the session's context cancels.
CallDone(p) == p \in SessionBound /\ SessionDone(c, loc[p].s)

WriteOk(p) ==
  /\ pc[p] = "wrote"
  /\ ~ CallDone(p)
  /\ Goto(p, "written")
  /\ loc' = [loc EXCEPT ![p].err = NoErr]
  /\ ReleaseWriteGate(p)
  /\ UNCHANGED << c, calls, ticks, history, subscribeGate, network >>

\* Fault: a write that is stuck in the network has no deadline.
WriteFailNoDeadline(p) ==
  /\ pc[p] = "wrote"
  /\ c' = Discard(c, loc[p].s, "transient")
  /\ loc' = [loc EXCEPT ![p].err = "transient"]
  /\ Goto(p, "written")
  /\ ReleaseWriteGate(p)
  /\ UNCHANGED << calls, ticks, history, subscribeGate, network >>

(***************************************************************************)
(* The connection fails, or the call's context ends while its bytes may    *)
(* or may not be out: the AfterFunc callback and write itself both call    *)
(* discard, and the second of two discards of a session changes nothing.   *)
(***************************************************************************)
WriteFail(p) ==
  /\ pc[p] \in {"write", "wrote"}
  /\ c' = Discard(c, loc[p].s, "transient")
  /\ loc' = [loc EXCEPT ![p].err = "transient"]
  /\ Goto(p, "written")
  /\ ReleaseWriteGate(p)
  /\ UNCHANGED << calls, ticks, history, subscribeGate, network >>

Write(p) ==
  \/ WriteQueueTimeout(p)
  \/ WriteQueueDisconnected(p)
  \/ WriteTooLate(p)
  \/ WriteStart(p)
  \/ WriteBytes(p)
  \/ WriteOk(p)
  \/ WriteFail(p)

-----------------------------------------------------------------------------
(* the heartbeat goroutine of runSession *)

BeatTick ==
  /\ pc[Beat] = "idle"
  /\ ticks < MaxTicks
  /\ ticks' = ticks + 1
  /\ Goto(Beat, "wgate")
  /\ loc' = [loc EXCEPT ![Beat] = [NoLocals EXCEPT !.s = loc[Run].s]]
  /\ UNCHANGED << c, calls, history, gates, network >>

BeatStop ==
  /\ pc[Beat] = "idle"
  /\ SessionDone(c, loc[Run].s)
  /\ Goto(Beat, "off")
  /\ UNCHANGED << c, loc, calls, ticks, history, gates, network >>

\* An error ends the goroutine, and the session unless it is ending already.
BeatWritten ==
  /\ pc[Beat] = "written"
  /\ Goto(Beat, IF loc[Beat].err = NoErr THEN "idle" ELSE "off")
  /\ c' = IF loc[Beat].err # NoErr /\ ~ SessionDone(c, loc[Beat].s)
          THEN Discard(c, loc[Beat].s, loc[Beat].err) ELSE c
  /\ loc' = [loc EXCEPT ![Beat] = NoLocals]
  /\ UNCHANGED << calls, ticks, history, gates, network >>

-----------------------------------------------------------------------------
(* DialRouter, DialMaker *)

\* dial succeeds: the connection exists and its writeGate holds the token.
Dialed(label) ==
  /\ dialed < MaxSessions
  /\ ~ c.ctxDone
  /\ dialed' = dialed + 1
  /\ loc' = [loc EXCEPT ![Run] = [NoLocals EXCEPT !.s = dialed + 1]]
  /\ Goto(Run, label)
  /\ UNCHANGED << c, calls, ticks, fatal, gates, network >>

DialFirst == pc[Run] = "new" /\ Dialed("install_first")

\* The constructor returns an error after c.cancel().
DialFirstFails ==
  /\ pc[Run] = "new"
  /\ Goto(Run, "failed")
  /\ c' = [c EXCEPT !.ctxDone = TRUE]
  /\ UNCHANGED << loc, calls, ticks, history, gates, network >>

\* runSession starts: heartbeat, and restoration if the flag is set.
StartSession(installed) ==
  [pc EXCEPT ![Run] = "read", ![Beat] = "idle",
             ![Restore] = IF installed.restoring THEN "load" ELSE "off"]

InstallFirst ==
  /\ pc[Run] = "install_first"
  /\ LET installed == Install(c, loc[Run].s)
     IN  IF Installed(c, loc[Run].s)
         THEN c' = installed /\ pc' = StartSession(installed)
         ELSE c' = [installed EXCEPT !.ctxDone = TRUE] /\ Goto(Run, "failed")
  /\ UNCHANGED << loc, calls, ticks, history, gates, network >>

-----------------------------------------------------------------------------
(* runSession: the read loop and its deferred teardown *)

\* runSession is in its read loop, or in the write of a pong inside it.
Reading == pc[Run] \in {"read", "wgate", "write", "wrote", "written"}

\* The read loop returns: err is the result of runSession.
EndRead(err) ==
  /\ Goto(Run, "teardown")
  /\ loc' = [loc EXCEPT ![Run] = [NoLocals EXCEPT !.s = loc[Run].s, !.err = err]]

\* The loop continues, or ends with the error a handler returned.
Handled(err) ==
  IF err = NoErr THEN UNCHANGED << pc, loc >> ELSE EndRead(err)

(***************************************************************************)
(* The network fails, the read deadline passes, the peer closes with a     *)
(* code that classifyReadError knows, or it sends an envelope that handle  *)
(* refuses whatever the state (not binary, undecodable, unexpected type).  *)
(***************************************************************************)
ReadFails ==
  /\ pc[Run] = "read"
  /\ \E err \in ReadErrors : EndRead(err)
  /\ UNCHANGED << c, calls, ticks, history, gates, network >>

\* The connection was closed locally; buffered messages may still be read.
ReadClosed ==
  /\ pc[Run] = "read"
  /\ loc[Run].s \in c.closed
  /\ EndRead("transient")
  /\ UNCHANGED << c, calls, ticks, history, gates, network >>

\* closeOnCancel: the AfterFunc of s.ctx closes the connection.
CloseOnCancel ==
  /\ Reading
  /\ SessionDone(c, loc[Run].s)
  /\ loc[Run].s \notin c.closed
  /\ c' = [c EXCEPT !.closed = @ \union {loc[Run].s}]
  /\ UNCHANGED << pc, loc, calls, ticks, history, gates, network >>

\* A ping makes the read loop itself write the pong.
ReadPing ==
  /\ pc[Run] = "read"
  /\ inbox # << >>
  /\ Head(inbox).kind = "ping"
  /\ inbox' = Tail(inbox)
  /\ Goto(Run, "wgate")
  /\ UNCHANGED << c, loc, calls, ticks, history, gates, outbox, peer >>

PongWritten ==
  /\ pc[Run] = "written"
  /\ IF loc[Run].err = NoErr
     THEN /\ Goto(Run, "read")
          /\ loc' = [loc EXCEPT ![Run] = [NoLocals EXCEPT !.s = loc[Run].s]]
     ELSE EndRead(loc[Run].err)
  /\ UNCHANGED << c, calls, ticks, history, gates, network >>

\* The read loop's cause is preserved before active writes are cancelled.
\* What is in flight on the connection is lost with it.
Teardown ==
  /\ pc[Run] = "teardown"
  /\ c' = CloseSession(SetFailure(c, loc[Run].s, loc[Run].err), loc[Run].s)
  /\ Goto(Run, "join")
  /\ inbox' = << >>
  /\ outbox' = << >>
  /\ peer' = NoPeer
  /\ fatal' = IF loc[Run].err \in TerminalErrors THEN fatal \union {loc[Run].s} ELSE fatal
  /\ UNCHANGED << loc, calls, ticks, dialed, gates >>

\* wg.Wait()
Join ==
  /\ pc[Run] = "join"
  /\ pc[Beat] = "off"
  /\ pc[Restore] = "off"
  /\ Goto(Run, "after")
  /\ UNCHANGED << c, loc, calls, ticks, history, gates, network >>

-----------------------------------------------------------------------------
(* run: what happens between two sessions *)

\* Fault: the first recorded failure wins, terminal or not.
CauseFirstFailure(c0, s, err) ==
  IF c0.failure[s] # NoErr THEN c0.failure[s] ELSE err

Cause(c0, s, err) ==
  IF c0.failure[s] # NoErr /\ err \notin TerminalErrors THEN c0.failure[s] ELSE err

AfterSession ==
  /\ pc[Run] = "after"
  /\ loc' = [loc EXCEPT ![Run].err = Cause(c, loc[Run].s, @)]
  /\ Goto(Run, IF c.stopped THEN "exit" ELSE "leave")
  /\ UNCHANGED << c, calls, ticks, history, gates, network >>

LeaveSession ==
  /\ pc[Run] = "leave"
  /\ IF c.ctxDone THEN c' = StopLocked(c, "canceled") /\ Goto(Run, "exit")
     ELSE UNCHANGED c /\ Goto(Run, "discard")
  /\ UNCHANGED << loc, calls, ticks, history, gates, network >>

DiscardSession ==
  /\ pc[Run] = "discard"
  /\ c' = Discard(c, loc[Run].s, loc[Run].err)
  /\ Goto(Run, "decide")
  /\ UNCHANGED << loc, calls, ticks, history, gates, network >>

GiveUp(err) == err \in TerminalErrors \/ (ReconnectDisabled /\ err # "manual")

\* A manual reconnect skips the first delay.
DecideRetry ==
  /\ pc[Run] = "decide"
  /\ IF GiveUp(loc[Run].err)
     THEN c' = StopLocked(c, loc[Run].err) /\ Goto(Run, "exit")
     ELSE /\ UNCHANGED c
          /\ Goto(Run, IF loc[Run].err = "manual" THEN "dial" ELSE "backoff")
  /\ UNCHANGED << loc, calls, ticks, history, gates, network >>

BackoffElapsed ==
  /\ pc[Run] = "backoff"
  /\ Goto(Run, "dial")
  /\ UNCHANGED << c, loc, calls, ticks, history, gates, network >>

BackoffCancelled ==
  /\ pc[Run] = "backoff"
  /\ c.ctxDone
  /\ Goto(Run, "exit")
  /\ UNCHANGED << c, loc, calls, ticks, history, gates, network >>

DialNext == pc[Run] = "dial" /\ Dialed(IF IsMaker THEN "install" ELSE "gate")

\* A context error hides every other error of dial.
DialErrors == IF c.ctxDone THEN {"canceled"} ELSE ReadErrors \union {"transient"}

DialNextFails ==
  /\ pc[Run] = "dial"
  /\ \E err \in DialErrors :
       IF err \in TerminalErrors
       THEN c' = StopLocked(c, err) /\ Goto(Run, "exit")
       ELSE /\ c' = SignalLocked(c)
            /\ Goto(Run, IF c.ctxDone THEN "exit" ELSE "backoff")
  /\ UNCHANGED << loc, calls, ticks, history, gates, network >>

\* Fault: the new session is exposed without reserving the sequencer.
TakeSubscribeGateUnreserved ==
  /\ pc[Run] = "gate"
  /\ c' = [c EXCEPT !.restoring = TRUE]
  /\ Goto(Run, "install")
  /\ UNCHANGED << loc, calls, ticks, history, gates, network >>

\* The subscription sequencer is reserved before the new session is exposed.
TakeSubscribeGate ==
  /\ pc[Run] = "gate"
  /\ subscribeGate
  /\ subscribeGate' = FALSE
  /\ c' = [c EXCEPT !.restoring = TRUE]
  /\ Goto(Run, "install")
  /\ UNCHANGED << loc, calls, ticks, history, writeGate, network >>

\* Fault: the connection that was just dialed is forgotten.
GateCancelledLeaks ==
  /\ pc[Run] = "gate"
  /\ c.ctxDone
  /\ Goto(Run, "exit")
  /\ UNCHANGED << c, loc, calls, ticks, history, gates, network >>

GateCancelled ==
  /\ pc[Run] = "gate"
  /\ c.ctxDone
  /\ c' = CloseSession(c, loc[Run].s)
  /\ Goto(Run, "exit")
  /\ UNCHANGED << loc, calls, ticks, history, gates, network >>

\* A failed install gives the token back; after success restore owns it.  A
\* Maker has no gate: the token never leaves.
InstallNext ==
  /\ pc[Run] = "install"
  /\ c' = Install(c, loc[Run].s)
  /\ IF Installed(c, loc[Run].s)
     THEN pc' = StartSession(c') /\ UNCHANGED subscribeGate
     ELSE Goto(Run, "exit") /\ subscribeGate' = TRUE
  /\ UNCHANGED << loc, calls, ticks, history, writeGate, network >>

\* The deferred function of run: closes the channels and done.
Exit ==
  /\ pc[Run] = "exit"
  /\ c' = StopLocked(c, IF c.ctxDone THEN "canceled" ELSE NoErr)
  /\ Goto(Run, "done")
  /\ UNCHANGED << loc, calls, ticks, history, gates, network >>

-----------------------------------------------------------------------------
(* Reconnect, Close, the lifetime context and the event consumer *)

ReconnectCall(p) ==
  /\ Enter(p)
  /\ IF c.stopped
     THEN UNCHANGED << pc, loc >>
     ELSE /\ Goto(p, IF c.current = NoSession THEN "check" ELSE "rediscard")
          /\ loc' = [loc EXCEPT ![p] = [NoLocals EXCEPT !.s = c.current,
                                                        !.generation = c.generation]]
  /\ UNCHANGED << c, ticks, history, gates, network >>

ReconnectDiscard(p) ==
  /\ pc[p] = "rediscard"
  /\ c' = Discard(c, loc[p].s, "manual")
  /\ Goto(p, "check")
  /\ UNCHANGED << loc, calls, ticks, history, gates, network >>

\* The condition for which Reconnect waits.
Reconnected(p) ==
  c.phase = "connected" /\ c.generation > loc[p].generation /\ ~ c.restoring

\* The loop of Reconnect is left.
ReconnectEnds(p) == c.stopped \/ Reconnected(p)

\* The state is read and the channel captured in one critical section.
ReconnectCheck(p) ==
  /\ pc[p] = "check"
  /\ IF ReconnectEnds(p)
     THEN /\ Goto(p, "idle")
          /\ loc' = [loc EXCEPT ![p] = NoLocals]
          /\ UNCHANGED c
     ELSE /\ Goto(p, "parked")
          /\ c' = [c EXCEPT !.waiting = @ \union {p}]
          /\ UNCHANGED loc
  /\ UNCHANGED << calls, ticks, history, gates, network >>

ReconnectWake(p) ==
  /\ pc[p] = "parked"
  /\ p \notin c.waiting
  /\ Goto(p, "check")
  /\ UNCHANGED << c, loc, calls, ticks, history, gates, network >>

\* The caller's context ends.
ReconnectCancel(p) ==
  /\ pc[p] = "parked"
  /\ c' = [c EXCEPT !.waiting = @ \ {p}]
  /\ Goto(p, "idle")
  /\ loc' = [loc EXCEPT ![p] = NoLocals]
  /\ UNCHANGED << calls, ticks, history, gates, network >>

\* Close then waits for done, see StopCompletes.
Close ==
  /\ "close" \in Disturbances
  /\ Returned
  /\ ~ c.stopped
  /\ c' = StopLocked(c, NoErr)
  /\ UNCHANGED << pc, loc, calls, ticks, history, gates, network >>

CancelLifetime ==
  /\ "cancel" \in Disturbances
  /\ ~ c.ctxDone
  /\ c' = [c EXCEPT !.ctxDone = TRUE]
  /\ UNCHANGED << pc, loc, calls, ticks, history, gates, network >>

\* The caller receives one event.
DrainEvent ==
  /\ c.events > 0
  /\ c' = [c EXCEPT !.events = @ - 1]
  /\ UNCHANGED << pc, loc, calls, ticks, history, gates, network >>

-----------------------------------------------------------------------------
(***************************************************************************)
(* Steps that a goroutine takes by itself: nothing it waits for has to     *)
(* come from the network or from the user.                                 *)
(***************************************************************************)
RunStep ==
  \/ DialFirst \/ DialFirstFails \/ InstallFirst
  \/ ReadClosed \/ CloseOnCancel \/ PongWritten
  \/ Teardown \/ Join \/ AfterSession \/ LeaveSession \/ DiscardSession
  \/ DecideRetry \/ BackoffElapsed \/ BackoffCancelled
  \/ DialNext \/ DialNextFails \/ TakeSubscribeGate \/ GateCancelled
  \/ InstallNext \/ Exit
  \/ Write(Run)

BeatStep == BeatStop \/ BeatWritten \/ Write(Beat)

ReconnectStep(p) ==
  ReconnectDiscard(p) \/ ReconnectCheck(p) \/ ReconnectWake(p)

\* Steps that the network, the clock or the user may take at any time.
StreamEnvironment ==
  \/ ReadFails \/ ReadPing \/ BeatTick
  \/ Close \/ CancelLifetime \/ DrainEvent
  \/ \E p \in Waiters : ReconnectCall(p) \/ ReconnectCancel(p)

StreamNext ==
  \/ RunStep \/ BeatStep \/ StreamEnvironment
  \/ \E p \in Waiters : ReconnectStep(p)

-----------------------------------------------------------------------------
(* Properties of both clients *)

\* Once stopped, the client keeps its first cause, its status and its empty
\* queue whatever stale goroutines of stopLocked's callers still do.
StopIsFinal ==
  [][c.stopped => /\ c'.stopped /\ c'.err = c.err /\ c'.phase = "stopped"
                  /\ c'.generation = c.generation /\ c'.revision = c.revision
                  /\ c'.current = NoSession /\ c'.frames = << >>]_vars

\* run owns the client, one session at a time: the current session is the one
\* that its read loop serves, and between two sessions there is none.
RunOwnsSession ==
  /\ c.current \in {NoSession, loc[Run].s}
  /\ pc[Run] \in Between => c.current = NoSession

\* What the status says agrees with the session that is current, after any
\* interleaving of discards, stops and installs.
StatusIsTrue == StatusAgrees(c)

\* A session stops being current only together with its own connection, and with
\* a recorded cause: a late discard of an older session does not touch it
\* (discard: "callbacks from an older session cannot discard a newer connection").
DroppedWithCause ==
  [][c.current # NoSession /\ c'.current # c.current =>
       /\ c.current \in c'.closed \intersect c'.cancelled
       /\ c'.stopped \/ c'.failure[c.current] # NoErr]_vars

\* No change escapes the consumer of the events, however slowly it receives: the step
\* that installs or loses a session, or that ends a pending request, queues an event
\* too, and when there is no room for it the client stops (emitRouterLocked).
ChangesAreReported ==
  [][\/ c'.stopped
     \/ c'.events = c.events + 1
     \/ /\ c'.phase = c.phase /\ c'.generation = c.generation
        /\ c'.ready => c.ready
        /\ c.pending # NoPending => c'.pending # NoPending]_vars

\* When run is done, every connection ever dialed is closed and the goroutines
\* of its session have exited ("closes after streaming has stopped and its
\* goroutines have exited", client.go).
NoLeak ==
  pc[Run] \in {"done", "failed"} =>
    /\ 1 .. dialed \subseteq c.closed \intersect c.cancelled
    /\ pc[Beat] = "off" /\ pc[Restore] = "off"
    /\ c.current = NoSession /\ c.frames = << >>

\* A websocket allows one writer at a time: subscriptions or frames, heartbeats
\* and the read loop's pongs never write to one connection together.
OneWriter ==
  \A p, q \in Procs :
    p # q /\ {pc[p], pc[q]} \subseteq {"write", "wrote"} => loc[p].s # loc[q].s

\* A terminal error of the read loop is not masked by a concurrent discard with
\* another cause: no later session is ever dialed.
NoSessionAfterFatal == \A s \in fatal : dialed = s

\* Close and the end of the lifetime context always bring run to its end.
StopCompletes == (Returned /\ c.ctxDone) ~> (pc[Run] = "done")

\* A caller of Reconnect learns of what it waits for: once the client has stopped, or
\* has a new session whose restoration is over, the caller returns unless that ceases
\* to hold first.  Every change is signalled to those who wait for it (signalLocked in
\* stopLocked, install, discard and restore).
ReconnectReturns ==
  \A p \in Waiters :
    (pc[p] # "idle" /\ ReconnectEnds(p)) ~> (pc[p] = "idle" \/ ~ ReconnectEnds(p))

=============================================================================
