-------------------------------- MODULE Maker --------------------------------
(***************************************************************************)
(* The Maker client: Publish callers, the handler of frame rejections and  *)
(* the server at the other end (src/internal/maker.go and the maker half   *)
(* of handle in wire.go).                                                  *)
(*                                                                         *)
(* The n-th call of publisher p publishes the frame <<p, n>>, so that a    *)
(* frame stands for one call of Publish.  wire and outcome are history     *)
(* variables: how often a frame went out, and what Publish reported.       *)
(***************************************************************************)
EXTENDS Stream

CONSTANT MaxInbox    \* bound: messages in flight to the client

ASSUME MakerAssumption ==
  IsMaker /\ MaxInbox \in Nat /\ Payloads = Writers \X (1 .. MaxCalls)

VARIABLES wire, outcome

makerVars == << vars, wire, outcome >>

Outcomes == {"none", "ok", "not_sent", "unknown"}

Init ==
  /\ StreamInit
  /\ wire = [f \in Payloads |-> 0]
  /\ outcome = [f \in Payloads |-> "none"]

-----------------------------------------------------------------------------
(* Publish *)

Return(p, frame, result) ==
  /\ Goto(p, "idle")
  /\ loc' = [loc EXCEPT ![p] = NoLocals]
  /\ outcome' = [outcome EXCEPT ![frame] = result]

\* Validation and marshaling fail, or the client has no session: nothing is sent.
PublishCall(p) ==
  /\ Enter(p)
  /\ LET frame == << p, calls[p] + 1 >> IN
       \/ Return(p, frame, "not_sent")
       \/ /\ ~ c.stopped
          /\ c.current # NoSession
          /\ Goto(p, "wgate")
          /\ loc' = [loc EXCEPT ![p] = [NoLocals EXCEPT !.s = c.current,
                                                        !.payload = frame]]
          /\ UNCHANGED outcome
  /\ UNCHANGED << c, ticks, history, gates, network, wire >>

\* Fault: every failure is reported as not sent.
PublishWrittenDenies(p) ==
  /\ pc[p] = "written"
  /\ Return(p, loc[p].payload, IF loc[p].err = NoErr THEN "ok" ELSE "not_sent")
  /\ UNCHANGED << c, calls, ticks, history, gates, network, wire >>

\* Fault: a frame whose write failed is published again on the next session.
PublishWrittenRetries(p) ==
  /\ pc[p] = "written"
  /\ IF loc[p].err # NoErr /\ c.current # NoSession
     THEN /\ Goto(p, "wgate")
          /\ loc' = [loc EXCEPT ![p].s = c.current]
          /\ UNCHANGED outcome
     ELSE Return(p, loc[p].payload,
            IF loc[p].err = NoErr THEN "ok"
            ELSE IF loc[p].started THEN "unknown" ELSE "not_sent")
  /\ UNCHANGED << c, calls, ticks, history, gates, network, wire >>

\* write returned: the outcome of a failure is whether writing had started.
PublishWritten(p) ==
  /\ pc[p] = "written"
  /\ Return(p, loc[p].payload,
       IF loc[p].err = NoErr THEN "ok"
       ELSE IF loc[p].started THEN "unknown" ELSE "not_sent")
  /\ UNCHANGED << c, calls, ticks, history, gates, network, wire >>

PublishWrite(p) ==
  /\ Write(p)
  /\ wire' = IF pc[p] = "write" /\ pc'[p] = "wrote"
             THEN [wire EXCEPT ![loc[p].payload] = @ + 1] ELSE wire
  /\ UNCHANGED outcome

PublishStep(p) == PublishWritten(p) \/ PublishWrite(p)

-----------------------------------------------------------------------------
(* The maker half of handle, and the server *)

\* A rejection is reported only while its session is current.
HandleFrameAck ==
  /\ pc[Run] = "read"
  /\ inbox # << >>
  /\ Head(inbox).kind = "frame_ack"
  /\ inbox' = Tail(inbox)
  /\ c' = IF c.current = loc[Run].s THEN EmitLocked(c) ELSE c
  /\ UNCHANGED << pc, loc, calls, ticks, history, gates, outbox, peer, wire, outcome >>

\* The server takes a frame and says nothing unless it rejects it.
ServerTakesFrame ==
  /\ Reading
  /\ outbox # << >>
  /\ outbox' = Tail(outbox)
  /\ \/ UNCHANGED inbox
     \/ Len(inbox) < MaxInbox /\ inbox' = Append(inbox, [ kind |-> "frame_ack" ])
  /\ UNCHANGED << c, pc, loc, calls, ticks, history, gates, peer, wire, outcome >>

ServerPing ==
  /\ "ping" \in Disturbances
  /\ Reading
  /\ Len(inbox) < MaxInbox
  /\ inbox' = Append(inbox, [ kind |-> "ping" ])
  /\ UNCHANGED << c, pc, loc, calls, ticks, history, gates, outbox, peer, wire, outcome >>

-----------------------------------------------------------------------------
Shared(action) == action /\ UNCHANGED << wire, outcome >>

Next ==
  \/ Shared(StreamNext)
  \/ \E p \in Writers : PublishCall(p) \/ PublishStep(p)
  \/ HandleFrameAck
  \/ ServerTakesFrame
  \/ ServerPing

Spec == Init /\ [][Next]_makerVars

\* As for the Router: deadlines and cancelled contexts end every wait.
Fairness ==
  /\ WF_makerVars(Shared(RunStep))
  /\ WF_makerVars(Shared(BeatStep))
  /\ \A p \in Writers : WF_makerVars(PublishStep(p))
  /\ \A p \in Waiters : WF_makerVars(Shared(ReconnectStep(p)))

FairSpec == Spec /\ Fairness

-----------------------------------------------------------------------------
(* Properties *)

\* What Publish reports is true of the wire: not_sent frames never went out
\* (constants.go: "failed before a network write was attempted"), and a frame
\* whose Publish succeeded did. Whatever failed around its write, no frame goes
\* out twice (Publish: "Frames are never replayed on reconnect").
OutcomeIsTruthful ==
  \A f \in Payloads : /\ outcome[f] = "not_sent" => wire[f] = 0
                      /\ outcome[f] = "ok" => wire[f] = 1
                      /\ wire[f] <= 1

\* Every Publish call returns: the queue for the writer counts against the same
\* deadline as the write.
PublishReturns == \A p \in Writers : (pc[p] # "idle") ~> (pc[p] = "idle")

\* Every call of a maker client returns, and a Reconnect caller as soon as the
\* client has what it waits for (ReconnectReturns): no wait of Publish outlives
\* its deadline and no signal to a parked Reconnect is lost.
CallsReturn == PublishReturns /\ ReconnectReturns

=============================================================================
