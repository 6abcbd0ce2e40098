----------------------------- MODULE MakerProofs -----------------------------
(***************************************************************************)
(* Theorems about Maker for every number of sessions, publishers and       *)
(* calls.                                                                  *)
(*                                                                         *)
(* MakerInv adds to what both clients share the account of the frames:     *)
(* where a call of Publish stands determines how often its frame went out. *)
(*                                                                         *)
(* The last part is about the delay of run, which both clients have.       *)
(***************************************************************************)
EXTENDS Maker, Backoff, StreamProofs

\* A frame whose Publish has not been called is nowhere.
FutureInv ==
  \A f \in Payloads : f[2] > calls[f[1]] => wire[f] = 0 /\ outcome[f] = "none"

\* A call that is under way has not reported, and its frame went out once it is
\* past the write and before that never.
CallInv(p) ==
  /\ pc[p] \in {"idle", "wgate", "write", "wrote", "written"}
  /\ pc[p] # "idle" =>
       /\ calls[p] \in 1 .. MaxCalls /\ loc[p].payload = << p, calls[p] >>
       /\ outcome[<< p, calls[p] >>] = "none"
  /\ pc[p] \in {"wgate", "write"} => wire[<< p, calls[p] >>] = 0
  /\ pc[p] \in {"write", "wrote"} => loc[p].started
  /\ pc[p] = "wrote" => wire[<< p, calls[p] >>] = 1
  /\ pc[p] = "written" => /\ ~ loc[p].started => wire[<< p, calls[p] >>] = 0
                          /\ loc[p].err = NoErr => wire[<< p, calls[p] >>] = 1

PublishInv ==
  /\ wire \in [Payloads -> Nat] /\ outcome \in [Payloads -> Outcomes]
  /\ FutureInv
  /\ \A p \in Writers : CallInv(p)
  /\ OutcomeIsTruthful

MakerInv ==
  /\ StreamInv /\ LifeInv /\ GateInv /\ OneWriter
  /\ PublishInv

\* A Maker owns no requests, and a frame is a publisher with a number.
LEMMA MakerNames ==
  /\ Owners = {} /\ IsMaker
  /\ \A p \in Writers : \A n \in 1 .. MaxCalls : << p, n >> \in Payloads
  /\ \A f \in Payloads : /\ f[1] \in Writers /\ f[2] \in 1 .. MaxCalls
                         /\ f = << f[1], f[2] >>
BY MakerAssumption DEF Owners

-----------------------------------------------------------------------------
(* The actions that only a Maker has *)

\* What is shown of each: a step of the record that loses nothing, leaves run
\* alone and starts no write.
Aloof ==
  /\ Progress
  /\ Kept(c, c')
  /\ pc'[Run] = pc[Run] /\ loc'[Run] = loc[Run] /\ UNCHANGED history
  /\ \A q \in {Beat, Restore} : pc'[q] = pc[q]
  /\ NoNewWrite

\* Publish before and after its write.
LEMMA PublishAloof ==
  ASSUME StreamInv, NEW p \in Writers, PublishCall(p) \/ PublishWritten(p)
  PROVE  Aloof
<1> USE Names, StreamFacts, MakerNames
<1>0. /\ pc \in [Procs -> Labels] /\ loc \in [Procs -> Locals] /\ p \in Procs
      /\ p \notin {Run, Beat, Restore} /\ p \notin Owners
  BY DEF GoroutineTypes
<1>1. UNCHANGED << c, history, gates >>
  BY DEF PublishCall, PublishWritten
<1>2. SharedTypes'
  <2>1. CASE PublishCall(p)
    BY <2>1, EnterTypes DEF PublishCall
  <2>2. CASE PublishWritten(p)
    BY <2>2, SharedUnchanged DEF PublishWritten
  <2> QED
    BY <2>1, <2>2
<1>3. \E label \in {"idle", "wgate"} : \E r \in Locals :
        /\ Moved(p, label, r)
        /\ label = "wgate" => r.s \in Sessions
  <2>1. CASE Moved(p, "idle", NoLocals)
    BY <2>1, NoLocalsType
  <2>2. ASSUME PublishCall(p), ~ Moved(p, "idle", NoLocals)
        PROVE  \E r \in Locals : Moved(p, "wgate", r) /\ r.s \in Sessions
    <3> DEFINE frame == << p, calls[p] + 1 >>
               r == [NoLocals EXCEPT !.s = c.current, !.payload = frame]
    <3>1. /\ calls[p] < MaxCalls /\ c.current # NoSession
          /\ Moved(p, "wgate", r)
      BY <2>2 DEF PublishCall, Return, Moved, Goto, Enter
    <3>2. calls[p] \in Nat /\ MaxCalls \in Nat
      BY StreamAssumption DEF GoroutineTypes
    <3>3. frame \in Payloads
      BY <3>1, <3>2
    <3>4. c.current \in Sessions
      BY <3>1 DEF ClientState
    <3> HIDE DEF frame
    <3>5. r \in Locals /\ r.s = c.current
      BY <3>3, <3>4 DEF Locals, NoLocals, Errors
    <3> HIDE DEF r
    <3> QED
      BY <3>1, <3>4, <3>5
  <2> QED
    BY <2>1, <2>2 DEF PublishWritten, Return, Moved, Goto
<1>4. PICK label \in {"idle", "wgate"}, r \in Locals :
        Moved(p, label, r) /\ (label = "wgate" => r.s \in Sessions)
  BY <1>3
<1>5. Fits(p, label, r)
  BY <1>0, <1>4 DEF Fits, Labels, SessionLabels
<1>6. Progress
  BY <1>0, <1>1, <1>2, <1>4, <1>5, SameRecord, MoveProgress
<1>7. NoNewWrite
  BY <1>0, <1>1, <1>4 DEF NoNewWrite, Moved, gates
<1> QED
  BY <1>0, <1>1, <1>4, <1>6, <1>7, KeptSame DEF Aloof, Moved

\* The handler of rejections, and the server.
LEMMA NetworkAloof ==
  ASSUME StreamInv, HandleFrameAck \/ ServerTakesFrame \/ ServerPing
  PROVE  Aloof
<1> USE Names, StreamFacts
<1>1. UNCHANGED << pc, loc, calls, ticks, history, gates >>
  BY DEF HandleFrameAck, ServerTakesFrame, ServerPing
<1>2. c' = EmitLocked(c) \/ UNCHANGED c
  BY DEF HandleFrameAck, ServerTakesFrame, ServerPing
<1>3. c' \in ClientState /\ QuietStep(c, c') /\ Kept(c, c')
  <2>1. CASE UNCHANGED c
    BY <2>1, SameRecord, KeptSame
  <2>2. CASE c' = EmitLocked(c)
    BY <2>2, EmitFacts, EmitKept DEF QuietStep
  <2> QED
    BY <1>2, <2>1, <2>2
<1>4. Progress
  BY <1>1, <1>3, SharedUnchanged, StillProgress
<1> QED
  BY <1>1, <1>3, <1>4 DEF Aloof, NoNewWrite, gates

\* Every step is a step of the record that keeps the account of the sessions and
\* of the tokens.
LEMMA StepShared ==
  ASSUME StreamInv, LifeInv, GateInv, OneWriter, [Next]_makerVars
  PROVE  Progress /\ Kept(c, c') /\ LifeInv' /\ GateInv' /\ OneWriter'
<1> USE Names, StreamFacts
<1>1. CASE StreamNext
  BY <1>1, StreamProgress, StreamLife, StreamGates
<1>2. CASE Aloof
  <2>1. c' \in ClientState
    BY <1>2 DEF Aloof, Progress
  <2> QED
    BY <1>2, <2>1, LifeElsewhere, GateElsewhere DEF Aloof
<1>3. ASSUME NEW p \in Writers, PublishWrite(p)
      PROVE  Progress /\ Kept(c, c') /\ LifeInv' /\ GateInv' /\ OneWriter'
  <2>1. p \in Procs \ Waiters /\ Write(p)
    BY <1>3, ProcsAssumption DEF PublishWrite
  <2> QED
    BY <2>1, WriteProgress, WriteKept, WriteLife, WriteGates
<1>4. CASE UNCHANGED makerVars
  <2>1. UNCHANGED vars
    BY <1>4 DEF makerVars
  <2>2. Progress /\ Kept(c, c')
    BY <2>1, StutterProgress, KeptSame DEF vars
  <2> QED
    BY <2>1, <2>2
    DEF vars, LifeInv, GateInv, OneWriter
<1> QED
  BY <1>1, <1>2, <1>3, <1>4, PublishAloof, NetworkAloof DEF Next, Shared, PublishStep

-----------------------------------------------------------------------------
(* The frames *)

\* A step in which no caller of Publish moves.
LEMMA FramesElsewhere ==
  ASSUME PublishInv, UNCHANGED << wire, outcome >>,
         \A p \in Writers : pc'[p] = pc[p] /\ loc'[p] = loc[p] /\ calls'[p] = calls[p]
  PROVE  PublishInv'
<1>1. FutureInv'
  BY MakerNames DEF PublishInv, FutureInv
<1>2. (\A p \in Writers : CallInv(p))'
  BY DEF PublishInv, CallInv
<1> QED
  BY <1>1, <1>2 DEF PublishInv, OutcomeIsTruthful

\* A call begins: its frame is new.
LEMMA FramesCall ==
  ASSUME StreamInv, PublishInv, NEW p \in Writers, PublishCall(p)
  PROVE  PublishInv'
<1> USE Names, StreamFacts, MakerNames
<1> DEFINE n == calls[p] + 1
           f == << p, n >>
<1>0. /\ pc \in [Procs -> Labels] /\ loc \in [Procs -> Locals] /\ p \in Procs
      /\ calls \in [Writers \union Waiters -> Nat] /\ MaxCalls \in Nat
      /\ wire \in [Payloads -> Nat] /\ outcome \in [Payloads -> Outcomes]
  BY StreamAssumption DEF GoroutineTypes, PublishInv
<1>1. /\ pc[p] = "idle" /\ calls[p] < MaxCalls /\ UNCHANGED wire
      /\ calls' = [calls EXCEPT ![p] = n]
  BY DEF PublishCall, Enter
<1>2. f \in Payloads /\ n \in 1 .. MaxCalls
  BY <1>0, <1>1
<1>3. wire[f] = 0 /\ outcome[f] = "none"
  BY <1>0, <1>2 DEF PublishInv, FutureInv
<1>4. \/ /\ pc' = [pc EXCEPT ![p] = "idle"] /\ loc' = [loc EXCEPT ![p] = NoLocals]
         /\ outcome' = [outcome EXCEPT ![f] = "not_sent"]
      \/ /\ pc' = [pc EXCEPT ![p] = "wgate"]
         /\ loc' = [loc EXCEPT ![p] = [NoLocals EXCEPT !.s = c.current, !.payload = f]]
         /\ UNCHANGED outcome
  BY DEF PublishCall, Return, Goto
<1>5. /\ calls'[p] = n
      /\ \A q \in Writers : q # p => calls'[q] = calls[q] /\ pc'[q] = pc[q]
                                    /\ loc'[q] = loc[q]
  BY <1>0, <1>1, <1>4
<1>6. outcome' \in [Payloads -> Outcomes]
  BY <1>0, <1>4 DEF Outcomes
<1>7. \A g \in Payloads : outcome'[g] = IF g = f THEN outcome'[f] ELSE outcome[g]
  BY <1>0, <1>2, <1>4
<1>8. /\ \/ pc'[p] = "idle" /\ outcome'[f] = "not_sent"
         \/ pc'[p] = "wgate" /\ outcome'[f] = "none" /\ loc'[p].payload = f
  <2> HIDE DEF f
  <2>1. CASE pc' = [pc EXCEPT ![p] = "idle"] /\ outcome' = [outcome EXCEPT ![f] = "not_sent"]
    BY <1>0, <1>2, <2>1
  <2>2. ASSUME pc' = [pc EXCEPT ![p] = "wgate"], UNCHANGED outcome,
               loc' = [loc EXCEPT ![p] = [NoLocals EXCEPT !.s = c.current, !.payload = f]]
        PROVE  pc'[p] = "wgate" /\ outcome'[f] = "none" /\ loc'[p].payload = f
    BY <1>0, <1>3, <2>2 DEF NoLocals
  <2> QED
    BY <1>4, <2>1, <2>2
<1>9. FutureInv'
  <2> SUFFICES ASSUME NEW g \in Payloads, g[2] > calls'[g[1]]
               PROVE  wire'[g] = 0 /\ outcome'[g] = "none"
    BY DEF FutureInv
  <2>1. g # f /\ g[2] > calls[g[1]]
    BY <1>0, <1>5
  <2> QED
    BY <1>1, <1>7, <2>1 DEF PublishInv, FutureInv
<1>10. ASSUME NEW q \in Writers PROVE CallInv(q)'
  <2>1. CASE q = p
    BY <1>1, <1>2, <1>3, <1>5, <1>8, <2>1 DEF CallInv
  <2>2. CASE q # p
    <3>1. pc[q] # "idle" => outcome'[<< q, calls[q] >>] = outcome[<< q, calls[q] >>]
      BY <1>7, <2>2 DEF PublishInv, CallInv
    <3> QED
      BY <1>1, <1>5, <2>2, <3>1 DEF PublishInv, CallInv
  <2> QED
    BY <2>1, <2>2
<1>11. OutcomeIsTruthful'
  BY <1>1, <1>3, <1>7, <1>8 DEF PublishInv, OutcomeIsTruthful
<1> QED
  BY <1>0, <1>1, <1>6, <1>9, <1>10, <1>11 DEF PublishInv

\* A call ends: what it reports is what the write did.
LEMMA FramesWritten ==
  ASSUME StreamInv, PublishInv, NEW p \in Writers, PublishWritten(p)
  PROVE  PublishInv'
<1> USE Names, StreamFacts, MakerNames
<1> DEFINE f == << p, calls[p] >>
<1>0. /\ pc \in [Procs -> Labels] /\ loc \in [Procs -> Locals] /\ p \in Procs
      /\ wire \in [Payloads -> Nat] /\ outcome \in [Payloads -> Outcomes]
  BY DEF GoroutineTypes, PublishInv
<1>1. /\ pc[p] = "written" /\ loc[p].payload = f /\ calls[p] \in 1 .. MaxCalls
      /\ ~ loc[p].started => wire[f] = 0
      /\ loc[p].err = NoErr => wire[f] = 1
  BY DEF PublishWritten, PublishInv, CallInv
<1>2. f \in Payloads
  BY <1>1
<1>3. PICK result \in {"ok", "unknown", "not_sent"} :
        /\ outcome' = [outcome EXCEPT ![f] = result]
        /\ result = "ok" => loc[p].err = NoErr
        /\ result = "not_sent" => ~ loc[p].started
  BY <1>1 DEF PublishWritten, Return
<1>4. /\ pc' = [pc EXCEPT ![p] = "idle"] /\ loc' = [loc EXCEPT ![p] = NoLocals]
      /\ UNCHANGED << wire, calls >>
  BY DEF PublishWritten, Return, Goto
<1>5. outcome' \in [Payloads -> Outcomes]
  BY <1>0, <1>3 DEF Outcomes
<1>6. \A g \in Payloads : outcome'[g] = IF g = f THEN result ELSE outcome[g]
  BY <1>0, <1>2, <1>3
<1> HIDE DEF f
<1>7. FutureInv'
  <2>1. f[2] = calls[f[1]]
    BY DEF f
  <2>2. calls[p] \in Nat
    BY DEF GoroutineTypes
  <2>3. ~ (f[2] > calls[f[1]])
    BY <2>2 DEF f
  <2> QED
    BY <1>4, <1>6, <2>3 DEF PublishInv, FutureInv
<1>8. ASSUME NEW q \in Writers PROVE CallInv(q)'
  <2>1. CASE q = p
    BY <1>0, <1>4, <2>1 DEF CallInv
  <2>2. CASE q # p
    <3>1. pc[q] # "idle" => outcome'[<< q, calls[q] >>] = outcome[<< q, calls[q] >>]
      BY <1>6, <2>2 DEF PublishInv, CallInv, f
    <3> QED
      BY <1>0, <1>4, <2>2, <3>1 DEF PublishInv, CallInv
  <2> QED
    BY <2>1, <2>2
<1>9. OutcomeIsTruthful'
  BY <1>1, <1>3, <1>4, <1>6 DEF PublishInv, OutcomeIsTruthful
<1> QED
  BY <1>0, <1>4, <1>5, <1>7, <1>8, <1>9 DEF PublishInv

\* The write itself: the frame goes out in one step, and that step is taken once.
LEMMA FramesWrite ==
  ASSUME StreamInv, PublishInv, NEW p \in Writers, PublishWrite(p)
  PROVE  PublishInv'
<1> USE Names, StreamFacts, MakerNames
<1> DEFINE f == << p, calls[p] >>
           out == pc[p] = "write" /\ pc'[p] = "wrote"
<1>0. /\ pc \in [Procs -> Labels] /\ loc \in [Procs -> Locals] /\ p \in Procs
      /\ wire \in [Payloads -> Nat] /\ outcome \in [Payloads -> Outcomes]
      /\ p \in Procs \ Waiters /\ p \notin Owners /\ loc[p] \in Locals
  BY ProcsAssumption DEF GoroutineTypes, PublishInv
<1>1. /\ Write(p) /\ UNCHANGED outcome
      /\ wire' = IF out THEN [wire EXCEPT ![loc[p].payload] = @ + 1] ELSE wire
  BY DEF PublishWrite
<1>2. /\ pc[p] \in {"wgate", "write", "wrote"}
      /\ pc'[p] \in {"write", "wrote", "written"}
      /\ loc'[p].payload = loc[p].payload /\ UNCHANGED calls
      /\ \A q \in Writers : q # p => pc'[q] = pc[q] /\ loc'[q] = loc[q]
  BY <1>0, <1>1, WriteMoves
<1>3. /\ loc[p].payload = f /\ f \in Payloads /\ outcome[f] = "none"
      /\ calls[p] \in 1 .. MaxCalls
  BY <1>2 DEF PublishInv, CallInv
<1>4. /\ wire' \in [Payloads -> Nat]
      /\ \A g \in Payloads : wire'[g] = IF g = f /\ out THEN wire[f] + 1 ELSE wire[g]
  BY <1>0, <1>1, <1>3
<1>5. \/ /\ pc[p] = "wgate" /\ pc'[p] = "written" /\ ~ loc'[p].started
         /\ loc'[p].err # NoErr
      \/ pc[p] = "wgate" /\ pc'[p] = "write" /\ loc'[p].started
      \/ out /\ loc' = loc
      \/ pc[p] = "wrote" /\ pc'[p] = "written" /\ loc'[p].started = loc[p].started
      \/ /\ pc[p] = "write" /\ pc'[p] = "written" /\ loc'[p].started = loc[p].started
         /\ loc'[p].err # NoErr
  <2> USE DEF Goto, Locals, NoErr
  <2>1. CASE WriteQueueTimeout(p) \/ WriteQueueDisconnected(p) \/ WriteTooLate(p)
    <3> DEFINE r == [loc[p] EXCEPT !.err = "transient", !.started = FALSE]
    <3>1. pc[p] = "wgate" /\ WriteRefused(p, "transient")
      BY <2>1 DEF WriteQueueTimeout, WriteQueueDisconnected, WriteTooLate
    <3>2. pc'[p] = "written" /\ loc'[p] = r
      BY <1>0, <3>1 DEF WriteRefused
    <3>3. ~ r.started /\ r.err # NoErr
      BY <1>0
    <3> QED
      BY <3>1, <3>2, <3>3
  <2>2. CASE WriteStart(p)
    BY <1>0, <2>2 DEF WriteStart
  <2>3. CASE WriteBytes(p)
    BY <1>0, <2>3 DEF WriteBytes
  <2>4. CASE WriteOk(p)
    BY <1>0, <2>4 DEF WriteOk
  <2>5. CASE WriteFail(p)
    BY <1>0, <2>5 DEF WriteFail
  <2> QED
    BY <1>1, <2>1, <2>2, <2>3, <2>4, <2>5 DEF Write
<1> HIDE DEF out
<1>6. CallInv(p)'
  BY <1>1, <1>2, <1>3, <1>4, <1>5 DEF PublishInv, CallInv, out
<1>7. ASSUME NEW q \in Writers, q # p PROVE CallInv(q)'
  <2>1. << q, calls[q] >> # f
    BY <1>7
  <2>2. pc[q] # "idle" => wire'[<< q, calls[q] >>] = wire[<< q, calls[q] >>]
    BY <1>4, <1>7, <2>1 DEF PublishInv, CallInv
  <2> QED
    BY <1>1, <1>2, <1>7, <2>2 DEF PublishInv, CallInv
<1>8. FutureInv'
  <2>1. ~ (f[2] > calls[f[1]])
    BY <1>3
  <2> QED
    BY <1>1, <1>2, <1>4, <2>1 DEF PublishInv, FutureInv
<1>9. out => wire[f] = 0
  BY <1>2 DEF PublishInv, CallInv, out
<1>10. OutcomeIsTruthful'
  <2> HIDE DEF f
  <2>1. \A g \in Payloads : wire'[g] = wire[g] \/ (g = f /\ wire'[g] = 1)
    BY <1>0, <1>4, <1>9
  <2> QED
    BY <1>1, <1>3, <2>1 DEF PublishInv, OutcomeIsTruthful
<1> QED
  BY <1>0, <1>1, <1>4, <1>6, <1>7, <1>8, <1>10 DEF PublishInv

-----------------------------------------------------------------------------
(* Theorems *)

\* A new client satisfies the invariant.
LEMMA InitMakerInv == Init => MakerInv
<1> SUFFICES ASSUME Init PROVE MakerInv
  OBVIOUS
<1>1. StreamInv /\ LifeInv /\ GateInv /\ OneWriter
  BY InitStreamInv, InitLife DEF Init
<1>2. /\ wire = [f \in Payloads |-> 0] /\ outcome = [f \in Payloads |-> "none"]
      /\ \A p \in Writers : pc[p] = "idle"
  BY Names DEF Init, StreamInit, SessionBound
<1>3. PublishInv
  BY <1>2
  DEF PublishInv, FutureInv, CallInv, OutcomeIsTruthful, Outcomes
<1> QED
  BY <1>1, <1>3 DEF MakerInv

\* Every step preserves it.
LEMMA StepMakerInv == MakerInv /\ [Next]_makerVars => MakerInv'
<1> SUFFICES ASSUME MakerInv, [Next]_makerVars PROVE MakerInv'
  OBVIOUS
<1> USE DEF MakerInv
<1>1. StreamInv' /\ LifeInv' /\ GateInv' /\ OneWriter'
  BY StepShared, ProgressStreamInv
<1>2. PublishInv'
  <2>1. CASE Shared(StreamNext)
    BY <2>1, WritersUntouched, FramesElsewhere DEF Shared
  <2>2. CASE \E p \in Writers : PublishCall(p) \/ PublishStep(p)
    BY <2>2, FramesCall, FramesWritten, FramesWrite DEF PublishStep
  <2>3. CASE HandleFrameAck \/ ServerTakesFrame \/ ServerPing
    BY <2>3, FramesElsewhere DEF HandleFrameAck, ServerTakesFrame, ServerPing
  <2>4. CASE UNCHANGED makerVars
    BY <2>4, FramesElsewhere DEF makerVars, vars
  <2> QED
    BY <2>1, <2>2, <2>3, <2>4 DEF Next
<1> QED
  BY <1>1, <1>2

\* MakerInv holds in every reachable state.
THEOREM MakerInvariance == Spec => []MakerInv
BY InitMakerInv, StepMakerInv, PTL DEF Spec

\* Every variable that the Maker shares with the Router keeps its type.
THEOREM MakerTyping == Spec => []StreamTypeOK
<1>1. MakerInv => StreamTypeOK
  BY DEF MakerInv, StreamInv
<1> QED
  BY <1>1, MakerInvariance, PTL

\* Publish never reports "not sent" of a frame that went out, and never success
\* of one that did not, whatever timeout, discard or stop strikes during its
\* write; and no frame goes out twice, over any number of reconnects.
THEOREM TruthfulOutcome == Spec => []OutcomeIsTruthful
<1>1. MakerInv => OutcomeIsTruthful
  BY DEF MakerInv, PublishInv
<1> QED
  BY <1>1, MakerInvariance, PTL

\* A publisher, the heartbeat and the read loop's pong never write to one
\* connection together.
THEOREM MakerOneWriter == Spec => []OneWriter
<1>1. MakerInv => OneWriter
  BY DEF MakerInv
<1> QED
  BY <1>1, MakerInvariance, PTL

\* When run of a Maker is done, every connection that it dialed is closed and
\* the goroutines of its sessions are gone.
THEOREM MakerNoLeak == Spec => []NoLeak
<1>1. MakerInv => NoLeak
  BY LifeNoLeak DEF MakerInv
<1> QED
  BY <1>1, MakerInvariance, PTL

\* After a terminal error of the read loop a Maker dials no further session.
THEOREM MakerFatal == Spec => []NoSessionAfterFatal
<1>1. MakerInv => NoSessionAfterFatal
  BY LifeFatal DEF MakerInv
<1> QED
  BY <1>1, MakerInvariance, PTL

\* The Maker's status agrees with its session, and run owns that session.
THEOREM MakerStatus == Spec => [](StatusIsTrue /\ RunOwnsSession)
<1>1. MakerInv => StatusIsTrue /\ RunOwnsSession
  BY DEF MakerInv, StreamInv, Consistent, StatusIsTrue
<1> QED
  BY <1>1, MakerInvariance, PTL

\* A stopped Maker keeps its first cause and its status.
THEOREM MakerFinalStop == Spec => StopIsFinal
<1> DEFINE Final == c.stopped => /\ c'.stopped /\ c'.err = c.err /\ c'.phase = "stopped"
                                 /\ c'.generation = c.generation
                                 /\ c'.revision = c.revision
                                 /\ c'.current = NoSession /\ c'.frames = << >>
<1>1. MakerInv /\ [Next]_makerVars => Final
  <2> SUFFICES ASSUME MakerInv, [Next]_makerVars, c.stopped PROVE Final
    OBVIOUS
  <2>1. /\ c \in ClientState /\ Consistent(c)
        /\ c' \in ClientState /\ ClientStep(c, c')
    BY StepShared, StreamFacts DEF MakerInv, Progress
  <2>2. Same(c, c') /\ c.current = NoSession /\ c.frames = << >>
    BY <2>1, StoppedStep
  <2> QED
    BY <2>1, <2>2 DEF Same, Consistent, StatusAgrees
<1>2. MakerInv /\ [Next]_makerVars => [Final]_vars
  BY <1>1
<1> QED
  BY <1>2, MakerInvariance, PTL DEF Spec, StopIsFinal

\* An event goes with every step that installs or loses a session of a Maker; a full
\* event channel stops the client.
THEOREM MakerReported == Spec => ChangesAreReported
<1> DEFINE Reported == \/ c'.stopped
                       \/ c'.events = c.events + 1
                       \/ /\ c'.phase = c.phase /\ c'.generation = c.generation
                          /\ c'.ready => c.ready
                          /\ c.pending # NoPending => c'.pending # NoPending
<1>1. MakerInv /\ [Next]_makerVars => Reported
  <2> SUFFICES ASSUME MakerInv, [Next]_makerVars PROVE Reported
    OBVIOUS
  <2>1. /\ c \in ClientState /\ Consistent(c)
        /\ c' \in ClientState /\ ClientStep(c, c')
    BY StepShared, StreamFacts DEF MakerInv, Progress
  <2> QED
    BY <2>1, StepTold DEF Told
<1>2. MakerInv /\ [Next]_makerVars => [Reported]_vars
  BY <1>1
<1> QED
  BY <1>2, MakerInvariance, PTL DEF Spec, ChangesAreReported

\* A Maker's session stops being current only with its connection and a cause.
THEOREM MakerDropped == Spec => DroppedWithCause
<1> DEFINE Caused == c.current # NoSession /\ c'.current # c.current =>
                         /\ c.current \in c'.closed \intersect c'.cancelled
                         /\ c'.stopped \/ c'.failure[c.current] # NoErr
<1>1. MakerInv /\ [Next]_makerVars => [Caused]_vars
  BY StepShared DEF MakerInv, Kept
<1> QED
  BY <1>1, MakerInvariance, PTL DEF Spec, DroppedWithCause

-----------------------------------------------------------------------------
(***************************************************************************)
(* The delay between two dials of run, for every duration a caller may set *)
(* and for every width of the duration type.  BackoffBounded is made       *)
(* inductive by the types of the settings: an accepted MaxDelay fits in a  *)
(* duration, so a delay of at most half of it can be doubled.              *)
(***************************************************************************)

DurationRange == 1 .. MaxDuration

\* Before they are accepted the settings are any the caller passed; after that
\* they are positive durations, and so is the delay.
DelayTyped ==
  /\ phase \in {"config", "refused", "session", "backoff", "waiting", "dial"}
  /\ ~ Running => cfg \in Configs
  /\ Running =>
       /\ cfg \in [ initial: DurationRange, max: DurationRange, reset: DurationRange ]
       /\ delay \in DurationRange
  /\ wait \in Int

DelayInv == DelayTyped /\ BackoffBounded

\* Accepted settings are positive and ordered (normalizeConnection).
LEMMA ValidSettings ==
  ASSUME NEW raw \in Configs, Valid(raw)
  PROVE  /\ Normalized(raw) \in
              [ initial: DurationRange, max: DurationRange, reset: DurationRange ]
         /\ Normalized(raw).initial <= Normalized(raw).max
BY DurationsAssumption, DefaultsAssumption, MaxDurationAssumption
DEF Configs, Valid, Normalized, OrDefault, DurationRange

\* Doubling neither overflows nor leaves the bounds (the two comparisons that
\* run makes with MaxDelay and MaxDelay/2).
LEMMA DoublingBounded ==
  ASSUME NEW d \in DurationRange, NEW max \in DurationRange, d <= max
  PROVE  /\ Doubled(d, max) \in DurationRange
         /\ d <= Doubled(d, max) /\ Doubled(d, max) <= max
<1>1. max \div 2 \in Nat /\ 2 * (max \div 2) <= max
  BY MaxDurationAssumption DEF DurationRange
<1> QED
  BY <1>1, MaxDurationAssumption DEF DurationRange, Doubled, Wrapped

\* Equal jitter lies between half of the delay and the delay.
LEMMA JitterBounded ==
  ASSUME NEW d \in DurationRange, NEW w \in Jitter(d)
  PROVE  w \in Int /\ d \div 2 <= w /\ w <= d
BY MaxDurationAssumption DEF DurationRange, Jitter

\* DelayInv holds when run has not started.
LEMMA DelayInit == BackoffInit => DelayInv
BY DEF BackoffInit, DelayInv, DelayTyped, BackoffBounded, Running

\* DelayInv is preserved by every step of run.
LEMMA DelayStep ==
  ASSUME DelayInv, [BackoffNext]_backoffVars
  PROVE  DelayInv'
<1> USE DEF DelayInv, DelayTyped, BackoffBounded, Running
<1>1. CASE Refuse
  BY <1>1 DEF Refuse
<1>2. CASE Accept
  <2>1. /\ Normalized(cfg) \in
             [ initial: DurationRange, max: DurationRange, reset: DurationRange ]
        /\ Normalized(cfg).initial <= Normalized(cfg).max
    BY <1>2, ValidSettings DEF Accept
  <2> QED
    BY <1>2, <2>1 DEF Accept, DurationRange
<1>3. ASSUME NEW long \in BOOLEAN, NEW manual \in BOOLEAN, EndSession(long, manual)
      PROVE  DelayInv'
  BY <1>3 DEF EndSession, DurationRange
<1>4. CASE StartTimer
  <2>1. wait' \in Int /\ delay \div 2 <= wait' /\ wait' <= delay
    BY <1>4, JitterBounded DEF StartTimer
  <2> QED
    BY <1>4, <2>1 DEF StartTimer, DurationRange
<1>5. CASE TimerFires
  <2>1. /\ Doubled(delay, cfg.max) \in DurationRange
        /\ delay <= Doubled(delay, cfg.max) /\ Doubled(delay, cfg.max) <= cfg.max
    BY <1>5, DoublingBounded DEF TimerFires
  <2> QED
    BY <1>5, <2>1 DEF TimerFires, DurationRange
<1>6. CASE DialFails
  BY <1>6 DEF DialFails
<1>7. CASE DialSucceeds
  BY <1>7 DEF DialSucceeds
<1>8. CASE UNCHANGED backoffVars
  BY <1>8 DEF backoffVars
<1> QED
  BY <1>1, <1>2, <1>3, <1>4, <1>5, <1>6, <1>7, <1>8 DEF BackoffNext

\* Whatever a caller sets, the delay of the retry loop stays between the
\* normalised bounds, never overflows, and no timer exceeds MaxDelay.
THEOREM BoundedBackoff == BackoffSpec => []BackoffBounded
<1>1. DelayInv => BackoffBounded
  BY DEF DelayInv
<1>2. DelayInv /\ [BackoffNext]_backoffVars => DelayInv'
  BY DelayStep
<1> QED
  BY <1>1, <1>2, DelayInit, PTL DEF BackoffSpec

=============================================================================
