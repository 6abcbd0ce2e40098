------------------------------- MODULE Backoff -------------------------------
(***************************************************************************)
(* The retry delay of client.run (src/internal/reconnect.go) and the       *)
(* settings it comes from (normalizeConnection in src/internal/config.go). *)
(*                                                                         *)
(* Stream lets every backoff end at any time; this module is about how     *)
(* long it lasts.  Durations are the signed integers of time.Duration:     *)
(* MaxDuration stands for 2^63 - 1, and doubling wraps around.  The end of *)
(* run, which is possible in every phase, is left to Stream.               *)
(***************************************************************************)
EXTENDS Integers

CONSTANTS
  MaxDuration,       \* the largest time.Duration
  Durations,         \* values that a caller may set, zero and negatives included
  DefaultInitial,    \* 500 milliseconds
  DefaultMax,        \* 30 seconds
  DefaultReset,      \* 60 seconds
  MaxRounds          \* bound: waits that the history variable counts

ASSUME MaxDurationAssumption == MaxDuration \in Nat /\ MaxDuration >= 3
ASSUME DurationsAssumption ==
  \A d \in Durations : d \in Int /\ d <= MaxDuration
ASSUME DefaultsAssumption ==
  \A d \in {DefaultInitial, DefaultMax, DefaultReset} : d \in 1 .. MaxDuration
ASSUME MaxRoundsAssumption == MaxRounds \in Nat

VARIABLES
  cfg,       \* cfg.Reconnect: InitialDelay, MaxDelay, ResetAfter
  phase,     \* where run is
  delay,     \* the local variable delay
  wait,      \* the duration of the present timer
  rounds     \* history: waits since delay was last the initial delay

backoffVars == << cfg, phase, delay, wait, rounds >>

Configs == [ initial: Durations, max: Durations, reset: Durations ]

-----------------------------------------------------------------------------
(* Duration arithmetic, with the width of int64 *)

Wrapped(x) == IF x > MaxDuration THEN x - 2 * (MaxDuration + 1) ELSE x

\* The waits that delay/2 + rand.Int64N(delay-delay/2+1) can produce.
Jitter(d) == {d \div 2 + r : r \in 0 .. d - d \div 2}

\* Fault: doubling is capped only afterwards, where it may have wrapped.
DoubledThenCapped(d, max) ==
  IF Wrapped(2 * d) > max THEN max ELSE Wrapped(2 * d)

Doubled(d, max) ==
  IF d >= max THEN d
  ELSE IF d > max \div 2 THEN max
  ELSE Wrapped(2 * d)

-----------------------------------------------------------------------------
(* normalizeConnection *)

OrDefault(d, default) == IF d = 0 THEN default ELSE d

Normalized(raw) ==
  [ initial |-> OrDefault(raw.initial, DefaultInitial),
    max |-> OrDefault(raw.max, DefaultMax),
    reset |-> OrDefault(raw.reset, DefaultReset) ]

Valid(raw) ==
  /\ raw.initial >= 0 /\ raw.max >= 0 /\ raw.reset >= 0
  /\ Normalized(raw).max >= Normalized(raw).initial

-----------------------------------------------------------------------------
BackoffInit ==
  /\ cfg \in Configs
  /\ phase = "config"
  /\ delay = 0
  /\ wait = 0
  /\ rounds = 0

\* DialRouter or DialMaker refuses the settings ...
Refuse ==
  /\ phase = "config"
  /\ ~ Valid(cfg)
  /\ phase' = "refused"
  /\ UNCHANGED << cfg, delay, wait, rounds >>

\* ... or run starts with the first session.
Accept ==
  /\ phase = "config"
  /\ Valid(cfg)
  /\ cfg' = Normalized(cfg)
  /\ delay' = cfg'.initial
  /\ phase' = "session"
  /\ UNCHANGED << wait, rounds >>

(***************************************************************************)
(* The session is over.  long: it lasted at least ResetAfter.  manual: it  *)
(* was ended by Reconnect, and the first dial follows at once.             *)
(***************************************************************************)
EndSession(long, manual) ==
  /\ phase = "session"
  /\ delay' = IF long THEN cfg.initial ELSE delay
  /\ rounds' = IF long THEN 0 ELSE rounds
  /\ phase' = IF manual THEN "dial" ELSE "backoff"
  /\ UNCHANGED << cfg, wait >>

StartTimer ==
  /\ phase = "backoff"
  /\ rounds < MaxRounds
  /\ wait' \in Jitter(delay)
  /\ phase' = "waiting"
  /\ UNCHANGED << cfg, delay, rounds >>

TimerFires ==
  /\ phase = "waiting"
  /\ delay' = Doubled(delay, cfg.max)
  /\ rounds' = rounds + 1
  /\ phase' = "dial"
  /\ UNCHANGED << cfg, wait >>

DialFails ==
  /\ phase = "dial"
  /\ phase' = "backoff"
  /\ UNCHANGED << cfg, delay, wait, rounds >>

DialSucceeds ==
  /\ phase = "dial"
  /\ phase' = "session"
  /\ UNCHANGED << cfg, delay, wait, rounds >>

BackoffNext ==
  \/ Refuse \/ Accept
  \/ \E long, manual \in BOOLEAN : EndSession(long, manual)
  \/ StartTimer \/ TimerFires \/ DialFails \/ DialSucceeds

BackoffSpec == BackoffInit /\ [][BackoffNext]_backoffVars

-----------------------------------------------------------------------------
(* Properties *)

Running == phase \notin {"config", "refused"}

\* Whatever a caller sets, the delay stays between the normalised bounds and a
\* timer never runs longer than the maximum (run: "never exceeds the configured
\* maximum"); no doubling overflows, however close MaxDelay is to the largest
\* duration.
BackoffBounded ==
  Running =>
    /\ 1 <= cfg.initial /\ cfg.initial <= delay /\ delay <= cfg.max
    /\ phase = "waiting" => delay \div 2 <= wait /\ wait <= cfg.max

=============================================================================
