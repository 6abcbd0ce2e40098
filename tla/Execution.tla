----------------------------- MODULE Execution -----------------------------
(***************************************************************************)
(* A swap from the estimate to its execution, while time passes: the age   *)
(* that Quote accepts (validateQuote in src/pkg/router/quote.go), the      *)
(* match (Matching), the minimum that the router example asks for          *)
(* (src/examples/router/quote.go), and the decay that the chain deducts    *)
(* when the transaction is included, seconds later                         *)
(* (src/pkg/protocol/decay.go).                                            *)
(*                                                                         *)
(* The router is given DecayStartOffsetSeconds only and deducts no decay;  *)
(* that this is right depends on the other component.  The tolerance is    *)
(* measured in 1 / PPM here; the example takes ten-thousandths of it.      *)
(***************************************************************************)
EXTENDS Matching

CONSTANTS
  Settings(_, _)   \* the settings in which an order on a book is tried

DecayConfigs == [ start: Nat, end: Nat, maxAge: Nat, maxPpm: Nat ]

Setting ==
  [ cfg: DecayConfigs,     \* GlobalDecayConfig
    updatedAt: Nat,        \* the timestamp of the frame
    slippage: 0 .. PPM,    \* the tolerance of the caller
    until: Nat ]           \* bound: the last second

ASSUME ExecutionAssumption ==
  \A o \in Orders, book \in Books : Settings(o, book) \subseteq Setting

VARIABLES
  cfg, updatedAt, slippage, until,   \* the setting
  now,
  askedAt                            \* the time that Quote sampled

setting == << cfg, updatedAt, slippage, until >>
allVars == << vars, setting, now, askedAt >>

-----------------------------------------------------------------------------
(* protocol.GlobalDecayConfig, DecayPPM and ApplyDecay *)

Valid ==
  /\ cfg.maxAge # 0 /\ cfg.start < cfg.end /\ cfg.end < cfg.maxAge
  /\ cfg.maxPpm < PPM

Executable(at) == Valid /\ updatedAt <= at /\ at - updatedAt < cfg.maxAge

DecayPPM(at) ==
  LET age == at - updatedAt
  IN  IF age <= cfg.start THEN 0
      ELSE IF age >= cfg.end THEN cfg.maxPpm
      ELSE (cfg.maxPpm * (age - cfg.start)) \div (cfg.end - cfg.start)

ApplyDecay(gross, ppm) == gross - Deduction(gross, ppm)

-----------------------------------------------------------------------------
(* router.Quote *)

ExecutionInit ==
  \E o \in {x \in Orders : ValidFee(x)} :
    \E book \in {x \in Books : Book(o.buy, x)} :
      \E s \in Settings(o, book) :
        /\ Start(o, book, "call")
        /\ cfg = s.cfg /\ updatedAt = s.updatedAt
        /\ slippage = s.slippage /\ until = s.until
        /\ now = 0 /\ askedAt = 0

\* Fault: a frame is accepted until its decay ends.
FreshUntilEnd(at) == updatedAt <= at /\ at - updatedAt <= cfg.end

Fresh(at) == updatedAt <= at /\ at - updatedAt <= cfg.start

\* The clock is sampled once; a frame of the future or past the decay start is
\* refused before anything is matched.
Validate ==
  /\ phase = "call"
  /\ askedAt' = now
  /\ phase' = IF Fresh(now) THEN "match" ELSE "refused"
  /\ UNCHANGED << order, levels, i, budget, out, leg, result, setting, now >>

Match == Next /\ UNCHANGED << setting, now, askedAt >>

\* Fault: rounded to the caller's advantage.
MinOutRoundsUp == CeilDiv(result * (PPM - slippage), PPM)

\* showSwap: the tolerance off the estimate, rounded down.
MinOut == (result * (PPM - slippage)) \div PPM

-----------------------------------------------------------------------------
(* The chain (external): the order of deductions that the package documents *)

Tick ==
  /\ now < until
  /\ now' = now + 1
  /\ UNCHANGED << vars, setting, askedAt >>

\* What the recipient gets when the swap is included now, with the book unchanged:
\* decay comes off the gross output, then the output fee.
Payout ==
  LET decayed == ApplyDecay(out, DecayPPM(now))
  IN  IF order.feeOn = "out" THEN decayed - Deduction(decayed, order.fee) ELSE decayed

ExecutionNext == Validate \/ Match \/ Tick

ExecutionSpec == ExecutionInit /\ [][ExecutionNext]_allVars

-----------------------------------------------------------------------------
(* Properties *)

Accepted == phase \notin {"call", "refused"}

\* A frame that Quote accepts could be executed at that second without decay, so that
\* an estimate that deducts none is exact (applyOutputFee: "Decay is zero for the
\* fresh frames Quote accepts").
FreshIsUndecayed ==
  Accepted /\ Valid => Executable(askedAt) /\ DecayPPM(askedAt) = 0

\* However late the swap is included, as long as its frame can be executed: a caller
\* whose tolerance covers the largest decay is paid at least the minimum it asked for,
\* and never more than the estimate, although estimate, tolerance, decay and output
\* fee are each rounded by themselves, in another order than the estimate's
\* (MinAmountOut: "the minimum receipt after output fees and decay").
MinOutSurvivesDecay ==
  phase = "done" /\ Executable(now) =>
    /\ slippage >= cfg.maxPpm => Payout >= MinOut
    /\ Payout <= result

=============================================================================
