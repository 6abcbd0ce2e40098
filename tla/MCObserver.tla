---------------------------- MODULE MCObserver ----------------------------
(* Two streams, one of them traded, over a chain whose fee switch, fee token and *)
(* activity change between blocks.                                               *)
EXTENDS Observer

MCKeys == {"k1", "k2"}
MCSwapKeys == {"k1"}

Sound ==
  [ sound |-> TRUE, active |-> TRUE, feeRate |-> 1, feeToken |-> "base", recipient |-> TRUE,
    start |-> 1, end |-> 2, maxAge |-> 3, maxPpm |-> 1, baseDecimals |-> 6, quoteDecimals |-> 6 ]

\* A sound block, one without the fee switch and with other settings, and one of which
\* each check can refuse something.
MCBlocks ==
  { Sound,
    [Sound EXCEPT !.recipient = FALSE, !.start = 0, !.feeToken = "quote", !.quoteDecimals = 8],
    [Sound EXCEPT !.active = FALSE, !.baseDecimals = 256] }
===========================================================================
