---------------------------- MODULE MCListing ----------------------------
(* One chain of two; a pair that is edited, turned gray, unregistered or removed *)
(* between requests; answers with every combination of status, flags and body.   *)
EXTENDS Listing

P1 ==
  [ object |-> TRUE, typed |-> TRUE, chain |-> 1, id |-> 1, tokens |-> TRUE, sizes |-> TRUE,
    tax |-> "null", active |-> TRUE, gray |-> FALSE ]
P2 == [P1 EXCEPT !.id = 2]

MCArguments ==
  [ job: {"example", "pairs", "pair"}, chain: {0, 1, MaxChain + 1}, pair: {0, 1, MaxPair + 1} ]

MCRegistries ==
  { << >>, << P1 >>, << P1, P2 >>, << [P1 EXCEPT !.gray = TRUE], P2 >>,
    << [P1 EXCEPT !.tax = "sound"], [P2 EXCEPT !.active = FALSE] >>,
    << [P1 EXCEPT !.id = 0], [P2 EXCEPT !.chain = 2] >> }

Odd ==
  { P1, [P1 EXCEPT !.gray = TRUE], [P1 EXCEPT !.active = FALSE], P2,
    [P1 EXCEPT !.chain = 2], [P1 EXCEPT !.object = FALSE], [P1 EXCEPT !.typed = FALSE],
    [P1 EXCEPT !.tokens = FALSE], [P1 EXCEPT !.sizes = FALSE], [P1 EXCEPT !.tax = "foreign"],
    [P1 EXCEPT !.chain = 0], [P1 EXCEPT !.id = MaxPair + 1] }

MCFaults ==
  [ reached: {TRUE}, status: {200, 500}, whole: BOOLEAN, success: {"true", "false", "absent"},
    error: BOOLEAN, null: BOOLEAN, data: {<< >>, << P1 >>} ]
  \cup { Healthy(<< item >>) : item \in Odd }
  \cup { Healthy(<< P2, item >>) : item \in Odd }
  \cup { [Healthy(<< >>) EXCEPT !.reached = FALSE] }
===========================================================================
