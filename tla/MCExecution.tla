---------------------------- MODULE MCExecution ----------------------------
(* Small books and amounts: Scale and PPM are small so that every remainder of *)
(* a division occurs, and prices lie on both sides of Scale.  Every order and  *)
(* book is matched at one second; some are followed through every age.         *)
EXTENDS Execution

MCAmounts == 1 .. Limit
MCDepths == 1 .. 3

NoDecay == [ start |-> 1, end |-> 2, maxAge |-> 3, maxPpm |-> 0 ]

\* Valid configurations, and two that Validate refuses.
DecayCases ==
  {c \in [ start: 0 .. 2, end: 1 .. 3, maxAge: 2 .. 4, maxPpm: 0 .. PPM - 1 ] :
     c.start < c.end /\ c.end < c.maxAge}
    \cup {[ start |-> 1, end |-> 1, maxAge |-> 2, maxPpm |-> 1 ],
          [ start |-> 0, end |-> 1, maxAge |-> 2, maxPpm |-> PPM ]}

Every ==
  [ cfg: DecayCases, updatedAt: 0 .. 1, slippage: 0 .. PPM - 1, until: {4} ]

One == {[ cfg |-> NoDecay, updatedAt |-> 0, slippage |-> 0, until |-> 0 ]}

\* Orders into deep books, with and without a fee on the output, see every setting.
MCSettings(o, book) ==
  IF /\ o.feeOn # "in" /\ Len(book) = 2
     /\ \A k \in DOMAIN book : book[k].depth = 3 /\ book[k].price >= 4
  THEN Every ELSE One
============================================================================
