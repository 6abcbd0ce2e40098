------------------------------- MODULE MCBook -------------------------------
EXTENDS Book

Pair(tickSize, lotSize, baseDecimals, quoteDecimals) ==
  [ tickSize |-> tickSize, lotSize |-> lotSize,
    baseDecimals |-> baseDecimals, quoteDecimals |-> quoteDecimals ]

\* Price scales from -1 to 2, aligned and unaligned steps.
MCPairs == {Pair(1, 1, 1, 0), Pair(2, 1, 1, 1), Pair(3, 3, 0, 1), Pair(1, 2, 2, 0), Pair(3, 1, 2, 1)}
MCPrices == [ n: 1 .. 5, f: 0 .. 1 ] \cup {[ n |-> n, f |-> 0 ] : n \in {0, 12}} \cup {[ n |-> 1, f |-> 3 ]}
MCAmounts == {[ n |-> 3, f |-> 0 ], [ n |-> 5, f |-> 1 ]}
=============================================================================
