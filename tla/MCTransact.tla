---------------------------- MODULE MCTransact ----------------------------
(* Two callers with the same options; some calls are refused before they are sent. *)
EXTENDS Transact

Swap ==
  [ method |-> "swap", pairID |-> 1, amount |-> 1, minOut |-> 0, parties |-> TRUE,
    updates |-> << "signed" >> ]

MCCalls ==
  { Swap,
    [Swap EXCEPT !.method = "approve", !.updates = << >>],
    [Swap EXCEPT !.method = "updateFrameBySig"],
    [Swap EXCEPT !.amount = 0],
    [Swap EXCEPT !.updates = << "raw" >>] }

MCOptions ==
  [ sound: {TRUE}, noSend: BOOLEAN, nonce: {NoNonce, 0} ]
    \cup {[ sound |-> FALSE, noSend |-> FALSE, nonce |-> NoNonce ]}

MCReceipts ==
  { [ success |-> TRUE, logs |-> << "foreign", "swap", "otherEvent" >> ],
    [ success |-> TRUE, logs |-> << "swap", "malformed" >> ],
    [ success |-> FALSE, logs |-> << >> ] }
===========================================================================
