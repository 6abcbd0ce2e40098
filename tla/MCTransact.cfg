SPECIFICATION FairSpec
CONSTANTS
  Callers = {c1, c2}
  Calls <- MCCalls
  Limit = 1
  Nonces = {0, 1}
  Options <- MCOptions
  Receipts <- MCReceipts
  NoNonce = NoNonce
  NoTx = NoTx
INVARIANTS
  ExecutedAsPrepared
  BroadcastIsKnown
  SuccessIsSent
PROPERTIES
  ReceiptArrives
CHECK_DEADLOCK FALSE
