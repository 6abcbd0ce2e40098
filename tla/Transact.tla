------------------------------ MODULE Transact ------------------------------
(***************************************************************************)
(* Transactions of the protocol client (src/pkg/protocol: transaction.go,  *)
(* swap.go, receipt.go): several goroutines share one client and one       *)
(* caller-owned set of options; each call is encoded, prepared by the bind *)
(* library, handed to the caller's signing callback, checked, broadcast,   *)
(* and its receipt awaited and parsed.                                     *)
(*                                                                         *)
(* The bind library, the callback, the node and the chain are external.    *)
(* The callback may do anything, also alter the unsigned transaction in    *)
(* place; the node may accept a transaction and still answer with an       *)
(* error.  A transaction is its contents, and its hash is injective.  Gas  *)
(* settings behave like the nonce and are left out, as is the decoding of  *)
(* a revert reason.                                                        *)
(***************************************************************************)
EXTENDS Integers, Sequences, SequencesExt

CONSTANTS
  Callers,     \* goroutines
  Calls,       \* the calls that they make
  Limit,       \* the largest uint256
  Nonces,      \* bound: nonces in use
  Options,     \* the TransactOpts that they share
  Receipts,    \* how a transaction may end on the chain
  NoNonce,     \* Nonce is nil
  NoTx         \* a nil transaction

Updates == {"signed", "raw", "broken"}   \* v = 27/28; v = 0/1; not a frame
Methods == {"swap", "swapExactIn", "updateFrameBySig", "approve"}
LogKinds == {"swap", "foreign", "otherEvent", "removed", "malformed"}

\* parties: the addresses given are nonzero.  updates: the signed frames.
CallType ==
  [ method: Methods, pairID: Nat, amount: Int, minOut: Int, parties: BOOLEAN,
    updates: Seq(Updates) ]

\* sound: sender and signer given, no native value, numbers in range.
OptionType == [ sound: BOOLEAN, noSend: BOOLEAN, nonce: Nonces \cup {NoNonce} ]

ASSUME TransactAssumption ==
  /\ Nonces \subseteq Nat /\ Limit \in Nat /\ NoNonce \notin Nonces
  /\ \A c \in Calls : c \in CallType
  /\ Options \subseteq OptionType
  /\ \A r \in Receipts : r.success \in BOOLEAN /\ r.logs \in Seq(LogKinds)

VARIABLES
  opts,        \* owned by the callers, shared between them
  call,        \* the arguments of each caller
  cancelled,   \* callers whose ctx has ended
  pc,
  local,       \* the copy of opts that transact works on
  unsigned,    \* the transaction that bind prepared
  signed,      \* the transaction that the callback signed and the client checked
  ret,         \* what the call returned: tx and err
  outcome,     \* what WaitReceipt and ParseSwapReceipt returned
  sent,        \* external: transactions that the node has accepted
  mined,       \* external: their receipts
  wanted       \* history: opts as the owner set it

vars == << opts, call, cancelled, pc, local, unsigned, signed, ret, outcome, sent, mined, wanted >>
world == << sent, mined >>

\* The contents of a transaction.  To and Data follow from the call, Value is zero.
Contents == [ call: Calls, nonce: Nonces ]

\* What a callback may return.  sender: the key that signed.  chain: the chain it is for.
SignedTxs == [ contents: Contents, sender: {"from", "other"}, chain: {"ours", "other"} ]

Init ==
  /\ opts \in Options /\ wanted = opts
  /\ call \in [Callers -> Calls]
  /\ cancelled = {}
  /\ pc = [c \in Callers |-> "start"]
  /\ local = [c \in Callers |-> opts]
  /\ unsigned = [c \in Callers |-> NoTx]
  /\ signed = [c \in Callers |-> NoTx]
  /\ ret = [c \in Callers |-> [ tx |-> NoTx, err |-> FALSE ]]
  /\ outcome = [c \in Callers |-> << >>]
  /\ sent = {} /\ mined = {}

-----------------------------------------------------------------------------
(* EncodeSwapCall, UpdateFrameBySig and ApproveToken *)

ValidSigned(update) == update = "signed"

Uint256(v) == v \in 0 .. Limit

\* The third method, swap with a callback, is only encoded and never sent from here.
EncodeSwapCall(p) ==
  /\ p.method \in {"swap", "swapExactIn"}
  /\ p.pairID # 0
  /\ Uint256(p.amount) /\ p.amount > 0 /\ Uint256(p.minOut)
  /\ p.parties
  /\ \A k \in DOMAIN p.updates : ValidSigned(p.updates[k])

UpdateFrameBySig(p) ==
  p.method = "updateFrameBySig" /\ Len(p.updates) = 1 /\ ValidSigned(p.updates[1])

ApproveToken(p) ==
  p.method = "approve" /\ p.parties /\ Uint256(p.amount)

Encodable(p) == EncodeSwapCall(p) \/ UpdateFrameBySig(p) \/ ApproveToken(p)

-----------------------------------------------------------------------------
(* transact *)

At(c, label) == pc[c] = label
Goto(c, label) == pc' = [pc EXCEPT ![c] = label]

\* A nil transaction ends the caller's work, and so does one that it did not want sent.
Return(c, tx, err) ==
  /\ ret' = [ret EXCEPT ![c] = [ tx |-> tx, err |-> err ]]
  /\ Goto(c, IF tx = NoTx \/ local[c].noSend THEN "done" ELSE "poll")

Refuse(c) ==
  /\ At(c, "start")
  /\ ~ Encodable(call[c]) \/ ~ opts.sound \/ c \in cancelled
  /\ Return(c, NoTx, TRUE)
  /\ UNCHANGED << opts, call, cancelled, local, unsigned, signed, outcome, world, wanted >>

\* Fault: the options are shared with the caller when NoSend is set on them.
CopyOptsAliased(c) ==
  /\ local' = [local EXCEPT ![c] = opts]
  /\ opts' = [opts EXCEPT !.noSend = TRUE]

\* copyOpts, noSend := local.NoSend, local.NoSend = true
CopyOpts(c) ==
  /\ local' = [local EXCEPT ![c] = opts]
  /\ UNCHANGED opts

Start(c) ==
  /\ At(c, "start")
  /\ Encodable(call[c]) /\ opts.sound /\ c \notin cancelled
  /\ CopyOpts(c)
  /\ Goto(c, "prepare")
  /\ UNCHANGED << call, cancelled, unsigned, signed, ret, outcome, world, wanted >>

\* PendingNonceAt: the first nonce that the node has no transaction for.
PendingNonce(n) ==
  /\ \A t \in sent : t.contents.nonce # n
  /\ \A m \in Nonces : m < n => \E t \in sent : t.contents.nonce = m

\* RawTransact up to the callback.
Prepare(c) ==
  /\ At(c, "prepare")
  /\ \E n \in Nonces :
       /\ IF local[c].nonce = NoNonce THEN PendingNonce(n) ELSE n = local[c].nonce
       /\ unsigned' = [unsigned EXCEPT ![c] = [ call |-> call[c], nonce |-> n ]]
  /\ Goto(c, "sign")
  /\ UNCHANGED << opts, call, cancelled, local, signed, ret, outcome, world, wanted >>

\* An RPC of bind fails, or ctx ends it.
PrepareFails(c) ==
  /\ At(c, "prepare")
  /\ Return(c, NoTx, TRUE)
  /\ UNCHANGED << opts, call, cancelled, local, unsigned, signed, outcome, world, wanted >>

\* Fault: the hash is taken when the callback has returned.
ExpectedHashLate(before, after) == after

\* The hash is captured before the callback, which can alter unsigned in place.
ExpectedHash(before, after) == before

\* The checks on what the callback returned.
SignedAsAsked(c, expected, tx) ==
  /\ tx.chain = "ours"
  /\ tx.sender = "from"
  /\ tx.contents = expected
  /\ tx.contents.call = call[c]

\* The wrapped callback: it was given unsigned[c], left it as altered, returned tx.
Sign(c) ==
  /\ At(c, "sign")
  /\ \E altered \in Contents, tx \in SignedTxs :
       /\ SignedAsAsked(c, ExpectedHash(unsigned[c], altered), tx)
       /\ signed' = [signed EXCEPT ![c] = tx]
       /\ IF local[c].noSend THEN Return(c, tx, FALSE) ELSE Goto(c, "send") /\ UNCHANGED ret
  /\ UNCHANGED << opts, call, cancelled, local, unsigned, outcome, world, wanted >>

\* The callback fails, returns nil, or returns something else.
SignFails(c) ==
  /\ At(c, "sign")
  /\ Return(c, NoTx, TRUE)
  /\ UNCHANGED << opts, call, cancelled, local, unsigned, signed, outcome, world, wanted >>

\* The node takes a transaction unless another holds its nonce.
Acceptable(tx) == \A t \in sent : t.contents.nonce = tx.contents.nonce => t = tx

Send(c) ==
  /\ At(c, "send") /\ c \notin cancelled
  /\ Acceptable(signed[c]) /\ signed[c] \notin sent
  /\ sent' = sent \cup {signed[c]}
  /\ Return(c, signed[c], FALSE)
  /\ UNCHANGED << opts, call, cancelled, local, unsigned, signed, outcome, mined, wanted >>

\* Fault: bind's own path, which drops the transaction when sending fails.
SendAmbiguousDropped(c) ==
  /\ At(c, "send")
  /\ sent' \in {sent, IF Acceptable(signed[c]) THEN sent \cup {signed[c]} ELSE sent}
  /\ Return(c, NoTx, TRUE)
  /\ UNCHANGED << opts, call, cancelled, local, unsigned, signed, outcome, mined, wanted >>

\* An error, with or without effect: refused, known already, or the answer was lost.
SendAmbiguous(c) ==
  /\ At(c, "send")
  /\ sent' \in {sent, IF Acceptable(signed[c]) THEN sent \cup {signed[c]} ELSE sent}
  /\ Return(c, signed[c], TRUE)
  /\ UNCHANGED << opts, call, cancelled, local, unsigned, signed, outcome, mined, wanted >>

-----------------------------------------------------------------------------
(* WaitReceipt and ParseSwapReceipt *)

Mined(tx) == \E m \in mined : m.tx = tx

\* The loop over the logs passes over other emitters and events.
SwapLogs(logs) ==
  LET result[n \in 0 .. Len(logs)] ==
        IF n = 0 THEN << >>
        ELSE IF logs[n] = "swap" THEN Append(result[n - 1], logs[n]) ELSE result[n - 1]
  IN  result[Len(logs)]

\* The Swap logs of the proxy, or an error.
ParseSwapReceipt(receipt) ==
  IF ~ receipt.success \/ \E k \in DOMAIN receipt.logs : receipt.logs[k] \in {"removed", "malformed"}
  THEN << "error" >>
  ELSE SwapLogs(receipt.logs)

PollFinds(c) ==
  /\ At(c, "poll") /\ c \notin cancelled
  /\ \E m \in mined :
       m.tx = ret[c].tx /\ outcome' = [outcome EXCEPT ![c] = ParseSwapReceipt(m.receipt)]
  /\ Goto(c, "parsed")
  /\ UNCHANGED << opts, call, cancelled, local, unsigned, signed, ret, world, wanted >>

PollNotFound(c) ==
  /\ At(c, "poll") /\ c \notin cancelled /\ ~ Mined(ret[c].tx)
  /\ Goto(c, "sleep")
  /\ UNCHANGED << opts, call, cancelled, local, unsigned, signed, ret, outcome, world, wanted >>

\* Any error but NotFound, and the end of ctx, before the call, in it or in the sleep.
PollFails(c) ==
  /\ At(c, "poll") \/ (At(c, "sleep") /\ c \in cancelled)
  /\ Goto(c, "done")
  /\ UNCHANGED << opts, call, cancelled, local, unsigned, signed, ret, outcome, world, wanted >>

\* Fault: only the end of ctx ends the sleep.
WakeAtEnd(c) ==
  /\ At(c, "sleep") /\ c \in cancelled
  /\ Goto(c, "poll")
  /\ UNCHANGED << opts, call, cancelled, local, unsigned, signed, ret, outcome, world, wanted >>

Wake(c) ==
  /\ At(c, "sleep")
  /\ Goto(c, "poll")
  /\ UNCHANGED << opts, call, cancelled, local, unsigned, signed, ret, outcome, world, wanted >>

-----------------------------------------------------------------------------
(* The world *)

Cancel(c) ==
  /\ c \notin cancelled /\ pc[c] \notin {"done", "parsed"}
  /\ cancelled' = cancelled \cup {c}
  /\ UNCHANGED << opts, call, pc, local, unsigned, signed, ret, outcome, world, wanted >>

\* Transactions are included in the order of their nonces.
Mine(tx) ==
  /\ ~ Mined(tx)
  /\ \A n \in Nonces : n < tx.contents.nonce => \E m \in mined : m.tx.contents.nonce = n
  /\ \E r \in Receipts : mined' = mined \cup {[ tx |-> tx, receipt |-> r ]}
  /\ UNCHANGED << opts, call, cancelled, pc, local, unsigned, signed, ret, outcome, sent, wanted >>

Submit(c) ==
  \/ Refuse(c) \/ Start(c) \/ Prepare(c) \/ PrepareFails(c) \/ Sign(c) \/ SignFails(c)
  \/ Send(c) \/ SendAmbiguous(c)

Await(c) == PollFinds(c) \/ PollNotFound(c) \/ PollFails(c) \/ Wake(c)

Next ==
  \/ \E c \in Callers : Submit(c) \/ Await(c) \/ Cancel(c)
  \/ \E tx \in sent : Mine(tx)

Spec == Init /\ [][Next]_vars

\* A goroutine in WaitReceipt goes on: its timer fires and its RPC is answered.
FairSpec == Spec /\ \A c \in Callers : WF_vars(Await(c))

-----------------------------------------------------------------------------
(* Properties *)

\* What the node holds is what bind prepared for one of the callers, nonce included.
SentAsPrepared ==
  \A tx \in sent : \E c \in Callers : tx.contents = unsigned[c] /\ tx.contents.call = call[c]

\* A caller that reads swap events reads all those of its own, successful transaction.
EventsAreOwn ==
  \A c \in Callers :
    pc[c] = "parsed" /\ outcome[c] # << "error" >> =>
      \E m \in mined :
        /\ m.tx.contents = unsigned[c] /\ m.receipt.success
        /\ Len(outcome[c]) = Cardinality({k \in DOMAIN m.receipt.logs : m.receipt.logs[k] = "swap"})

\* From the call to its events: what reaches the node is what bind prepared for one of
\* the callers, whatever the callback did to the transaction it was given (transact:
\* "A signing callback may only add a signature"); and the events that a caller reads
\* are those of its transaction, also when its broadcast was reported as failed.
ExecutedAsPrepared == SentAsPrepared /\ EventsAreOwn

\* Whatever the node has accepted can be followed up: the call that sent it holds its
\* hash, also when the answer of the node was lost, and both when two callers
\* broadcast the very same transaction (Swap: "the signed transaction is returned with
\* the error so its hash can be used to resolve the outcome").
BroadcastIsKnown ==
  \A c \in Callers :
    pc[c] \in {"poll", "sleep", "parsed", "done"} /\ signed[c] \in sent =>
      ret[c].tx = signed[c]

\* A call that reports success on options that ask for sending did send, however many
\* other calls use the same options (Swap: "It leaves opts unchanged").
SuccessIsSent ==
  \A c \in Callers :
    ret[c].tx # NoTx /\ ~ ret[c].err =>
      IF wanted.noSend THEN local[c].noSend ELSE ret[c].tx \in sent

\* Waiting ends once the transaction is included: it is asked for again after every
\* NotFound (WaitReceipt).
ReceiptArrives ==
  \A c \in Callers :
    pc[c] \in {"poll", "sleep"} /\ Mined(ret[c].tx) ~> pc[c] \in {"parsed", "done"}

=============================================================================
