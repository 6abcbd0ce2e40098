--------------------------- MODULE TransactProofs ---------------------------
(***************************************************************************)
(* Transactions, for any number of callers, calls and nonces.              *)
(*                                                                         *)
(* TxInv carries the results on sending: a caller's transaction is nil     *)
(* until its callback's answer was checked against what bind prepared, it  *)
(* is then what the call returns on every path, and the options never      *)
(* change under the callers.  ReceiptInv adds the receipt that is read;    *)
(* that its events are counted is proved by induction over its logs.       *)
(***************************************************************************)
EXTENDS Transact, FiniteSetTheorems, WellFoundedInduction, TLAPS

Labels == {"start", "prepare", "sign", "send", "poll", "sleep", "parsed", "done"}

TxType ==
  /\ pc \in [Callers -> Labels] /\ call \in [Callers -> Calls]
  /\ opts = wanted /\ local = [c \in Callers |-> opts]
  /\ unsigned \in [Callers -> Contents \cup {NoTx}]
  /\ signed \in [Callers -> SignedTxs \cup {NoTx}]
  /\ ret \in [Callers -> [ tx: SignedTxs \cup {NoTx}, err: BOOLEAN ]]

\* What a caller has signed, by its place.
CallerInv(c) ==
  /\ pc[c] \in {"start", "prepare", "sign"} => signed[c] = NoTx /\ ret[c].tx = NoTx
  /\ pc[c] = "send" =>
       /\ ret[c].tx = NoTx /\ ~ opts.noSend
       /\ signed[c].contents = unsigned[c] /\ signed[c].contents.call = call[c]
  /\ pc[c] \in {"poll", "sleep", "parsed", "done"} => ret[c].tx = signed[c]
  /\ ret[c].tx # NoTx /\ ~ ret[c].err => opts.noSend \/ ret[c].tx \in sent

\* A transaction of the node was prepared by a caller that prepares no other.
SentInv ==
  \A tx \in sent : \E c \in Callers :
    /\ pc[c] \notin {"start", "prepare"}
    /\ tx.contents = unsigned[c] /\ tx.contents.call = call[c]

TxInv == TxType /\ (\A c \in Callers : CallerInv(c)) /\ SentInv

\* Nothing is signed at first.
LEMMA TxStart == Init => TxInv
<1> SUFFICES ASSUME Init PROVE TxInv
  OBVIOUS
<1>1. TxType
  BY DEF Init, TxType, Labels
<1>2. \A c \in Callers : CallerInv(c)
  BY DEF Init, CallerInv
<1> QED
  BY <1>1, <1>2 DEF Init, TxInv, SentInv

\* A step of caller c, as far as the invariant sees it: one place, one transaction, one
\* answer and perhaps one more transaction with the node.
StepOf(c) ==
  /\ UNCHANGED << opts, call, wanted >>
  /\ local' = [d \in Callers |-> opts]
  /\ \E label \in Labels : pc' = [pc EXCEPT ![c] = label]
  /\ \E u \in Contents \cup {NoTx} : unsigned' = [unsigned EXCEPT ![c] = u]
  /\ \E tx \in SignedTxs \cup {NoTx} : signed' = [signed EXCEPT ![c] = tx]
  /\ \E r \in [ tx: SignedTxs \cup {NoTx}, err: BOOLEAN ] : ret' = [ret EXCEPT ![c] = r]
  /\ sent \subseteq sent'
  /\ pc[c] \notin {"start", "prepare"} => pc'[c] \notin {"start", "prepare"} /\ unsigned'[c] = unsigned[c]
  /\ \A tx \in sent' \ sent :
       /\ pc'[c] \notin {"start", "prepare"}
       /\ tx.contents = unsigned'[c] /\ tx.contents.call = call[c]
  /\ CallerInv(c)'

\* Such a step keeps the invariant of the others.
LEMMA StepKeeps ==
  ASSUME TxInv, NEW c \in Callers, StepOf(c)
  PROVE  TxInv'
<1>1. TxType'
  BY DEF TxInv, TxType, StepOf
<1>2. ASSUME NEW d \in Callers PROVE CallerInv(d)'
  <2>1. CASE d = c
    BY <2>1 DEF StepOf
  <2>2. CASE d # c
    <3>1. /\ pc'[d] = pc[d] /\ unsigned'[d] = unsigned[d] /\ signed'[d] = signed[d]
          /\ ret'[d] = ret[d]
      BY <2>2 DEF TxInv, TxType, StepOf
    <3>2. UNCHANGED << opts, call >> /\ sent \subseteq sent'
      BY DEF StepOf
    <3>3. CallerInv(d)
      BY DEF TxInv
    <3> QED
      BY <3>1, <3>2, <3>3 DEF CallerInv
  <2> QED
    BY <2>1, <2>2
<1>3. SentInv'
  <2> SUFFICES ASSUME NEW tx \in sent'
      PROVE \E d \in Callers : /\ pc'[d] \notin {"start", "prepare"}
                               /\ tx.contents = unsigned'[d] /\ tx.contents.call = call'[d]
    BY DEF SentInv
  <2>1. CASE tx \notin sent
    BY <2>1 DEF StepOf
  <2>2. CASE tx \in sent
    <3>1. PICK d \in Callers : /\ pc[d] \notin {"start", "prepare"}
                               /\ tx.contents = unsigned[d] /\ tx.contents.call = call[d]
      BY <2>2 DEF TxInv, SentInv
    <3>2. pc'[d] \notin {"start", "prepare"} /\ unsigned'[d] = unsigned[d] /\ call'[d] = call[d]
      BY <3>1 DEF TxInv, TxType, StepOf
    <3> QED
      BY <3>1, <3>2
  <2> QED
    BY <2>1, <2>2
<1> QED
  BY <1>1, <1>2, <1>3 DEF TxInv

\* The call returns tx: what the caller signed, or nothing when it signed nothing.
LEMMA ReturnIs ==
  ASSUME TxInv, NEW c \in Callers, NEW tx \in SignedTxs \cup {NoTx}, NEW err \in BOOLEAN,
         Return(c, tx, err)
  PROVE  /\ ret' = [ret EXCEPT ![c] = [ tx |-> tx, err |-> err ]]
         /\ \E label \in {"poll", "done"} : pc' = [pc EXCEPT ![c] = label]
         /\ pc'[c] \in {"poll", "done"} /\ ret'[c].tx = tx /\ ret'[c].err = err
  BY DEF Return, Goto, TxInv, TxType

\* The steps before the broadcast.
LEMMA SubmitStep ==
  ASSUME TxInv, NEW c \in Callers, Refuse(c) \/ Start(c) \/ Prepare(c) \/ PrepareFails(c) \/ SignFails(c)
  PROVE  StepOf(c)
<1> USE DEF TxInv
<1>1. /\ UNCHANGED << opts, call, wanted, signed, sent >>
      /\ pc[c] \in {"start", "prepare", "sign"}
      /\ signed[c] = NoTx /\ ret[c].tx = NoTx
  BY DEF Refuse, Start, Prepare, PrepareFails, SignFails, At, CallerInv, world, CopyOpts
<1>2. local' = [d \in Callers |-> opts]
  BY DEF Refuse, Start, Prepare, PrepareFails, SignFails, CopyOpts, TxType
<1>3. signed' = [signed EXCEPT ![c] = NoTx] /\ signed'[c] = NoTx
  BY <1>1 DEF TxType
<1>4. CASE Refuse(c) \/ PrepareFails(c) \/ SignFails(c)
  <2>1. Return(c, NoTx, TRUE) /\ UNCHANGED unsigned
    BY <1>4 DEF Refuse, PrepareFails, SignFails
  <2>2. /\ ret' = [ret EXCEPT ![c] = [ tx |-> NoTx, err |-> TRUE ]]
        /\ \E label \in {"poll", "done"} : pc' = [pc EXCEPT ![c] = label]
        /\ pc'[c] \in {"poll", "done"} /\ ret'[c].tx = NoTx
    BY <2>1, ReturnIs
  <2>3. CallerInv(c)'
    BY <1>1, <1>3, <2>2 DEF CallerInv
  <2>4. unsigned' = [unsigned EXCEPT ![c] = unsigned[c]] /\ unsigned[c] \in Contents \cup {NoTx}
    BY <2>1 DEF TxType
  <2> QED
    BY <1>1, <1>2, <1>3, <2>1, <2>2, <2>3, <2>4 DEF StepOf, Labels
<1>5. CASE Start(c) \/ Prepare(c)
  <2>1. /\ \E label \in {"prepare", "sign"} : pc' = [pc EXCEPT ![c] = label]
        /\ UNCHANGED ret /\ pc[c] \in {"start", "prepare"}
    BY <1>5 DEF Start, Prepare, Goto, At
  <2>2. \E u \in Contents \cup {NoTx} : unsigned' = [unsigned EXCEPT ![c] = u]
    <3>1. CASE Start(c)
      BY <3>1 DEF Start, TxType
    <3>2. CASE Prepare(c)
      BY <3>2 DEF Prepare, TxType, Contents
    <3> QED
      BY <1>5, <3>1, <3>2
  <2>3. pc'[c] \in {"prepare", "sign"} /\ ret' = [ret EXCEPT ![c] = ret[c]]
        /\ ret[c] \in [ tx: SignedTxs \cup {NoTx}, err: BOOLEAN ]
    BY <2>1 DEF TxType
  <2>4. CallerInv(c)'
    BY <1>1, <1>3, <2>1, <2>3 DEF CallerInv
  <2> QED
    BY <1>1, <1>2, <1>3, <2>1, <2>2, <2>3, <2>4 DEF StepOf, Labels
<1> QED
  BY <1>4, <1>5

\* The callback's answer is taken only as bind prepared it.
LEMMA SignStep ==
  ASSUME TxInv, NEW c \in Callers, Sign(c)
  PROVE  StepOf(c)
<1> USE DEF TxInv
<1>1. PICK altered \in Contents, tx \in SignedTxs :
        /\ SignedAsAsked(c, ExpectedHash(unsigned[c], altered), tx)
        /\ signed' = [signed EXCEPT ![c] = tx]
        /\ IF local[c].noSend THEN Return(c, tx, FALSE) ELSE Goto(c, "send") /\ UNCHANGED ret
  BY DEF Sign
<1>2. tx.contents = unsigned[c] /\ tx.contents.call = call[c]
  BY <1>1 DEF SignedAsAsked, ExpectedHash
<1>3. /\ UNCHANGED << opts, call, wanted, unsigned, sent, local >>
      /\ pc[c] = "sign" /\ ret[c].tx = NoTx /\ local[c] = opts
  BY DEF Sign, At, CallerInv, world, TxType
<1>4. signed'[c] = tx /\ unsigned' = [unsigned EXCEPT ![c] = unsigned[c]]
      /\ unsigned[c] \in Contents \cup {NoTx} /\ local' = [d \in Callers |-> opts]
  BY <1>1, <1>3 DEF TxType
<1>5. CASE opts.noSend
  <2>1. /\ ret' = [ret EXCEPT ![c] = [ tx |-> tx, err |-> FALSE ]]
        /\ \E label \in {"poll", "done"} : pc' = [pc EXCEPT ![c] = label]
        /\ pc'[c] \in {"poll", "done"} /\ ret'[c].tx = tx
    BY <1>1, <1>3, <1>5, ReturnIs
  <2>2. CallerInv(c)'
    BY <1>3, <1>4, <1>5, <2>1 DEF CallerInv
  <2> QED
    BY <1>1, <1>3, <1>4, <2>1, <2>2 DEF StepOf, Labels
<1>6. CASE ~ opts.noSend
  <2>1. pc' = [pc EXCEPT ![c] = "send"] /\ pc'[c] = "send" /\ ret' = ret
    BY <1>1, <1>3, <1>6 DEF Goto, TxType
  <2>2. ret' = [ret EXCEPT ![c] = ret[c]] /\ ret[c] \in [ tx: SignedTxs \cup {NoTx}, err: BOOLEAN ]
    BY <2>1 DEF TxType
  <2>3. CallerInv(c)'
    BY <1>2, <1>3, <1>4, <1>6, <2>1 DEF CallerInv
  <2> QED
    BY <1>1, <1>3, <1>4, <2>1, <2>2, <2>3 DEF StepOf, Labels
<1> QED
  BY <1>5, <1>6

\* The broadcast returns what was signed, whatever the node answers.
LEMMA SendStep ==
  ASSUME TxInv, NEW c \in Callers, Send(c) \/ SendAmbiguous(c)
  PROVE  StepOf(c)
<1> USE DEF TxInv
<1>1. /\ UNCHANGED << opts, call, wanted, unsigned, signed, local >>
      /\ pc[c] = "send" /\ ~ opts.noSend
      /\ signed[c].contents = unsigned[c] /\ signed[c].contents.call = call[c]
  BY DEF Send, SendAmbiguous, At, CallerInv
<1>2. sent' = sent \/ sent' = sent \cup {signed[c]}
  BY DEF Send, SendAmbiguous
<1>3. \E err \in BOOLEAN : Return(c, signed[c], err) /\ (err \/ signed[c] \in sent')
  BY DEF Send, SendAmbiguous
<1>4. signed[c] \in SignedTxs \cup {NoTx} /\ unsigned[c] \in Contents \cup {NoTx}
      /\ signed' = [signed EXCEPT ![c] = signed[c]] /\ unsigned' = [unsigned EXCEPT ![c] = unsigned[c]]
      /\ local' = [d \in Callers |-> opts]
  BY <1>1 DEF TxType
<1>5. PICK err \in BOOLEAN : Return(c, signed[c], err) /\ (err \/ signed[c] \in sent')
  BY <1>3
<1>6. /\ ret' = [ret EXCEPT ![c] = [ tx |-> signed[c], err |-> err ]]
      /\ \E label \in {"poll", "done"} : pc' = [pc EXCEPT ![c] = label]
      /\ pc'[c] \in {"poll", "done"} /\ ret'[c].tx = signed[c] /\ ret'[c].err = err
  BY <1>4, <1>5, ReturnIs
<1>7. CallerInv(c)'
  BY <1>1, <1>5, <1>6 DEF CallerInv
<1>8. \A tx \in sent' \ sent : tx = signed[c]
  BY <1>2
<1>9. [ tx |-> signed[c], err |-> err ] \in [ tx: SignedTxs \cup {NoTx}, err: BOOLEAN ]
  BY <1>4
<1> QED
  BY <1>1, <1>2, <1>4, <1>6, <1>7, <1>8, <1>9 DEF StepOf, Labels

\* Waiting moves the caller's place among those after the call.
LEMMA AwaitStep ==
  ASSUME TxInv, NEW c \in Callers, Await(c)
  PROVE  StepOf(c)
<1> USE DEF TxInv
<1>1. /\ UNCHANGED << opts, call, wanted, unsigned, signed, local, ret, sent >>
      /\ pc[c] \in {"poll", "sleep"}
      /\ \E label \in {"poll", "sleep", "parsed", "done"} : pc' = [pc EXCEPT ![c] = label]
  BY DEF Await, PollFinds, PollNotFound, PollFails, Wake, At, Goto, world
<1>2. pc'[c] \in {"poll", "sleep", "parsed", "done"}
  BY <1>1 DEF TxType
<1>3. CallerInv(c)'
  BY <1>1, <1>2 DEF CallerInv
<1>4. /\ signed[c] \in SignedTxs \cup {NoTx} /\ unsigned[c] \in Contents \cup {NoTx}
      /\ ret[c] \in [ tx: SignedTxs \cup {NoTx}, err: BOOLEAN ]
      /\ signed' = [signed EXCEPT ![c] = signed[c]] /\ unsigned' = [unsigned EXCEPT ![c] = unsigned[c]]
      /\ ret' = [ret EXCEPT ![c] = ret[c]] /\ local' = [d \in Callers |-> opts]
  BY <1>1 DEF TxType
<1> QED
  BY <1>1, <1>2, <1>3, <1>4 DEF StepOf, Labels

\* Every step keeps the invariant.
LEMMA TxStep == TxInv /\ [Next]_vars => TxInv'
<1> SUFFICES ASSUME TxInv, [Next]_vars PROVE TxInv'
  OBVIOUS
<1>1. CASE \E c \in Callers : Submit(c) \/ Await(c)
  BY <1>1, SubmitStep, SignStep, SendStep, AwaitStep, StepKeeps DEF Submit
<1>2. CASE (\E c \in Callers : Cancel(c)) \/ (\E tx \in sent : Mine(tx)) \/ UNCHANGED vars
  <2>1. UNCHANGED << opts, call, wanted, pc, local, unsigned, signed, ret, sent >>
    BY <1>2 DEF Cancel, Mine, world, vars
  <2> QED
    BY <2>1 DEF TxInv, TxType, CallerInv, SentInv
<1> QED
  BY <1>1, <1>2 DEF Next

\* The invariant holds of every behaviour.
LEMMA TxAlways == Spec => []TxInv
  BY TxStart, TxStep, PTL DEF Spec

\* Whatever the node has accepted, its caller can follow up (transact returns the signed
\* transaction with the error).
THEOREM Known == Spec => []BroadcastIsKnown
<1>1. TxInv => BroadcastIsKnown
  BY DEF TxInv, CallerInv, BroadcastIsKnown
<1> QED
  BY <1>1, TxAlways, PTL

\* Success on options that ask for sending means sent, for any number of goroutines on
\* the same options (transact works on a copy).
THEOREM Sent == Spec => []SuccessIsSent
<1>1. TxInv => SuccessIsSent
  BY DEF TxInv, TxType, CallerInv, SuccessIsSent
<1> QED
  BY <1>1, TxAlways, PTL

\* The signing callback can only add a signature: what reaches the node was prepared by
\* bind for one of the callers (transact compares hashes taken before the callback).
THEOREM Prepared == Spec => []SentAsPrepared
<1>1. TxInv => SentAsPrepared
  BY DEF TxInv, SentInv, SentAsPrepared
<1> QED
  BY <1>1, TxAlways, PTL

-----------------------------------------------------------------------------
(* The events of a receipt *)

\* Induction over the natural numbers, stated for a set instead of a predicate: a least
\* number outside the set has a predecessor in it.
LEMMA Induction ==
  ASSUME NEW S \in SUBSET Nat, 0 \in S, \A n \in S : n + 1 \in S
  PROVE  S = Nat
<1> DEFINE R == OpToRel(<, Nat)
           T == Nat \ S
<1>1. IsWellFoundedOn(R, Nat)
  BY NatLessThanWellFounded
<1>2. \A x, y \in Nat : << y, x >> \in R <=> y < x
  BY DEF OpToRel
<1> HIDE DEF R
<1>3. SUFFICES ASSUME T # {} PROVE FALSE
  OBVIOUS
<1>4. PICK k \in T : \A y \in T : ~ (<< y, k >> \in R)
  BY <1>1, <1>3, WFMin
<1>5. k \in Nat /\ k # 0 /\ k - 1 \in Nat
  BY <1>4
<1>6. k - 1 \notin T
  <2>1. << k - 1, k >> \in R
    BY <1>2, <1>5
  <2> QED
    BY <1>4, <2>1
<1> QED
  BY <1>4, <1>5, <1>6

\* The positions of the Swap logs among the first n.
SwapsTo(logs, n) == {k \in 1 .. n : logs[k] = "swap"}

\* After n logs the loop holds one event for each Swap log among them.
LEMMA SwapsCounted ==
  ASSUME NEW logs \in Seq(LogKinds), NEW f,
         f = [n \in 0 .. Len(logs) |->
                IF n = 0 THEN << >>
                ELSE IF logs[n] = "swap" THEN Append(f[n - 1], logs[n]) ELSE f[n - 1]]
  PROVE  Len(f[Len(logs)]) = Cardinality(SwapsTo(logs, Len(logs)))
<1> DEFINE N == Len(logs)
           P(n) == n <= N =>
                     /\ f[n] \in Seq(LogKinds) /\ IsFiniteSet(SwapsTo(logs, n))
                     /\ Len(f[n]) = Cardinality(SwapsTo(logs, n))
           S == {n \in Nat : P(n)}
<1>0. N \in Nat
  OBVIOUS
<1>1. P(0)
  <2>1. f[0] = << >>
    BY <1>0
  <2>2. SwapsTo(logs, 0) = {}
    BY DEF SwapsTo
  <2>3. f[0] \in Seq(LogKinds) /\ Len(f[0]) = 0
    BY <2>1
  <2>4. IsFiniteSet(SwapsTo(logs, 0)) /\ Cardinality(SwapsTo(logs, 0)) = 0
    BY <2>2, FS_EmptySet
  <2> QED
    BY <2>3, <2>4
<1>2. ASSUME NEW n \in Nat, P(n) PROVE P(n + 1)
  <2> SUFFICES ASSUME n + 1 <= N
               PROVE  /\ f[n + 1] \in Seq(LogKinds) /\ IsFiniteSet(SwapsTo(logs, n + 1))
                      /\ Len(f[n + 1]) = Cardinality(SwapsTo(logs, n + 1))
    OBVIOUS
  <2>1. /\ f[n] \in Seq(LogKinds) /\ IsFiniteSet(SwapsTo(logs, n))
        /\ Len(f[n]) = Cardinality(SwapsTo(logs, n))
    BY <1>0, <1>2
  <2>2. n + 1 \in 0 .. N /\ n + 1 \in 1 .. N /\ n + 1 # 0 /\ (n + 1) - 1 = n
    BY <1>0
  <2>3. f[n + 1] = IF logs[n + 1] = "swap" THEN Append(f[n], logs[n + 1]) ELSE f[n]
    BY <2>2
  <2>4. CASE logs[n + 1] = "swap"
    <3>1. SwapsTo(logs, n + 1) = SwapsTo(logs, n) \cup {n + 1}
      BY <2>4 DEF SwapsTo
    <3>2. n + 1 \notin SwapsTo(logs, n)
      BY DEF SwapsTo
    <3>3. /\ IsFiniteSet(SwapsTo(logs, n + 1))
          /\ Cardinality(SwapsTo(logs, n + 1)) = Cardinality(SwapsTo(logs, n)) + 1
      <4> DEFINE A == SwapsTo(logs, n)
      <4>1. IsFiniteSet(A) /\ n + 1 \notin A
        BY <2>1, <3>2
      <4> HIDE DEF A
      <4>2. IsFiniteSet(A \cup {n + 1}) /\ Cardinality(A \cup {n + 1}) = Cardinality(A) + 1
        BY <4>1, FS_AddElement
      <4> QED
        BY <3>1, <4>2 DEF A
    <3>4. logs[n + 1] \in LogKinds
      BY <2>2
    <3>5. f[n + 1] \in Seq(LogKinds) /\ Len(f[n + 1]) = Len(f[n]) + 1
      <4> DEFINE t == f[n]
                 e == logs[n + 1]
      <4>1. t \in Seq(LogKinds) /\ e \in LogKinds /\ f[n + 1] = Append(t, e)
        BY <2>1, <2>3, <2>4, <3>4
      <4> HIDE DEF t, e
      <4>2. Append(t, e) \in Seq(LogKinds) /\ Len(Append(t, e)) = Len(t) + 1
        BY <4>1
      <4> QED
        BY <4>1, <4>2 DEF t
    <3> QED
      BY <2>1, <3>3, <3>5
  <2>5. CASE logs[n + 1] # "swap"
    <3>1. SwapsTo(logs, n + 1) = SwapsTo(logs, n)
      BY <2>5 DEF SwapsTo
    <3> QED
      BY <2>1, <2>3, <2>5, <3>1
  <2> QED
    BY <2>4, <2>5
<1> HIDE DEF P
<1>3. 0 \in S /\ \A n \in S : n + 1 \in S
  BY <1>1, <1>2
<1>4. S = Nat
  BY <1>3, Induction
<1>5. P(N)
  BY <1>0, <1>4
<1> QED
  BY <1>0, <1>5 DEF P

\* The loop is defined for the logs of every receipt.
LEMMA LoopExists ==
  ASSUME NEW logs \in Seq(LogKinds)
  PROVE  \E f : f = [n \in 0 .. Len(logs) |->
                       IF n = 0 THEN << >>
                       ELSE IF logs[n] = "swap" THEN Append(f[n - 1], logs[n]) ELSE f[n - 1]]
<1> DEFINE Is(f, m) ==
      f = [n \in 0 .. m |->
             IF n = 0 THEN << >>
             ELSE IF logs[n] = "swap" THEN Append(f[n - 1], logs[n]) ELSE f[n - 1]]
           S == {m \in Nat : \E f : Is(f, m)}
<1>1. 0 \in S
  <2>1. Is([n \in 0 .. 0 |-> << >>], 0)
    OBVIOUS
  <2> QED
    BY <2>1
<1>2. ASSUME NEW m \in S PROVE m + 1 \in S
  <2>1. m \in Nat
    OBVIOUS
  <2>2. PICK f : Is(f, m)
    OBVIOUS
  <2> DEFINE last == IF logs[m + 1] = "swap" THEN Append(f[m], logs[m + 1]) ELSE f[m]
             g == [n \in 0 .. m + 1 |-> IF n = m + 1 THEN last ELSE f[n]]
             h == [n \in 0 .. m + 1 |->
                     IF n = 0 THEN << >>
                     ELSE IF logs[n] = "swap" THEN Append(g[n - 1], logs[n]) ELSE g[n - 1]]
  <2>3. ASSUME NEW n \in 0 .. m + 1 PROVE g[n] = h[n]
    <3> HIDE DEF last
    <3>1. CASE n = m + 1
      <4>1. g[n] = last /\ n # 0 /\ g[n - 1] = f[m]
        BY <2>1, <3>1
      <4> QED
        BY <3>1, <4>1 DEF last
    <3>2. CASE n # m + 1
      <4>1. n \in 0 .. m /\ g[n] = f[n] /\ (n # 0 => n - 1 \in 0 .. m /\ g[n - 1] = f[n - 1])
        BY <2>1, <3>2
      <4> QED
        BY <2>2, <4>1
    <3> QED
      BY <3>1, <3>2
  <2>4. g = h
    <3> HIDE DEF last
    <3> QED
      BY <2>3
  <2>5. Is(g, m + 1)
    BY <2>4
  <2> HIDE DEF Is, g
  <2> QED
    BY <2>1, <2>5
<1> HIDE DEF Is
<1>3. S \in SUBSET Nat /\ \A m \in S : m + 1 \in S
  BY <1>2
<1>4. Len(logs) \in S
  <2>1. Len(logs) \in Nat
    OBVIOUS
  <2> HIDE DEF S
  <2> QED
    BY <1>1, <1>3, <2>1, Induction
<1>5. PICK f : Is(f, Len(logs))
  BY <1>4
<1> QED
  BY <1>5 DEF Is

\* ParseSwapReceipt finds every Swap log of a receipt and counts none twice.
LEMMA SwapLogsCount ==
  ASSUME NEW logs \in Seq(LogKinds)
  PROVE  Len(SwapLogs(logs)) = Cardinality({k \in DOMAIN logs : logs[k] = "swap"})
<1> DEFINE Is(f) ==
      f = [n \in 0 .. Len(logs) |->
             IF n = 0 THEN << >>
             ELSE IF logs[n] = "swap" THEN Append(f[n - 1], logs[n]) ELSE f[n - 1]]
           result == CHOOSE f : Is(f)
<1>1. SwapLogs(logs) = result[Len(logs)]
  BY DEF SwapLogs
<1>2. \E f : Is(f)
  BY LoopExists
<1> HIDE DEF Is
<1>3. Is(result)
  BY <1>2
<1> HIDE DEF result
<1>4. Len(result[Len(logs)]) = Cardinality(SwapsTo(logs, Len(logs)))
  BY <1>3, SwapsCounted DEF Is
<1>5. SwapsTo(logs, Len(logs)) = {k \in DOMAIN logs : logs[k] = "swap"}
  BY DEF SwapsTo
<1> QED
  BY <1>1, <1>4, <1>5

\* What a caller has signed is what bind prepared, it waits only for what it signed, and
\* what it has read is the receipt of that transaction.
Follows(c) ==
  /\ signed[c] # NoTx => signed[c].contents = unsigned[c]
  /\ pc[c] \in {"poll", "sleep", "parsed"} => signed[c] # NoTx
  /\ pc[c] = "parsed" =>
       \E m \in mined : m.tx = signed[c] /\ outcome[c] = ParseSwapReceipt(m.receipt)

ReceiptInv ==
  /\ outcome = [c \in Callers |-> outcome[c]]
  /\ \A m \in mined : m.receipt \in Receipts
  /\ \A c \in Callers : Follows(c)

\* A caller whose part does not change keeps what it read.
LEMMA FollowsStill ==
  ASSUME NEW c \in Callers, Follows(c), mined \subseteq mined',
         pc'[c] = pc[c], signed'[c] = signed[c], unsigned'[c] = unsigned[c],
         outcome'[c] = outcome[c]
  PROVE  Follows(c)'
BY DEF Follows

\* The steps of a call keep what its caller may follow up.
LEMMA SubmitFollows ==
  ASSUME TxInv, NEW c \in Callers, Follows(c), Submit(c)
  PROVE  Follows(c)'
<1> USE DEF TxInv, TxType
<1>1. CASE Refuse(c) \/ PrepareFails(c) \/ SignFails(c)
  <2>1. UNCHANGED << unsigned, signed >> /\ Return(c, NoTx, TRUE)
    BY <1>1 DEF Refuse, PrepareFails, SignFails
  <2>2. pc'[c] = "done"
    BY <2>1 DEF Return, Goto
  <2> QED
    BY <2>1, <2>2 DEF Follows
<1>2. CASE Start(c) \/ Prepare(c)
  <2>1. UNCHANGED signed /\ signed[c] = NoTx
    BY <1>2 DEF Start, Prepare, At, CallerInv
  <2>2. pc'[c] \in {"prepare", "sign"}
    BY <1>2 DEF Start, Prepare, Goto
  <2> QED
    BY <2>1, <2>2 DEF Follows
<1>3. CASE Sign(c)
  <2>1. PICK altered \in Contents, tx \in SignedTxs :
          /\ SignedAsAsked(c, ExpectedHash(unsigned[c], altered), tx)
          /\ signed' = [signed EXCEPT ![c] = tx]
          /\ IF local[c].noSend THEN Return(c, tx, FALSE)
             ELSE Goto(c, "send") /\ UNCHANGED ret
    BY <1>3 DEF Sign
  <2>2. signed'[c] = tx /\ tx.contents = unsigned[c] /\ UNCHANGED unsigned
    BY <1>3, <2>1 DEF SignedAsAsked, ExpectedHash, Sign
  <2>3. pc'[c] \in {"send", "done"}
    BY <2>1 DEF Return, Goto
  <2> QED
    BY <2>2, <2>3 DEF Follows
<1>4. CASE Send(c) \/ SendAmbiguous(c)
  <2>1. UNCHANGED << unsigned, signed >>
    BY <1>4 DEF Send, SendAmbiguous
  <2>2. \E err \in BOOLEAN : Return(c, signed[c], err)
    BY <1>4 DEF Send, SendAmbiguous
  <2>3. pc'[c] = "done" \/ (pc'[c] = "poll" /\ signed[c] # NoTx)
    BY <2>2 DEF Return, Goto
  <2> QED
    BY <2>1, <2>3 DEF Follows
<1> QED
  BY <1>1, <1>2, <1>3, <1>4 DEF Submit

\* Waiting reads the receipt of the transaction that the call returned.
LEMMA AwaitFollows ==
  ASSUME TxInv, outcome = [d \in Callers |-> outcome[d]],
         NEW c \in Callers, Follows(c), Await(c)
  PROVE  Follows(c)'
<1> USE DEF TxInv, TxType
<1>1. UNCHANGED << unsigned, signed, mined >> /\ pc[c] \in {"poll", "sleep"}
  BY DEF Await, PollFinds, PollNotFound, PollFails, Wake, world, At
<1>2. signed[c] # NoTx /\ ret[c].tx = signed[c]
  BY <1>1 DEF Follows, CallerInv
<1>3. CASE PollFinds(c)
  <2>1. PICK m \in mined :
          m.tx = ret[c].tx /\ outcome' = [outcome EXCEPT ![c] = ParseSwapReceipt(m.receipt)]
    BY <1>3 DEF PollFinds
  <2>2. outcome'[c] = ParseSwapReceipt(m.receipt)
    BY <2>1
  <2> QED
    BY <1>1, <1>2, <2>1, <2>2 DEF Follows
<1>4. CASE PollNotFound(c) \/ PollFails(c) \/ Wake(c)
  <2>1. pc'[c] \in {"poll", "sleep", "done"}
    BY <1>4 DEF PollNotFound, PollFails, Wake, Goto
  <2> QED
    BY <1>1, <1>2, <2>1 DEF Follows
<1> QED
  BY <1>3, <1>4 DEF Await
\* Every step keeps what the callers may follow up.
LEMMA ReceiptStep ==
  ASSUME TxInv, ReceiptInv, [Next]_vars
  PROVE  ReceiptInv'
<1>1. ASSUME NEW c \in Callers, Submit(c) \/ Await(c) PROVE ReceiptInv'
  <2>1. UNCHANGED mined
    BY <1>1 DEF Submit, Await, Refuse, Start, Prepare, PrepareFails, Sign, SignFails, Send,
                SendAmbiguous, PollFinds, PollNotFound, PollFails, Wake, world
  <2>2. Follows(c)'
    BY <1>1, SubmitFollows, AwaitFollows DEF ReceiptInv
  <2>3. \E x : outcome' = [outcome EXCEPT ![c] = x]
    <3>1. CASE PollFinds(c)
      BY <3>1 DEF PollFinds
    <3>2. CASE UNCHANGED outcome
      <4>1. outcome' = [outcome EXCEPT ![c] = outcome[c]]
        BY <3>2 DEF ReceiptInv
      <4> QED
        BY <4>1
    <3> QED
      BY <1>1, <3>1, <3>2
      DEF Submit, Await, Refuse, Start, Prepare, PrepareFails, Sign, SignFails, Send,
          SendAmbiguous, PollNotFound, PollFails, Wake
  <2>4. outcome' = [d \in Callers |-> outcome'[d]]
    BY <2>3 DEF ReceiptInv
  <2>5. ASSUME NEW d \in Callers, d # c PROVE Follows(d)'
    <3>1. StepOf(c)
      BY <1>1, SubmitStep, SignStep, SendStep, AwaitStep DEF Submit
    <3>2. pc'[d] = pc[d] /\ signed'[d] = signed[d] /\ unsigned'[d] = unsigned[d]
      BY <2>5, <3>1 DEF StepOf, TxInv, TxType
    <3>3. outcome'[d] = outcome[d]
      BY <2>3, <2>5 DEF ReceiptInv
    <3> QED
      BY <2>1, <3>2, <3>3, FollowsStill DEF ReceiptInv
  <2> QED
    BY <2>1, <2>2, <2>4, <2>5 DEF ReceiptInv
<1>2. ASSUME NEW tx \in sent, Mine(tx) PROVE ReceiptInv'
  <2>1. PICK r \in Receipts : mined' = mined \cup {[ tx |-> tx, receipt |-> r ]}
    BY <1>2 DEF Mine
  <2>2. UNCHANGED << pc, signed, unsigned, outcome >>
    BY <1>2 DEF Mine
  <2>3. \A m \in mined' : m.receipt \in Receipts
    BY <2>1 DEF ReceiptInv
  <2> QED
    BY <2>1, <2>2, <2>3, FollowsStill DEF ReceiptInv
<1>3. CASE (\E c \in Callers : Cancel(c)) \/ UNCHANGED vars
  <2>1. UNCHANGED << pc, signed, unsigned, outcome, mined >>
    BY <1>3 DEF Cancel, world, vars
  <2> QED
    BY <2>1, FollowsStill DEF ReceiptInv
<1> QED
  BY <1>1, <1>2, <1>3 DEF Next

\* From the call to its events, for any number of callers and logs: what reaches the node
\* was prepared for a caller, and a caller that reads events reads every Swap event of its
\* own, successful transaction and no other (transact, WaitReceipt, ParseSwapReceipt).
THEOREM Executed == Spec => []ExecutedAsPrepared
<1>1. Init => ReceiptInv
  BY DEF Init, ReceiptInv, Follows
<1>2. Spec => []ReceiptInv
  BY <1>1, ReceiptStep, TxAlways, PTL DEF Spec
<1>3. ReceiptInv => EventsAreOwn
  <2> SUFFICES ASSUME ReceiptInv, NEW c \in Callers, pc[c] = "parsed",
                      outcome[c] # << "error" >>
               PROVE  \E m \in mined :
                        /\ m.tx.contents = unsigned[c] /\ m.receipt.success
                        /\ Len(outcome[c]) =
                             Cardinality({k \in DOMAIN m.receipt.logs :
                                            m.receipt.logs[k] = "swap"})
    BY DEF EventsAreOwn
  <2>1. PICK m \in mined : m.tx = signed[c] /\ outcome[c] = ParseSwapReceipt(m.receipt)
    BY DEF ReceiptInv, Follows
  <2> DEFINE r == m.receipt
  <2>2. m.tx.contents = unsigned[c] /\ r \in Receipts
    BY <2>1 DEF ReceiptInv, Follows
  <2>3. r.logs \in Seq(LogKinds) /\ r.success \in BOOLEAN
    BY <2>2, TransactAssumption
  <2> HIDE DEF r
  <2>4. outcome[c] = ParseSwapReceipt(r)
    BY <2>1 DEF r
  <2>5. r.success /\ outcome[c] = SwapLogs(r.logs)
    BY <2>4 DEF ParseSwapReceipt
  <2>6. Len(SwapLogs(r.logs)) = Cardinality({k \in DOMAIN r.logs : r.logs[k] = "swap"})
    BY <2>3, SwapLogsCount
  <2> QED
    BY <2>2, <2>5, <2>6 DEF r
<1> QED
  BY <1>2, <1>3, Prepared, PTL DEF ExecutedAsPrepared

=============================================================================
