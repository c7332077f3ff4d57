--------------------------- MODULE SubmissionProofs ---------------------------
(***************************************************************************)
(* What reaches L1: for any number of blocks, attempts, lost answers, late *)
(* transactions, deaths of the process and batches of others, L1 accepts   *)
(* committed blocks in order and as a chain, and the prover confirms only  *)
(* what L1 accepted.                                                       *)
(***************************************************************************)
EXTENDS SequencerProofs

USE BridgeAssumption, SequencerAssumption

-----------------------------------------------------------------------------
(* The inductive invariant.                                                *)

\* A transaction in flight carries the roots of the committed block whose
\* number it has, whichever process sent it.
SentBlocks ==
  \A i \in DOMAIN l1Sent :
    /\ l1Sent[i].num \in 0..Len(ledger) - 1
    /\ l1Sent[i].values.preStateRoot
         = ledger[l1Sent[i].num + 1].block.pre_state_root
    /\ l1Sent[i].values.postStateRoot
         = ledger[l1Sent[i].num + 1].block.post_state_root

\* What was sent or accepted is not newer than anything that is still queued
\* and may be sent, and was sent in the order of the block numbers.
SentOrder ==
  /\ \A i, j \in DOMAIN l1Sent : i <= j => l1Sent[i].num <= l1Sent[j].num
  /\ \A n \in OnL1, j \in DOMAIN l1Sent : n <= l1Sent[j].num
  /\ \A i \in DOMAIN l1Sent, k \in DOMAIN pending : l1Sent[i].num <= k
  /\ \A n \in OnL1, k \in DOMAIN pending : n <= k

\* The transaction the prover waits for is the last one in flight; once it is
\* mined, the receipt is the answer to it.
ReceiptInv ==
  /\ pw.pc = "await" =>
       IF l1Sent = << >> THEN receipt = "ok" => pw.num \in OnL1
       ELSE l1Sent[Len(l1Sent)].num = pw.num
  /\ L1Enabled /\ pw.pc = "confirm" => pw.num \in OnL1

L1Inv ==
  /\ SentBlocks /\ FinalizedChain
  /\ SentOrder /\ FinalizedInOrder
  /\ ReceiptInv /\ ConfirmedIsFinalized

-----------------------------------------------------------------------------
(* The steps.                                                              *)

\* Every other step leaves L1 and the ledger alone, takes at most a block out
\* of the queue, and does not start to wait for or to act on a receipt.
L1Quiet ==
  /\ UNCHANGED <<stateRoot, l1Sent, receipt, finalized, ledger, confirmed>>
  /\ DOMAIN pending' \subseteq DOMAIN pending
  /\ pw' = pw \/ pw'.pc \notin {"await", "confirm"}

\* user_call changes no root.
LEMMA UserCallRoot ==
  ASSUME UserCall
  PROVE  stateRoot' = stateRoot
BY UserCallCases DEF enqueue, withdraw

\* The steps that matter to what is on its way to L1.
LEMMA L1Moves ==
  ASSUME TypeOK, Next
  PROVE  \/ \E answered \in BOOLEAN : submit_proof(TRUE, answered)
         \/ mine_accepts \/ mine_reverts \/ outside_update
         \/ commit_block \/ prove \/ get_receipt \/ confirm_block
         \/ L1Quiet
<1> USE DEF l1Vars, bridgeVars, memoryVars, historyVars, storeVars
<1>0. pw \in PwStates /\ RetriesOK
  BY DEF TypeOK
<1>1. CASE OptimisticStep \/ OptimisticFails
  BY <1>1 DEF OptimisticStep, OptimisticFails, fetch_processed, fetch_messages,
     snapshot_mempool, apply_batch, drain_mempool, fetch_fails, apply_fails,
     commit_fails, L1Quiet
<1>2. CASE handle_submit_tx
  BY <1>2 DEF handle_submit_tx, L1Quiet
<1>3. CASE user_call
  BY <1>3, UserCallRoot DEF user_call, sequencerVars, L1Quiet
<1>4. CASE restart
  BY <1>4 DEF restart, PwStart, L1Quiet
<1>5. ASSUME NEW n \in DOMAIN pending, peek_block(n)
      PROVE  L1Quiet
  BY <1>5 DEF peek_block, PwStart, L1Quiet
<1>6. CASE generate_proofs
  BY <1>0, <1>6 DEF generate_proofs, PwStates, L1Quiet
<1>7. CASE fail_block
  BY <1>0, <1>7 DEF fail_block, push_failed, PwStates, L1Quiet
<1>8. CASE remove_block
  BY <1>8 DEF remove_block, remove_pending, Delete, PwStart, L1Quiet
<1>9. CASE queue_fails
  BY <1>0, <1>9 DEF queue_fails, Dead, PwStates, L1Quiet
<1>10. ASSUME receipt_fails \/ prove_fails
              \/ \E panics \in BOOLEAN : generate_fails(panics)
       PROVE  L1Quiet
  <2>1. pw.pc \in {"await", "prove", "generate"} /\ pw.retries < MaxRetries
    BY <1>0, <1>10 DEF receipt_fails, prove_fails, generate_fails, RetriesOK
  <2>2. pw' = Failed(pw)
        /\ UNCHANGED <<stateRoot, l1Sent, receipt, finalized, ledger, confirmed,
                       pending>>
    BY <1>10 DEF receipt_fails, prove_fails, generate_fails
  <2> QED BY <1>0, <2>1, <2>2, FailedType DEF L1Quiet
<1>11. ASSUME NEW answered \in BOOLEAN, submit_proof(FALSE, answered)
       PROVE  L1Quiet
  <2>1. pw.pc = "submit" /\ pw.retries < MaxRetries
    BY <1>0, <1>11 DEF submit_proof, RetriesOK
  <2>2. pw' = Failed(pw)
        /\ UNCHANGED <<stateRoot, l1Sent, receipt, finalized, ledger, confirmed,
                       pending>>
    BY <1>11 DEF submit_proof
  <2> QED BY <1>0, <2>1, <2>2, FailedType DEF L1Quiet
<1> QED BY <1>1, <1>2, <1>3, <1>4, <1>5, <1>6, <1>7, <1>8, <1>9, <1>10, <1>11
        DEF Next, L1Step, ProverStep, ProverFails

\* Types of what the invariant is about.
LEMMA L1Types ==
  ASSUME TypeOK
  PROVE  /\ l1Sent \in Seq([num : Nat, values : BatchValues])
         /\ finalized \in Seq([num : Nat \cup {Outsider}, pre : Roots, post : Roots])
         /\ ledger \in Seq([block : Blocks, start : [Streams -> Nat]])
         /\ DOMAIN pending \subseteq Nat
         /\ pw \in PwStates
BY DEF TypeOK, L1TypeOK, HistoryTypeOK, DiskTypeOK

\* A step that leaves L1 and the ledger alone.
LEMMA QuietL1 ==
  ASSUME L1Inv, L1Quiet
  PROVE  L1Inv'
<1> USE DEF L1Quiet
<1>1. OnL1' = OnL1
  BY DEF OnL1, Own
<1>2. SentBlocks' /\ FinalizedChain'
  BY DEF L1Inv, SentBlocks, FinalizedChain, FinalizedCommitted, RootChain, Own
<1>3. SentOrder' /\ FinalizedInOrder'
  BY <1>1 DEF L1Inv, SentOrder, FinalizedInOrder, Own
<1>4. ReceiptInv' /\ ConfirmedIsFinalized'
  BY <1>1 DEF L1Inv, ReceiptInv, ConfirmedIsFinalized
<1> QED BY <1>2, <1>3, <1>4 DEF L1Inv

\* submit_proof_to_l1: the block in hand is the oldest one queued, so its
\* transaction belongs behind everything that was sent before.
LEMMA SubmitL1 ==
  ASSUME TypeOK, QueueInv, FirstInv, L1Inv,
         NEW answered \in BOOLEAN, submit_proof(TRUE, answered)
  PROVE  L1Inv'
<1> DEFINE b == pw.block
           pv == PublicValues(b.pre_state_root, b.post_state_root, b.messages)
           tx == [num |-> pw.num, values |-> pv]
           n == Len(l1Sent)
<1>1. /\ l1Sent' = Append(l1Sent, tx)
      /\ UNCHANGED <<stateRoot, receipt, finalized, ledger, confirmed, pending>>
  BY DEF submit_proof, bridgeVars, storeVars, historyVars
<1>2. /\ pw.num \in DOMAIN pending /\ pw.num \in 0..Len(ledger) - 1
      /\ b = ledger[pw.num + 1].block
      /\ \A k \in DOMAIN pending : pw.num <= k
  BY DEF submit_proof, QueueInv, InHandInv, StoreInv, FirstInv, InHand
<1>3. n \in Nat /\ DOMAIN l1Sent = 1..n
  BY L1Types
<1>4. /\ DOMAIN l1Sent' = 1..n + 1 /\ Len(l1Sent') = n + 1
      /\ l1Sent'[n + 1] = tx
      /\ \A i \in 1..n : l1Sent'[i] = l1Sent[i]
  <2> HIDE DEF tx
  <2> QED BY <1>1, L1Types
<1>5. /\ tx.num = pw.num /\ tx.values.preStateRoot = b.pre_state_root
      /\ tx.values.postStateRoot = b.post_state_root
  BY DEF PublicValues
<1> HIDE DEF tx, n, b
<1>6. SentBlocks'
  <2>1. ASSUME NEW i \in 1..n + 1
        PROVE  /\ l1Sent'[i].num \in 0..Len(ledger) - 1
               /\ l1Sent'[i].values.preStateRoot
                    = ledger[l1Sent'[i].num + 1].block.pre_state_root
               /\ l1Sent'[i].values.postStateRoot
                    = ledger[l1Sent'[i].num + 1].block.post_state_root
    <3>1. CASE i = n + 1
      BY <1>2, <1>4, <1>5, <3>1
    <3>2. CASE i \in 1..n
      BY <1>3, <1>4, <3>2 DEF L1Inv, SentBlocks
    <3> QED BY <1>3, <3>1, <3>2
  <2> QED BY <1>1, <1>4, <2>1 DEF SentBlocks
<1>0. OnL1' = OnL1
  BY <1>1 DEF OnL1, Own
<1>7. SentOrder'
  <2>1. \A i \in 1..n : l1Sent[i].num <= pw.num
    BY <1>2, <1>3 DEF L1Inv, SentOrder
  <2>2. \A k \in OnL1 : k <= pw.num
    BY <1>2 DEF L1Inv, SentOrder
  <2>3. \A i, j \in 1..n + 1 : i <= j => l1Sent'[i].num <= l1Sent'[j].num
    <3>1. pw.num \in Nat
      BY L1Types DEF PwStates
    <3>2. \A i, j \in 1..n : i <= j => l1Sent[i].num <= l1Sent[j].num
      BY <1>3 DEF L1Inv, SentOrder
    <3> QED BY <1>3, <1>4, <1>5, <2>1, <3>1, <3>2
  <2>4. \A k \in OnL1, j \in 1..n + 1 : k <= l1Sent'[j].num
    BY <1>3, <1>4, <1>5, <2>2 DEF L1Inv, SentOrder
  <2>5. \A i \in 1..n + 1, k \in DOMAIN pending : l1Sent'[i].num <= k
    <3>1. \A i \in 1..n, k \in DOMAIN pending : l1Sent[i].num <= k
      BY <1>3 DEF L1Inv, SentOrder
    <3>2. \A i \in 1..n + 1 : i \in 1..n \/ i = n + 1
      BY <1>3
    <3> QED BY <1>2, <1>4, <1>5, <3>1, <3>2
  <2> QED BY <1>0, <1>1, <1>4, <2>3, <2>4, <2>5 DEF L1Inv, SentOrder
<1>8. ReceiptInv'
  <2>1. pw.pc = "submit" /\ pw.retries < MaxRetries /\ pw \in PwStates
    BY L1Types DEF submit_proof, TypeOK, RetriesOK
  <2>2. pw' = [pw EXCEPT !.pc = "await"] \/ pw' = Failed(pw)
    BY DEF submit_proof
  <2>3. pw'.num = pw.num /\ pw'.pc # "confirm"
    BY <2>1, <2>2, FailedType DEF PwStates
  <2>4. l1Sent' # << >> /\ l1Sent'[Len(l1Sent')].num = pw.num
    BY <1>3, <1>4, <1>5
  <2> QED BY <2>3, <2>4 DEF ReceiptInv
<1> QED BY <1>0, <1>1, <1>6, <1>7, <1>8
        DEF L1Inv, FinalizedChain, FinalizedCommitted, RootChain, FinalizedInOrder,
            Own, ConfirmedIsFinalized

\* The first transaction in flight leaves the queue of transactions.
LEMMA MinedSent ==
  ASSUME TypeOK, l1Sent # << >>, l1Sent' = Tail(l1Sent)
  PROVE  LET n == Len(l1Sent)
         IN  /\ n \in Nat \ {0} /\ DOMAIN l1Sent = 1..n
             /\ DOMAIN l1Sent' = 1..n - 1 /\ Len(l1Sent') = n - 1
             /\ \A i \in 1..n - 1 : l1Sent'[i] = l1Sent[i + 1] /\ i + 1 \in 1..n
             /\ Head(l1Sent) = l1Sent[1] /\ 1 \in 1..n
             /\ l1Sent' = << >> <=> n = 1
<1> DEFINE n == Len(l1Sent)
           S == [num : Nat, values : BatchValues]
<1>1. l1Sent \in Seq(S)
  BY L1Types
<1> HIDE DEF S
<1>2. n \in Nat \ {0} /\ DOMAIN l1Sent = 1..n
  BY <1>1, EmptySeq, LenProperties
<1>3. /\ l1Sent' \in Seq(S) /\ Len(l1Sent') = n - 1
      /\ \A i \in 1..n - 1 : l1Sent'[i] = l1Sent[i + 1]
  BY <1>1, HeadTailProperties
<1>4. Head(l1Sent) = l1Sent[1]
  BY <1>1
<1>5. DOMAIN l1Sent' = 1..n - 1
  BY <1>3, LenProperties
<1>6. l1Sent' = << >> <=> n = 1
  <2>1. l1Sent' = << >> <=> Len(l1Sent') = 0
    BY <1>3, EmptySeq
  <2> HIDE DEF n
  <2> QED BY <1>2, <1>3, <2>1
<1>7. 1 \in 1..n /\ \A i \in 1..n - 1 : i + 1 \in 1..n
  BY <1>2
<1> QED BY <1>2, <1>3, <1>4, <1>5, <1>6, <1>7

\* The first transaction in flight is not newer than the others.
LEMMA MinedOrder ==
  ASSUME TypeOK, L1Inv, l1Sent # << >>, l1Sent' = Tail(l1Sent),
         UNCHANGED pending
  PROVE  /\ \A i, j \in DOMAIN l1Sent' : i <= j => l1Sent'[i].num <= l1Sent'[j].num
         /\ \A k \in OnL1, j \in DOMAIN l1Sent' : k <= l1Sent'[j].num
         /\ \A i \in DOMAIN l1Sent', k \in DOMAIN pending : l1Sent'[i].num <= k
         /\ \A j \in DOMAIN l1Sent' : l1Sent[1].num <= l1Sent'[j].num
         /\ \A k \in OnL1 : k <= l1Sent[1].num
         /\ \A k \in DOMAIN pending : l1Sent[1].num <= k
<1> DEFINE n == Len(l1Sent)
<1>1. /\ n \in Nat \ {0} /\ DOMAIN l1Sent = 1..n
      /\ DOMAIN l1Sent' = 1..n - 1
      /\ \A i \in 1..n - 1 : l1Sent'[i] = l1Sent[i + 1] /\ i + 1 \in 1..n
      /\ 1 \in 1..n
  BY MinedSent
<1> HIDE DEF n
<1>2. SentOrder
  BY DEF L1Inv
<1>3. \A i, j \in 1..n - 1 : i <= j => l1Sent'[i].num <= l1Sent'[j].num
  <2> SUFFICES ASSUME NEW i \in 1..n - 1, NEW j \in 1..n - 1, i <= j
               PROVE  l1Sent'[i].num <= l1Sent'[j].num
    OBVIOUS
  <2>1. i + 1 \in 1..n /\ j + 1 \in 1..n /\ i + 1 <= j + 1
    BY <1>1
  <2> QED BY <1>1, <1>2, <2>1 DEF SentOrder
<1>4. \A j \in 1..n - 1 : l1Sent[1].num <= l1Sent'[j].num
  <2> SUFFICES ASSUME NEW j \in 1..n - 1
               PROVE  l1Sent[1].num <= l1Sent'[j].num
    OBVIOUS
  <2>1. j + 1 \in 1..n /\ 1 <= j + 1
    BY <1>1
  <2> QED BY <1>1, <1>2, <2>1 DEF SentOrder
<1> QED BY <1>1, <1>2, <1>3, <1>4 DEF SentOrder

\* A transaction in flight still carries its block after another was mined.
LEMMA MinedBlocks ==
  ASSUME TypeOK, SentBlocks, l1Sent # << >>, l1Sent' = Tail(l1Sent),
         UNCHANGED ledger
  PROVE  SentBlocks'
<1> SUFFICES ASSUME NEW i \in DOMAIN l1Sent'
             PROVE  /\ l1Sent'[i].num \in 0..Len(ledger) - 1
                    /\ l1Sent'[i].values.preStateRoot
                         = ledger[l1Sent'[i].num + 1].block.pre_state_root
                    /\ l1Sent'[i].values.postStateRoot
                         = ledger[l1Sent'[i].num + 1].block.post_state_root
  BY DEF SentBlocks
<1>1. i + 1 \in DOMAIN l1Sent /\ l1Sent'[i] = l1Sent[i + 1]
  BY MinedSent
<1> QED BY <1>1 DEF SentBlocks

\* A transaction that reverts changes nothing, and is no confirmation.
LEMMA RevertL1 ==
  ASSUME TypeOK, L1Inv, mine_reverts
  PROVE  L1Inv'
<1>1. /\ l1Sent # << >> /\ l1Sent' = Tail(l1Sent) /\ receipt' = "reverted"
      /\ UNCHANGED <<stateRoot, finalized, ledger, confirmed, pending, pw>>
  BY DEF mine_reverts, bridgeVars, sequencerVars, storeVars, historyVars
<1>0. OnL1' = OnL1
  BY <1>1 DEF OnL1, Own
<1>2. SentBlocks' /\ FinalizedChain'
  BY <1>1, MinedBlocks
     DEF L1Inv, FinalizedChain, FinalizedCommitted, RootChain, Own
<1>3. SentOrder' /\ FinalizedInOrder'
  BY <1>0, <1>1, MinedOrder DEF L1Inv, SentOrder, FinalizedInOrder, Own
<1>4. ReceiptInv'
  <2>1. l1Sent' # << >> => l1Sent'[Len(l1Sent')] = l1Sent[Len(l1Sent)]
    BY <1>1, MinedSent
  <2> QED BY <1>0, <1>1, <2>1 DEF L1Inv, ReceiptInv
<1> QED BY <1>0, <1>1, <1>2, <1>3, <1>4 DEF L1Inv, ConfirmedIsFinalized

\* What an accepted batch adds to the list of accepted ones: a block of the
\* sequencer its number, a batch of somebody else nothing.
LEMMA AcceptedList ==
  ASSUME TypeOK, NEW num \in Nat \cup {Outsider}, NEW pv \in BatchValues,
         finalized' = Append(finalized, Accepted(num, pv))
  PROVE  LET m == Len(finalized)
         IN  /\ m \in Nat /\ DOMAIN finalized = 1..m
             /\ DOMAIN finalized' = 1..m + 1 /\ Len(finalized') = m + 1
             /\ finalized'[m + 1] = Accepted(num, pv) /\ finalized' # << >>
             /\ \A i \in 1..m : finalized'[i] = finalized[i]
             /\ OnL1' = OnL1 \cup ({num} \ {Outsider})
<1> DEFINE m == Len(finalized)
           a == Accepted(num, pv)
<1>1. m \in Nat /\ DOMAIN finalized = 1..m
  BY L1Types
<1>2. finalized' = Append(finalized, a) /\ a.num = num
  BY DEF Accepted
<1> DEFINE S == [num : Nat \cup {Outsider}, pre : Roots, post : Roots]
<1>0. finalized \in Seq(S) /\ a \in S
  BY L1Types DEF Accepted, BatchValues
<1> HIDE DEF a, S
<1>3. /\ DOMAIN finalized' = 1..m + 1 /\ Len(finalized') = m + 1
      /\ finalized'[m + 1] = a /\ finalized' # << >>
      /\ \A i \in 1..m : finalized'[i] = finalized[i]
  BY <1>0, <1>2
<1> HIDE DEF m
<1>4. OnL1' = OnL1 \cup ({num} \ {Outsider})
  <2>1. \A i \in 1..m + 1 : i \in 1..m \/ i = m + 1
    BY <1>1
  <2>2. \A i \in 1..m : i \in 1..m + 1
    BY <1>1
  <2>3. m + 1 \in 1..m + 1
    BY <1>1
  <2>4. \A k : k \in OnL1 <=> \E i \in 1..m : finalized[i].num = k /\ k # Outsider
    BY <1>1 DEF OnL1, Own
  <2>5. \A k : k \in OnL1' <=>
               \E i \in 1..m + 1 : finalized'[i].num = k /\ k # Outsider
    BY <1>3 DEF OnL1, Own
  <2>6. ASSUME NEW k
        PROVE  k \in OnL1' <=> k \in OnL1 \cup ({num} \ {Outsider})
    <3>1. ASSUME k \in OnL1'
          PROVE  k \in OnL1 \cup ({num} \ {Outsider})
      <4>1. PICK i \in 1..m + 1 : finalized'[i].num = k /\ k # Outsider
        BY <2>5, <3>1
      <4> QED BY <1>2, <1>3, <2>1, <2>4, <4>1
    <3>2. ASSUME k \in OnL1
          PROVE  k \in OnL1'
      BY <1>3, <2>2, <2>4, <2>5, <3>2
    <3>3. ASSUME k = num, k # Outsider
          PROVE  k \in OnL1'
      BY <1>2, <1>3, <2>3, <2>5, <3>3
    <3> QED BY <3>1, <3>2, <3>3
  <2> QED BY <2>6
<1> QED BY <1>1, <1>3, <1>4 DEF m, a

\* updateState accepts a batch only from the contract's root, so the batch
\* continues the chain, whoever submitted it.
LEMMA AcceptChain ==
  ASSUME TypeOK, RootChain, NEW num \in Nat \cup {Outsider}, NEW pv \in BatchValues,
         updateState(pv), finalized' = Append(finalized, Accepted(num, pv))
  PROVE  RootChain'
<1> DEFINE m == Len(finalized)
<1>1. stateRoot = pv.preStateRoot /\ stateRoot' = pv.postStateRoot
  BY DEF updateState, Acceptable
<1>2. /\ m \in Nat /\ DOMAIN finalized = 1..m
      /\ DOMAIN finalized' = 1..m + 1 /\ Len(finalized') = m + 1
      /\ finalized'[m + 1].pre = stateRoot /\ finalized'[m + 1].post = stateRoot'
      /\ finalized' # << >>
      /\ \A i \in 1..m : finalized'[i] = finalized[i]
  BY <1>1, AcceptedList DEF Accepted
<1>3. /\ \A i \in 1..m :
           finalized[i].pre = IF i = 1 THEN InitialRoot ELSE finalized[i - 1].post
      /\ stateRoot = IF m = 0 THEN InitialRoot ELSE finalized[m].post
  <2>1. finalized = << >> <=> m = 0
    BY L1Types, EmptySeq
  <2> QED BY <1>2, <2>1 DEF RootChain
<1> HIDE DEF m
<1>4. ASSUME NEW i \in 1..m + 1
      PROVE  finalized'[i].pre =
               IF i = 1 THEN InitialRoot ELSE finalized'[i - 1].post
  <2>1. CASE i \in 1..m
    <3>1. i # 1 => i - 1 \in 1..m
      BY <1>2, <2>1
    <3> QED BY <1>2, <1>3, <2>1, <3>1
  <2>2. CASE i = m + 1
    <3>1. i # 1 => m \in 1..m /\ m # 0 /\ i - 1 = m
      BY <1>2, <2>2
    <3>2. i = 1 => m = 0
      BY <1>2, <2>2
    <3> QED BY <1>2, <1>3, <2>2, <3>1, <3>2
  <2> QED BY <1>2, <2>1, <2>2
<1> QED BY <1>2, <1>4 DEF RootChain

\* Everything the sequencer had accepted before was sent before, and is not
\* newer.
LEMMA AcceptL1 ==
  ASSUME TypeOK, L1Inv, mine_accepts
  PROVE  L1Inv'
<1> DEFINE t == l1Sent[1]
           m == Len(finalized)
           n == Len(l1Sent)
<1>1. /\ l1Sent # << >> /\ l1Sent' = Tail(l1Sent) /\ receipt' = "ok"
      /\ UNCHANGED <<ledger, confirmed, pending, pw>>
  BY DEF mine_accepts, sequencerVars, storeVars, historyVars
<1>2. /\ n \in Nat \ {0} /\ DOMAIN l1Sent = 1..n /\ 1 \in 1..n
      /\ DOMAIN l1Sent' = 1..n - 1 /\ Len(l1Sent') = n - 1
      /\ \A i \in 1..n - 1 : l1Sent'[i] = l1Sent[i + 1]
      /\ l1Sent' = << >> <=> n = 1
      /\ Head(l1Sent) = t
  BY <1>1, MinedSent
<1>3. t.num \in Nat /\ t.values \in BatchValues /\ t.num # Outsider
  <2> DEFINE S == [num : Nat, values : BatchValues]
  <2>1. l1Sent \in Seq(S)
    BY L1Types
  <2>2. t \in S
    <3> HIDE DEF S
    <3> QED BY <1>2, <2>1
  <2> QED BY <2>2 DEF Outsider
<1>4. updateState(t.values) /\ finalized' = Append(finalized, Accepted(t.num, t.values))
  BY <1>2 DEF mine_accepts
<1>5. /\ m \in Nat /\ DOMAIN finalized = 1..m
      /\ DOMAIN finalized' = 1..m + 1
      /\ finalized'[m + 1] = Accepted(t.num, t.values)
      /\ \A i \in 1..m : finalized'[i] = finalized[i]
      /\ OnL1' = OnL1 \cup {t.num}
  BY <1>3, <1>4, AcceptedList
<1>6. /\ t.num \in 0..Len(ledger) - 1
      /\ t.values.preStateRoot = ledger[t.num + 1].block.pre_state_root
      /\ t.values.postStateRoot = ledger[t.num + 1].block.post_state_root
  BY <1>2 DEF L1Inv, SentBlocks
<1> HIDE DEF t, m, n
<1>7. \A i \in DOMAIN finalized' :
        \/ i \in 1..m /\ finalized'[i] = finalized[i]
        \/ /\ i = m + 1 /\ finalized'[i].num = t.num
           /\ finalized'[i].pre = t.values.preStateRoot
           /\ finalized'[i].post = t.values.postStateRoot
  BY <1>5 DEF Accepted
<1>8. SentBlocks' /\ FinalizedChain'
  <2>1. t.num + 1 \in DOMAIN ledger
    BY <1>6, L1Types
  <2>2. FinalizedCommitted'
    BY <1>1, <1>5, <1>6, <1>7, <2>1
       DEF L1Inv, FinalizedChain, FinalizedCommitted, Own
  <2>3. RootChain'
    BY <1>3, <1>4, AcceptChain DEF L1Inv, FinalizedChain
  <2> QED BY <1>1, <2>2, <2>3, MinedBlocks DEF L1Inv, FinalizedChain
<1>9. SentOrder'
  <2>1. \A k \in OnL1', j \in DOMAIN l1Sent' : k <= l1Sent'[j].num
    BY <1>1, <1>5, MinedOrder DEF t
  <2>2. \A k \in OnL1', p \in DOMAIN pending : k <= p
    BY <1>1, <1>5, MinedOrder DEF t, L1Inv, SentOrder
  <2> QED BY <1>1, <2>1, <2>2, MinedOrder DEF SentOrder
<1>10. FinalizedInOrder'
  <2>1. \A i \in 1..m : Own(i) => finalized[i].num <= t.num
    BY <1>1, <1>5, MinedOrder DEF t, OnL1
  <2>2. \A i, j \in 1..m :
          i <= j /\ Own(i) /\ Own(j) => finalized[i].num <= finalized[j].num
    BY <1>5 DEF L1Inv, FinalizedInOrder
  <2>3. ASSUME NEW i \in 1..m + 1, NEW j \in 1..m + 1, i <= j, Own(i)', Own(j)'
        PROVE  finalized'[i].num <= finalized'[j].num
    <3>1. CASE i \in 1..m /\ j \in 1..m
      BY <1>5, <2>2, <2>3, <3>1 DEF Own
    <3>2. CASE i \in 1..m /\ j = m + 1
      BY <1>5, <1>7, <2>1, <2>3, <3>2 DEF Own
    <3>3. CASE i = m + 1
      <4>1. j = m + 1
        BY <1>5, <2>3, <3>3
      <4> QED BY <1>3, <1>5, <1>7, <3>3, <4>1
    <3> QED BY <1>5, <3>1, <3>2, <3>3
  <2> QED BY <1>5, <2>3 DEF FinalizedInOrder
<1>11. ReceiptInv'
  <2>1. l1Sent' # << >> => l1Sent'[Len(l1Sent')] = l1Sent[n]
    BY <1>2
  <2>2. l1Sent' = << >> => t = l1Sent[n]
    BY <1>2 DEF t
  <2>3. pw.pc = "await" => l1Sent[n].num = pw.num
    BY <1>1 DEF L1Inv, ReceiptInv, n
  <2> QED BY <1>1, <1>5, <2>1, <2>2, <2>3 DEF L1Inv, ReceiptInv
<1>12. ConfirmedIsFinalized'
  BY <1>1, <1>5 DEF L1Inv, ConfirmedIsFinalized
<1> QED BY <1>8, <1>9, <1>10, <1>11, <1>12 DEF L1Inv

\* A batch of somebody else moves the contract's root and nothing the
\* sequencer has sent or is waiting for.
LEMMA OutsideL1 ==
  ASSUME TypeOK, L1Inv, outside_update
  PROVE  L1Inv'
<1> DEFINE m == Len(finalized)
<1>1. PICK from \in Roots, to \in Roots, ms \in Batches :
        LET pv == PublicValues(from, to, ms)
        IN  updateState(pv) /\ finalized' = Append(finalized, Accepted(Outsider, pv))
  BY DEF outside_update
<1> DEFINE pv == PublicValues(from, to, ms)
<1>2. pv \in BatchValues
  BY PublicValuesType
<1>3. updateState(pv) /\ finalized' = Append(finalized, Accepted(Outsider, pv))
  BY <1>1
<1>4. UNCHANGED <<l1Sent, receipt, ledger, confirmed, pending, pw>>
  BY DEF outside_update, sequencerVars, storeVars, historyVars
<1> HIDE DEF pv
<1>5. /\ m \in Nat /\ DOMAIN finalized = 1..m /\ DOMAIN finalized' = 1..m + 1
      /\ finalized'[m + 1] = Accepted(Outsider, pv)
      /\ \A i \in 1..m : finalized'[i] = finalized[i]
      /\ OnL1' = OnL1
  BY <1>2, <1>3, AcceptedList
<1> HIDE DEF m
<1>6. \A i \in DOMAIN finalized' :
        Own(i)' => i \in DOMAIN finalized /\ Own(i) /\ finalized'[i] = finalized[i]
  BY <1>5 DEF Own, Accepted
<1>7. SentBlocks' /\ FinalizedChain'
  <2>1. FinalizedCommitted'
    BY <1>4, <1>6 DEF L1Inv, FinalizedChain, FinalizedCommitted
  <2>2. RootChain'
    BY <1>2, <1>3, AcceptChain DEF L1Inv, FinalizedChain
  <2> QED BY <1>4, <2>1, <2>2 DEF L1Inv, SentBlocks, FinalizedChain
<1>8. SentOrder' /\ FinalizedInOrder'
  BY <1>4, <1>5, <1>6 DEF L1Inv, SentOrder, FinalizedInOrder
<1>9. ReceiptInv' /\ ConfirmedIsFinalized'
  BY <1>4, <1>5 DEF L1Inv, ReceiptInv, ConfirmedIsFinalized
<1> QED BY <1>7, <1>8, <1>9 DEF L1Inv

\* A new block is newer than everything that was sent or accepted.
LEMMA CommitL1 ==
  ASSUME TypeOK, QueueInv, L1Inv, commit_block
  PROVE  L1Inv'
<1> DEFINE n == storedCounter
<1>1. /\ UNCHANGED <<stateRoot, l1Sent, receipt, finalized, confirmed, pw>>
      /\ DOMAIN pending' = DOMAIN pending \cup {n}
  BY CommitMoves DEF commit_block, l1Vars, bridgeVars
<1>2. /\ n \in Nat /\ Len(ledger) = n /\ DOMAIN ledger = 1..n
      /\ Len(ledger') = n + 1 /\ DOMAIN ledger' = 1..n + 1
      /\ \A k \in 1..n : ledger'[k] = ledger[k]
  BY CommitLedger
<1> HIDE DEF n
<1>3. \A i \in DOMAIN l1Sent : /\ l1Sent[i].num \in 0..n - 1
                               /\ l1Sent[i].num \in 0..n + 1 - 1
                               /\ l1Sent[i].num <= n
                               /\ ledger'[l1Sent[i].num + 1] = ledger[l1Sent[i].num + 1]
  BY <1>2 DEF L1Inv, SentBlocks
<1>4. \A i \in DOMAIN finalized :
        Own(i) => /\ finalized[i].num + 1 \in 1..n
                  /\ finalized[i].num <= n
                  /\ ledger'[finalized[i].num + 1] = ledger[finalized[i].num + 1]
  <2>1. \A i \in DOMAIN finalized :
          Own(i) => finalized[i].num + 1 \in 1..n /\ finalized[i].num \in Nat
    <3>1. \A i \in DOMAIN finalized : finalized[i].num \in Nat \cup {Outsider}
      <4> DEFINE S == [num : Nat \cup {Outsider}, pre : Roots, post : Roots]
      <4>1. finalized \in Seq(S)
        BY L1Types
      <4>2. \A i \in DOMAIN finalized : finalized[i] \in S
        <5> HIDE DEF S
        <5> QED BY <4>1
      <4> QED BY <4>2
    <3> QED BY <1>2, <3>1 DEF L1Inv, FinalizedChain, FinalizedCommitted, Own
  <2> QED BY <1>2, <2>1
<1>0. OnL1' = OnL1 /\ \A k \in OnL1 : k <= n
  BY <1>1, <1>4 DEF OnL1, Own
<1>5. SentBlocks'
  BY <1>1, <1>2, <1>3 DEF L1Inv, SentBlocks
<1>6. FinalizedChain'
  <2>1. 1..n \subseteq 1..n + 1
    BY <1>2
  <2>2. FinalizedCommitted'
    BY <1>1, <1>2, <1>4, <2>1 DEF L1Inv, FinalizedChain, FinalizedCommitted, Own
  <2> QED BY <1>1, <2>2 DEF L1Inv, FinalizedChain, RootChain
<1>7. SentOrder' /\ FinalizedInOrder'
  BY <1>0, <1>1, <1>3 DEF L1Inv, SentOrder, FinalizedInOrder, Own
<1>8. ReceiptInv' /\ ConfirmedIsFinalized'
  BY <1>0, <1>1 DEF L1Inv, ReceiptInv, ConfirmedIsFinalized
<1> QED BY <1>5, <1>6, <1>7, <1>8 DEF L1Inv

\* A step of the prover that leaves L1, the ledger and the queue alone has to
\* keep only what is said of the receipt and of the confirmed blocks.
LEMMA ProverL1 ==
  ASSUME L1Inv, ReceiptInv', ConfirmedIsFinalized',
         UNCHANGED <<stateRoot, l1Sent, finalized, ledger, pending>>
  PROVE  L1Inv'
<1>1. OnL1' = OnL1
  BY DEF OnL1, Own
<1> QED BY <1>1 DEF L1Inv, SentBlocks, FinalizedChain, FinalizedCommitted,
                    RootChain, SentOrder, FinalizedInOrder, Own

\* The other steps of the prover: it confirms a block only on its own receipt.
LEMMA SettleL1 ==
  ASSUME TypeOK, L1Inv, prove \/ get_receipt \/ confirm_block
  PROVE  L1Inv'
<1> USE DEF l1Vars, bridgeVars, storeVars, historyVars
<1>0. pw \in PwStates /\ RetriesOK /\ ReceiptInv /\ ConfirmedIsFinalized
  BY DEF TypeOK, L1Inv
<1>4. UNCHANGED finalized /\ OnL1' = OnL1
  <2>1. UNCHANGED finalized
    BY DEF prove, get_receipt, confirm_block
  <2> QED BY <2>1 DEF OnL1, Own
<1>1. CASE prove
  <2>1. ReceiptInv' /\ ConfirmedIsFinalized'
    BY <1>0, <1>1, <1>4 DEF prove, PwStates, ReceiptInv, ConfirmedIsFinalized
  <2> QED BY <1>1, <2>1, ProverL1 DEF prove
<1>2. CASE get_receipt
  <2>1. pw.pc = "await" /\ pw.retries < MaxRetries /\ l1Sent = << >>
    BY <1>0, <1>2 DEF get_receipt, RetriesOK
  <2>2. \/ receipt = "ok" /\ pw' = [pw EXCEPT !.pc = "confirm"]
        \/ pw' = Failed(pw)
    BY <1>2 DEF get_receipt, ReceiptStatus
  <2>3. UNCHANGED <<stateRoot, l1Sent, receipt, finalized, ledger, confirmed, pending>>
    BY <1>2 DEF get_receipt
  <2>4. pw'.num = pw.num /\ pw'.pc # "await"
        /\ (pw'.pc = "confirm" => pw.num \in OnL1)
    BY <1>0, <2>1, <2>2, FailedType DEF PwStates, ReceiptInv
  <2>5. ReceiptInv' /\ ConfirmedIsFinalized'
    BY <1>0, <1>4, <2>3, <2>4 DEF ReceiptInv, ConfirmedIsFinalized
  <2> QED BY <2>3, <2>5, ProverL1
<1>3. CASE confirm_block
  <2>1. ReceiptInv'
    BY <1>0, <1>3 DEF confirm_block, PwStates, ReceiptInv
  <2>2. confirmed' = confirmed \cup {pw.num} /\ (L1Enabled => pw.num \in OnL1)
    BY <1>0, <1>3 DEF confirm_block, ReceiptInv
  <2>3. ConfirmedIsFinalized'
    BY <1>0, <1>4, <2>2 DEF ConfirmedIsFinalized
  <2> QED BY <1>3, <2>1, <2>3, ProverL1 DEF confirm_block
<1> QED BY <1>1, <1>2, <1>3

-----------------------------------------------------------------------------
(* The theorems.                                                           *)

\* The block the prover has in hand is always the oldest one queued.
LEMMA FirstInvariant == Spec => []FirstInv
<1>1. Init => FirstInv
  BY DEF Init, PwStart, FirstInv, InHand
<1>2. TypeOK /\ QueueInv /\ FirstInv /\ [Next]_vars => FirstInv'
  <2>1. FirstInv /\ UNCHANGED vars => FirstInv'
    BY DEF vars, storeVars, FirstInv, InHand
  <2> QED BY <2>1, FirstStep
<1> QED BY <1>1, <1>2, TypeCorrect, QueueInvariant, PTL DEF Spec

\* What is on its way to L1 and what L1 has accepted fits the ledger.
LEMMA L1Invariant == Spec => []L1Inv
<1>1. Init => L1Inv
  <2> SUFFICES ASSUME Init PROVE L1Inv
    OBVIOUS
  <2>1. /\ l1Sent = << >> /\ finalized = << >> /\ confirmed = {}
        /\ stateRoot = InitialRoot /\ pw.pc = "peek"
    BY StartTypes DEF Init, BridgeInit
  <2> QED BY <2>1 DEF L1Inv, SentBlocks, FinalizedChain, FinalizedCommitted,
                      RootChain, SentOrder, FinalizedInOrder, ReceiptInv,
                      ConfirmedIsFinalized, OnL1
<1>2. TypeOK /\ QueueInv /\ FirstInv /\ L1Inv /\ [Next]_vars => L1Inv'
  <2> SUFFICES ASSUME TypeOK, QueueInv, FirstInv, L1Inv, [Next]_vars
               PROVE  L1Inv'
    OBVIOUS
  <2>1. CASE UNCHANGED vars
    BY <2>1, QuietL1
       DEF L1Quiet, vars, l1Vars, bridgeVars, storeVars, historyVars
  <2> QED BY <2>1, L1Moves, QuietL1, SubmitL1, AcceptL1, RevertL1, OutsideL1,
             CommitL1, SettleL1
<1> QED BY <1>1, <1>2, TypeCorrect, QueueInvariant, FirstInvariant, PTL DEF Spec

\* The prover worker takes a block out of the queue as proven only if L1
\* accepted that block from the sequencer, for any number of resent and late
\* transactions and of batches that others submit.
THEOREM ConfirmedOnL1 == Spec => []ConfirmedIsFinalized
<1>1. L1Inv => ConfirmedIsFinalized
  BY DEF L1Inv
<1> QED BY <1>1, L1Invariant, PTL

\* L1 accepts the committed blocks in the order of their numbers, whichever
\* attempt and whichever process sent them, and whatever batches of others it
\* accepts in between.
THEOREM AcceptedInOrder == Spec => []FinalizedInOrder
<1>1. L1Inv => FinalizedInOrder
  BY DEF L1Inv
<1> QED BY <1>1, L1Invariant, PTL

\* The blocks that updateState accepts from the sequencer are committed ones
\* and, with the batches it accepts from anybody else, form one chain of roots
\* from the initial root to the contract's stateRoot.
THEOREM AcceptedChain == Spec => []FinalizedChain
<1>1. L1Inv => FinalizedChain
  BY DEF L1Inv
<1> QED BY <1>1, L1Invariant, PTL

\* With L1 enabled, a committed block is queued, failed, or accepted by L1.
BlockAccounted ==
  L1Enabled =>
    \A n \in 0..storedCounter - 1 :
      n \in DOMAIN pending \cup DOMAIN failed \cup OnL1

\* From commit_optimistic_block to L1 no block disappears: what the queue no
\* longer holds, and was not given up, is on L1.
THEOREM NoBlockUnaccounted == Spec => []BlockAccounted
<1>1. QueueInv /\ L1Inv => BlockAccounted
  BY DEF QueueInv, StoreInv, L1Inv, ConfirmedIsFinalized, BlockAccounted
<1> QED BY <1>1, QueueInvariant, L1Invariant, PTL

-----------------------------------------------------------------------------
(* The contract, with the sequencer and others submitting to it.           *)

\* What a step of the whole system does to the contract.
LEMMA BridgeMoves ==
  ASSUME TypeOK, Next
  PROVE  \/ UserCall
         \/ \E pv \in BatchValues : updateState(pv)
         \/ UNCHANGED bridgeVars
<1> USE DEF l1Vars
<1>1. CASE mine_accepts
  <2>1. l1Sent # << >> /\ updateState(Head(l1Sent).values)
    BY <1>1 DEF mine_accepts
  <2>2. Head(l1Sent) \in [num : Nat, values : BatchValues]
    BY <2>1, L1Types, HeadTailProperties
  <2> QED BY <2>1, <2>2
<1>2. CASE mine_reverts \/ user_call
  BY <1>2 DEF mine_reverts, user_call
<1>3. CASE handle_submit_tx \/ restart
  BY <1>3 DEF handle_submit_tx, restart
<1>6. CASE outside_update
  BY <1>6, PublicValuesType DEF outside_update
<1>4. CASE OptimisticStep \/ OptimisticFails
  BY <1>4 DEF OptimisticStep, OptimisticFails, fetch_processed, fetch_messages,
     snapshot_mempool, apply_batch, drain_mempool, commit_block, fetch_fails,
     apply_fails, commit_fails
<1>5. CASE ProverStep \/ ProverFails \/ receipt_fails
  BY <1>5 DEF ProverStep, ProverFails, receipt_fails, peek_block,
     generate_proofs, prove, submit_proof, get_receipt, confirm_block,
     fail_block, remove_block, generate_fails, prove_fails, queue_fails
<1> QED BY <1>1, <1>2, <1>3, <1>4, <1>5, <1>6 DEF Next, L1Step

\* Also when blocks are resent, mined late, and sent by a process that has
\* since died, L1 takes every message exactly once and in order.
THEOREM SequencerCarriesOnce == Spec => []CarriedOnce
<1>1. Init => CarriedOnce
  BY DEF Init, BridgeInit, CarriedOnce, messageCount
<1>2. TypeOK /\ CarriedOnce /\ [Next]_vars => CarriedOnce'
  <2> SUFFICES ASSUME TypeOK, CarriedOnce, [Next]_vars
               PROVE  CarriedOnce'
    OBVIOUS
  <2>0. BridgeTypeOK
    BY DEF TypeOK
  <2>1. CASE UserCall
    <3>1. ASSUME NEW c \in Claims, withdraw(c)
          PROVE  CarriedOnce'
      BY <3>1 DEF withdraw, CarriedOnce, messageCount
    <3> QED BY <2>0, <2>1, <3>1, UserCallCases, EnqueueCarried
  <2>2. ASSUME NEW pv \in BatchValues, updateState(pv)
        PROVE  CarriedOnce'
    BY <2>0, <2>2, UpdateStateCarried
  <2>3. CASE UNCHANGED bridgeVars
    BY <2>3 DEF bridgeVars, CarriedOnce, messageCount
  <2> QED BY <2>1, <2>2, <2>3, BridgeMoves DEF vars, l1Vars
<1> QED BY <1>1, <1>2, TypeCorrect, PTL DEF Spec

\* The sequencer and the contract together implement the in-order,
\* exactly-once inbox: which messages a block carries is the sequencer's
\* choice, made from what it read some time before, and the contract refuses
\* a block whose messages are not the next ones any more.
THEOREM SequencerImplementsInbox == Spec => ImplementsInbox
<1>1. Init => Inbox!InboxInit
  BY DEF Init, BridgeInit, Inbox!InboxInit
<1>2. TypeOK /\ CarriedOnce /\ [Next]_vars
        => [Inbox!InboxNext]_(Inbox!inboxVars)
  <2> SUFFICES ASSUME TypeOK, CarriedOnce, [Next]_vars
               PROVE  [Inbox!InboxNext]_(Inbox!inboxVars)
    OBVIOUS
  <2>0. BridgeTypeOK
    BY DEF TypeOK
  <2>1. ASSUME NEW s \in Streams, NEW m \in Messages, enqueue(s, m)
        PROVE  Inbox!InboxNext
    BY <2>1 DEF enqueue, Inbox!InboxNext, Inbox!Post
  <2>2. ASSUME NEW c \in Claims, withdraw(c)
        PROVE  UNCHANGED Inbox!inboxVars
    BY <2>2 DEF withdraw, Inbox!inboxVars
  <2>3. ASSUME NEW pv \in BatchValues, updateState(pv)
        PROVE  Inbox!InboxNext
    BY <2>0, <2>3, UpdateStateConsumes DEF Inbox!InboxNext
  <2>4. CASE UNCHANGED bridgeVars
    BY <2>4 DEF bridgeVars, Inbox!inboxVars
  <2> QED BY <2>1, <2>2, <2>3, <2>4, UserCallCases, BridgeMoves DEF vars, l1Vars
<1> QED BY <1>1, <1>2, TypeCorrect, SequencerCarriesOnce, PTL
        DEF Spec, ImplementsInbox, Inbox!InboxSpec
=============================================================================
