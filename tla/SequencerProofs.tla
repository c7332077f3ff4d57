--------------------------- MODULE SequencerProofs ---------------------------
(***************************************************************************)
(* What the sequencer guarantees for any number of transactions, messages, *)
(* blocks, retries and deaths of the process.                              *)
(***************************************************************************)
EXTENDS Sequencer, RollupBridgeProofs

USE BridgeAssumption, SequencerAssumption

-----------------------------------------------------------------------------
(* Types.                                                                  *)

\* The workers start in a well-typed state.
LEMMA StartTypes ==
  /\ NoMessages \in [Streams -> Seq(Messages)]
  /\ OwStart \in OwStates
  /\ PwStart \in PwStates /\ PwStart.pc = "peek"
<1>1. NoMessages \in [Streams -> Seq(Messages)]
  BY DEF NoMessages
<1>2. Block(<< >>, NoMessages, InitialRoot, InitialRoot) \in Blocks
  BY <1>1 DEF Block, Blocks
<1>3. OwStart \in OwStates
  BY <1>1 DEF OwStart, OwStates
<1>4. PwStart \in PwStates /\ PwStart.pc = "peek"
  BY <1>2 DEF PwStart, PwStates
<1> QED BY <1>1, <1>3, <1>4

\* main on fresh databases starts in a well-typed state.
LEMMA InitType == Init => TypeOK
<1> SUFFICES ASSUME Init PROVE TypeOK
  OBVIOUS
<1>1. BridgeTypeOK
  BY DEF Init, BridgeInit, BridgeTypeOK
<1>2. L1TypeOK /\ MemoryTypeOK /\ HistoryTypeOK
  BY DEF Init, L1TypeOK, MemoryTypeOK, HistoryTypeOK
<1>3. DiskTypeOK
  BY DEF Init, StoreInit, DiskTypeOK
<1>4. FlagTypeOK
  BY DEF Init, FlagTypeOK
<1> QED BY <1>1, <1>2, <1>3, <1>4, StartTypes DEF Init, TypeOK, RetriesOK

\* The parts of the state an action leaves alone keep their types.
LEMMA StableTypes ==
  ASSUME TypeOK
  PROVE  /\ UNCHANGED bridgeVars => BridgeTypeOK'
         /\ UNCHANGED l1Vars => BridgeTypeOK' /\ L1TypeOK'
         /\ UNCHANGED <<storeVars, headroot>> => DiskTypeOK'
         /\ UNCHANGED <<mempool, heads, blockCounter>> => MemoryTypeOK'
         /\ UNCHANGED <<submitted, restarts, ledger, sealed, confirmed>>
              => HistoryTypeOK'
         /\ UNCHANGED <<poisoned, orphan>> => FlagTypeOK'
         /\ UNCHANGED pw => pw' \in PwStates /\ RetriesOK'
<1>1. UNCHANGED bridgeVars => BridgeTypeOK'
  BY DEF TypeOK, bridgeVars, BridgeTypeOK
<1>2. UNCHANGED l1Vars => L1TypeOK' /\ UNCHANGED bridgeVars
  BY DEF TypeOK, l1Vars, L1TypeOK
<1>3. UNCHANGED <<storeVars, headroot>> => DiskTypeOK'
  BY DEF TypeOK, storeVars, DiskTypeOK
<1>4. UNCHANGED <<mempool, heads, blockCounter>> => MemoryTypeOK'
  BY DEF TypeOK, MemoryTypeOK
<1>5. UNCHANGED <<submitted, restarts, ledger, sealed, confirmed>>
        => HistoryTypeOK'
  BY DEF TypeOK, HistoryTypeOK
<1>6. UNCHANGED <<poisoned, orphan>> => FlagTypeOK'
  BY DEF TypeOK, FlagTypeOK
<1>7. UNCHANGED pw => pw' \in PwStates /\ RetriesOK'
  BY DEF TypeOK, RetriesOK
<1> QED BY <1>1, <1>2, <1>3, <1>4, <1>5, <1>6, <1>7

\* The Err arm of the prover worker stays within the retry limit.
LEMMA FailedType ==
  ASSUME NEW w \in PwStates, w.retries < MaxRetries
  PROVE  /\ Failed(w) \in PwStates
         /\ Failed(w).pc \in {"generate", "push_failed"}
         /\ Failed(w).pc = "generate" => Failed(w).retries < MaxRetries
         /\ Failed(w).pc = "push_failed" => Failed(w).retries = MaxRetries
         /\ Failed(w).num = w.num /\ Failed(w).block = w.block
<1>1. w.retries \in Nat /\ MaxRetries \in Nat /\ w.retries + 1 \in 0..MaxRetries
  BY DEF PwStates
<1>2. CASE w.retries + 1 >= MaxRetries
  <2>1. w.retries + 1 = MaxRetries
    BY <1>1, <1>2
  <2>2. Failed(w) = [w EXCEPT !.pc = "push_failed", !.retries = w.retries + 1]
    BY <1>2 DEF Failed
  <2> QED BY <1>1, <2>1, <2>2 DEF PwStates
<1>3. CASE ~(w.retries + 1 >= MaxRetries)
  <2>1. w.retries + 1 < MaxRetries
    BY <1>1, <1>3
  <2>2. Failed(w) = [w EXCEPT !.pc = "generate", !.retries = w.retries + 1]
    BY <1>3 DEF Failed
  <2> QED BY <1>1, <2>1, <2>2 DEF PwStates
<1> QED BY <1>2, <1>3

\* Each step of the optimistic worker.
LEMMA OptimisticType ==
  ASSUME TypeOK, OptimisticStep \/ OptimisticFails
  PROVE  TypeOK'
<1> USE DEF memoryVars, historyVars
<1>1. ASSUME NEW s \in Streams, fetch_processed(s)
      PROVE  TypeOK'
  <2>1. ow' \in OwStates
    BY <1>1 DEF fetch_processed, TypeOK, OwStates, BridgeTypeOK
  <2> QED BY <1>1, <2>1, StableTypes DEF fetch_processed, TypeOK
<1>2. ASSUME NEW s \in Streams, fetch_messages(s)
      PROVE  TypeOK'
  <2> DEFINE q == l1Queue[s]
             num == messageCount(s) - ow.start[s]
             new == IF num > 0 THEN getMessages(s, ow.start[s], num) ELSE << >>
  <2>1. q \in Seq(Messages) /\ ow.start[s] \in Nat /\ Len(q) \in Nat
    BY DEF TypeOK, BridgeTypeOK, OwStates
  <2>2. new \in Seq(Messages)
    <3>1. CASE num > 0
      <4>1. \A i \in ow.start[s] + 1..ow.start[s] + num : q[i] \in Messages
        BY <2>1, <3>1 DEF messageCount
      <4>2. SubSeq(q, ow.start[s] + 1, ow.start[s] + num) \in Seq(Messages)
        <5>1. ow.start[s] + 1 \in Int /\ ow.start[s] + num \in Int
          BY <2>1 DEF messageCount
        <5> QED BY <4>1, <5>1, SubSeqProperties
      <4> QED BY <3>1, <4>2 DEF getMessages
    <3>2. CASE ~(num > 0)
      BY <3>2
    <3> QED BY <3>1, <3>2
  <2>3. ow' = [ow EXCEPT !.fetched[s] = "done", !.messages[s] = new] \/ ow' = Dead(ow)
    BY <1>2 DEF fetch_messages
  <2>4. ow' \in OwStates
    <3> HIDE DEF new
    <3>1. ow \in OwStates
      BY DEF TypeOK
    <3>2. Dead(ow) \in OwStates
      BY <3>1 DEF OwStates, Dead
    <3>3. [ow EXCEPT !.fetched[s] = "done", !.messages[s] = new] \in OwStates
      BY <2>2, <3>1 DEF OwStates
    <3> QED BY <2>3, <3>2, <3>3
  <2> QED BY <1>2, <2>4, StableTypes DEF fetch_messages, TypeOK
<1>3. CASE snapshot_mempool
  <2>1. ow' \in OwStates
    <3>1. ow' = OwStart
          \/ ow' = [ow EXCEPT !.pc = "apply", !.txs = mempool, !.pre = heads.optimistic]
      BY <1>3 DEF snapshot_mempool, pre_root
    <3>2. [ow EXCEPT !.pc = "apply", !.txs = mempool, !.pre = heads.optimistic]
            \in OwStates
      BY DEF TypeOK, MemoryTypeOK, OwStates
    <3> QED BY <3>1, <3>2, StartTypes
  <2> QED BY <1>3, <2>1, StableTypes DEF snapshot_mempool, TypeOK
<1>4. ASSUME NEW r \in Roots, apply_batch(r)
      PROVE  TypeOK'
  <2>1. ow' \in OwStates
    BY <1>4 DEF apply_batch, TypeOK, MemoryTypeOK, OwStates
  <2>2. MemoryTypeOK' /\ DiskTypeOK'
    BY <1>4 DEF apply_batch, TypeOK, MemoryTypeOK, DiskTypeOK, storeVars
  <2> QED BY <1>4, <2>1, <2>2, StableTypes DEF apply_batch, TypeOK
<1>5. CASE drain_mempool
  <2>1. ow' \in OwStates
    BY <1>5 DEF drain_mempool, TypeOK, OwStates
  <2>2. Drained(mempool, Len(ow.txs)) \in Seq(Nat)
    BY DEF Drained, TypeOK, MemoryTypeOK, OwStates
  <2>3. MemoryTypeOK'
    BY <1>5, <2>2 DEF drain_mempool, TypeOK, MemoryTypeOK, OwStates
  <2> QED BY <1>5, <2>1, <2>3, StableTypes DEF drain_mempool, TypeOK
<1>6. CASE commit_block
  <2>1. Block(ow.txs, ow.messages, ow.pre, ow.post) \in Blocks
    BY DEF Block, Blocks, TypeOK, OwStates
  <2>2. DiskTypeOK'
    <3> DEFINE b == Block(ow.txs, ow.messages, ow.pre, ow.post)
               p == Put(pending, ow.num, b)
    <3>1. pending' = p /\ storedCounter' = ow.num + 1 /\ UNCHANGED <<failed, headroot>>
      BY <1>6 DEF commit_block, commit_optimistic_block
    <3>2. b \in Blocks
      BY <2>1
    <3>3. ow.num \in Nat
      BY DEF TypeOK, OwStates
    <3>4. DOMAIN pending \subseteq Nat /\ pending \in [DOMAIN pending -> Blocks]
      BY DEF TypeOK, DiskTypeOK
    <3> HIDE DEF b
    <3>5. DOMAIN p \subseteq Nat /\ p \in [DOMAIN p -> Blocks]
      BY <3>2, <3>3, <3>4 DEF Put
    <3> HIDE DEF p
    <3> QED BY <3>1, <3>3, <3>5 DEF TypeOK, DiskTypeOK
  <2>3. HistoryTypeOK'
    BY <1>6, <2>1 DEF commit_block, TypeOK, HistoryTypeOK, OwStates
  <2> QED BY <1>6, <2>2, <2>3, StartTypes, StableTypes DEF commit_block, TypeOK
<1>7. CASE fetch_fails
  <2>1. ow' \in OwStates
    BY <1>7 DEF fetch_fails, Dead, TypeOK, OwStates
  <2> QED BY <1>7, <2>1, StableTypes DEF fetch_fails, TypeOK
<1>8. ASSUME NEW panics \in BOOLEAN, apply_fails(panics)
      PROVE  TypeOK'
  <2>1. ow' \in OwStates
    BY <1>8 DEF apply_fails, Dead, TypeOK, OwStates
  <2>2. FlagTypeOK'
    BY <1>8, Zenon DEF apply_fails, FlagTypeOK, TypeOK
  <2> QED BY <1>8, <2>1, <2>2, StableTypes DEF apply_fails, TypeOK
<1>9. CASE commit_fails
  <2>1. ow' \in OwStates
    BY <1>9 DEF commit_fails, Dead, TypeOK, OwStates
  <2>2. FlagTypeOK'
    BY <1>9, Zenon DEF commit_fails, FlagTypeOK, TypeOK
  <2> QED BY <1>9, <2>1, <2>2, StableTypes DEF commit_fails, TypeOK
<1> QED BY <1>1, <1>2, <1>3, <1>4, <1>5, <1>6, <1>7, <1>8, <1>9
        DEF OptimisticStep, OptimisticFails

\* Each step of the prover worker.
LEMMA ProverType ==
  ASSUME TypeOK, ProverStep \/ ProverFails \/ receipt_fails
  PROVE  TypeOK'
<1> USE DEF memoryVars, historyVars
<1>0. pw \in PwStates /\ RetriesOK
  BY DEF TypeOK
<1>1. ASSUME NEW n \in DOMAIN pending, peek_block(n)
      PROVE  TypeOK'
  <2>1. pending[n] \in Blocks /\ n \in Nat
    BY DEF TypeOK, DiskTypeOK
  <2>2. pw' \in PwStates /\ RetriesOK'
    <3>1. PwStart \in PwStates /\ PwStart.retries = 0 /\ 0 < MaxRetries
      BY StartTypes DEF PwStart
    <3>2. pw' = [PwStart EXCEPT !.pc = "generate", !.num = n, !.block = pending[n]]
      BY <1>1 DEF peek_block
    <3> QED BY <2>1, <3>1, <3>2 DEF PwStates, RetriesOK
  <2> QED BY <1>1, <2>2, StableTypes DEF peek_block, TypeOK
<1>2. CASE generate_proofs
  <2>1. pw' \in PwStates /\ RetriesOK'
    BY <1>0, <1>2 DEF generate_proofs, PwStates, RetriesOK
  <2> QED BY <1>2, <2>1, StableTypes DEF generate_proofs, TypeOK
<1>3. CASE prove
  <2>1. pw' \in PwStates /\ RetriesOK'
    BY <1>0, <1>3 DEF prove, PwStates, RetriesOK
  <2> QED BY <1>3, <2>1, StableTypes DEF prove, TypeOK
<1>4. ASSUME NEW delivered \in BOOLEAN, NEW answered \in BOOLEAN,
             submit_proof(delivered, answered)
      PROVE  TypeOK'
  <2> DEFINE b == pw.block
             pv == PublicValues(b.pre_state_root, b.post_state_root, b.messages)
  <2>1. pv \in BatchValues
    <3>1. b \in Blocks
      BY <1>0 DEF PwStates
    <3>2. ASSUME NEW s \in Streams
          PROVE  build_commitment(b.messages[s])
                   \in [hash : [preimage : Seq(Messages)], count : Nat]
      BY <3>1, CommitmentType DEF Blocks
    <3> QED BY <3>1, <3>2 DEF Blocks, PublicValues, BatchValues
  <2>2. L1TypeOK'
    <3> DEFINE Sent == [num : Nat, values : BatchValues]
               tx == [num |-> pw.num, values |-> pv]
    <3>1. tx \in Sent
      <4> HIDE DEF pv
      <4> QED BY <1>0, <2>1 DEF PwStates
    <3>2. l1Sent' = Append(l1Sent, tx) \/ l1Sent' = l1Sent
      BY <1>4 DEF submit_proof
    <3>3. l1Sent \in Seq(Sent)
      BY DEF L1TypeOK, TypeOK
    <3>5. l1Sent' \in Seq(Sent)
      <4> HIDE DEF Sent, tx
      <4> QED BY <3>1, <3>2, <3>3
    <3>6. receipt' = receipt /\ finalized' = finalized
      BY <1>4 DEF submit_proof
    <3> QED BY <3>5, <3>6 DEF L1TypeOK, TypeOK
  <2>3. pw' \in PwStates /\ RetriesOK'
    <3>1. pw.retries < MaxRetries /\ pw.pc = "submit"
      BY <1>0, <1>4 DEF submit_proof, RetriesOK
    <3>2. pw' = [pw EXCEPT !.pc = "await"] \/ pw' = Failed(pw)
      BY <1>4 DEF submit_proof
    <3>3. CASE pw' = [pw EXCEPT !.pc = "await"]
      BY <1>0, <3>1, <3>3 DEF PwStates, RetriesOK
    <3>4. CASE pw' = Failed(pw)
      BY <1>0, <3>1, <3>4, FailedType DEF RetriesOK
    <3> QED BY <3>2, <3>3, <3>4
  <2> QED BY <1>4, <2>2, <2>3, StableTypes DEF submit_proof, TypeOK
<1>5. CASE get_receipt
  <2>1. pw.retries < MaxRetries
    BY <1>0, <1>5 DEF get_receipt, RetriesOK
  <2>2. pw' = [pw EXCEPT !.pc = "confirm"] \/ pw' = Failed(pw)
    BY <1>5 DEF get_receipt
  <2>3. CASE pw' = [pw EXCEPT !.pc = "confirm"]
    <3>1. pw' \in PwStates /\ RetriesOK'
      BY <1>0, <2>3 DEF PwStates, RetriesOK
    <3> QED BY <1>5, <3>1, StableTypes DEF get_receipt, TypeOK
  <2>4. CASE pw' = Failed(pw)
    <3>1. pw' \in PwStates /\ RetriesOK'
      BY <1>0, <2>1, <2>4, FailedType DEF RetriesOK
    <3> QED BY <1>5, <3>1, StableTypes DEF get_receipt, TypeOK
  <2> QED BY <2>2, <2>3, <2>4
<1>6. CASE confirm_block
  <2>1. pw' \in PwStates /\ RetriesOK' /\ pw.num \in Nat
    BY <1>0, <1>6 DEF confirm_block, PwStates, RetriesOK
  <2>2. MemoryTypeOK'
    BY <1>0, <1>6 DEF confirm_block, TypeOK, MemoryTypeOK, PwStates, Blocks
  <2>3. HistoryTypeOK'
    BY <1>6, <2>1 DEF confirm_block, TypeOK, HistoryTypeOK
  <2> QED BY <1>6, <2>1, <2>2, <2>3, StableTypes DEF confirm_block, TypeOK
<1>7. CASE fail_block
  <2>1. pw' \in PwStates /\ RetriesOK' /\ pw.num \in Nat /\ pw.block \in Blocks
    BY <1>0, <1>7 DEF fail_block, PwStates, RetriesOK
  <2>2. DiskTypeOK'
    BY <1>7, <2>1 DEF fail_block, push_failed, Put, TypeOK, DiskTypeOK
  <2> QED BY <1>7, <2>1, <2>2, StableTypes DEF fail_block, TypeOK
<1>8. CASE remove_block
  <2>1. DiskTypeOK'
    BY <1>8 DEF remove_block, remove_pending, Delete, TypeOK, DiskTypeOK
  <2>2. pw' \in PwStates /\ RetriesOK'
    BY <1>8, StartTypes DEF remove_block, RetriesOK
  <2> QED BY <1>8, <2>1, <2>2, StableTypes DEF remove_block, TypeOK
<1>9. ASSUME NEW panics \in BOOLEAN, generate_fails(panics)
      PROVE  TypeOK'
  <2>1. pw.retries < MaxRetries
    BY <1>0, <1>9 DEF generate_fails, RetriesOK
  <2>2. pw' \in PwStates /\ RetriesOK'
    BY <1>0, <1>9, <2>1, FailedType DEF generate_fails, RetriesOK
  <2>3. FlagTypeOK'
    BY <1>9, Zenon DEF generate_fails, FlagTypeOK, TypeOK
  <2> QED BY <1>9, <2>2, <2>3, StableTypes DEF generate_fails, TypeOK
<1>10. CASE prove_fails
  <2>1. pw.retries < MaxRetries
    BY <1>0, <1>10 DEF prove_fails, RetriesOK
  <2>2. pw' \in PwStates /\ RetriesOK'
    BY <1>0, <1>10, <2>1, FailedType DEF prove_fails, RetriesOK
  <2> QED BY <1>10, <2>2, StableTypes DEF prove_fails, TypeOK
<1>11. CASE queue_fails
  <2>1. pw' \in PwStates /\ RetriesOK'
    BY <1>0, <1>11 DEF queue_fails, Dead, PwStates, RetriesOK
  <2> QED BY <1>11, <2>1, StableTypes DEF queue_fails, TypeOK
<1>12. CASE receipt_fails
  <2>1. pw.retries < MaxRetries
    BY <1>0, <1>12 DEF receipt_fails, RetriesOK
  <2>2. pw' \in PwStates /\ RetriesOK'
    BY <1>0, <1>12, <2>1, FailedType DEF receipt_fails, RetriesOK
  <2> QED BY <1>12, <2>2, StableTypes DEF receipt_fails, TypeOK
<1> QED BY <1>1, <1>2, <1>3, <1>4, <1>5, <1>6, <1>7, <1>8, <1>9, <1>10, <1>11,
           <1>12
        DEF ProverStep, ProverFails

\* An accepted batch is recorded with its roots.
LEMMA AcceptedType ==
  ASSUME TypeOK, NEW num \in Nat \cup {Outsider}, NEW pv \in BatchValues,
         finalized' = Append(finalized, Accepted(num, pv))
  PROVE  finalized' \in Seq([num : Nat \cup {Outsider}, pre : Roots, post : Roots])
<1> DEFINE S == [num : Nat \cup {Outsider}, pre : Roots, post : Roots]
           a == Accepted(num, pv)
<1>1. a \in S
  BY DEF Accepted, BatchValues
<1>2. finalized \in Seq(S)
  BY DEF TypeOK, L1TypeOK
<1>3. finalized' = Append(finalized, a)
  OBVIOUS
<1> HIDE DEF S, a
<1>4. finalized' \in Seq(S)
  BY <1>1, <1>2, <1>3
<1> QED BY <1>4 DEF S

\* The steps of L1, of the API and of the process.
LEMMA EnvironmentType ==
  ASSUME TypeOK,
         L1Step \/ user_call \/ outside_update \/ handle_submit_tx \/ restart
  PROVE  TypeOK'
<1> USE DEF memoryVars, historyVars
<1>1. CASE L1Step
  <2>1. Head(l1Sent) \in [num : Nat, values : BatchValues]
        /\ Tail(l1Sent) \in Seq([num : Nat, values : BatchValues])
    <3>1. l1Sent # << >> /\ l1Sent \in Seq([num : Nat, values : BatchValues])
      BY <1>1 DEF L1Step, mine_accepts, mine_reverts, TypeOK, L1TypeOK
    <3> QED BY <3>1, HeadTailProperties
  <2>2. CASE mine_accepts
    <3>1. BridgeTypeOK'
      BY <2>1, <2>2, UpdateStateType DEF mine_accepts, TypeOK
    <3>2. L1TypeOK'
      BY <2>1, <2>2, AcceptedType DEF mine_accepts, TypeOK, L1TypeOK
    <3> QED BY <2>2, <3>1, <3>2, StableTypes
            DEF mine_accepts, sequencerVars, TypeOK
  <2>3. CASE mine_reverts
    <3>1. L1TypeOK'
      BY <2>1, <2>3 DEF mine_reverts, TypeOK, L1TypeOK
    <3> QED BY <2>3, <3>1, StableTypes DEF mine_reverts, sequencerVars, TypeOK
  <2> QED BY <1>1, <2>2, <2>3 DEF L1Step
<1>2. CASE user_call
  <2>1. BridgeTypeOK'
    BY <1>2, UserCallCases, EnqueueType, WithdrawType DEF user_call, TypeOK
  <2>2. L1TypeOK'
    BY <1>2 DEF user_call, TypeOK, L1TypeOK
  <2> QED BY <1>2, <2>1, <2>2, StableTypes DEF user_call, sequencerVars, TypeOK
<1>3. CASE handle_submit_tx
  <2>1. MemoryTypeOK' /\ HistoryTypeOK'
    BY <1>3 DEF handle_submit_tx, TypeOK, MemoryTypeOK, HistoryTypeOK
  <2> QED BY <1>3, <2>1, StableTypes DEF handle_submit_tx, TypeOK
<1>4. CASE restart
  <2>1. MemoryTypeOK' /\ HistoryTypeOK'
    <3>1. headroot \in Roots /\ storedCounter \in Nat /\ restarts \in Nat
      BY DEF TypeOK, DiskTypeOK, HistoryTypeOK
    <3>2. MemoryTypeOK'
      BY <1>4, <3>1 DEF restart, get_block_counter, MemoryTypeOK
    <3>3. HistoryTypeOK'
      BY <1>4, <3>1 DEF restart, TypeOK, HistoryTypeOK
    <3> QED BY <3>2, <3>3
  <2>2. FlagTypeOK'
    BY <1>4, Zenon DEF restart, FlagTypeOK, TypeOK
  <2>3. ow' \in OwStates /\ pw' \in PwStates /\ RetriesOK'
    BY <1>4, StartTypes DEF restart, RetriesOK
  <2> QED BY <1>4, <2>1, <2>2, <2>3, StableTypes DEF restart, TypeOK
<1>5. CASE outside_update
  <2>1. PICK from \in Roots, to \in Roots, ms \in Batches :
          LET pv == PublicValues(from, to, ms)
          IN  updateState(pv) /\ finalized' = Append(finalized, Accepted(Outsider, pv))
    BY <1>5 DEF outside_update
  <2> DEFINE pv == PublicValues(from, to, ms)
  <2>2. pv \in BatchValues
    BY PublicValuesType
  <2> HIDE DEF pv
  <2>3. BridgeTypeOK'
    BY <2>1, <2>2, UpdateStateType DEF TypeOK, pv
  <2>4. L1TypeOK'
    <3>1. finalized' \in Seq([num : Nat \cup {Outsider}, pre : Roots, post : Roots])
      BY <2>1, <2>2, AcceptedType DEF pv
    <3> QED BY <1>5, <3>1 DEF outside_update, TypeOK, L1TypeOK
  <2> QED BY <1>5, <2>3, <2>4, StableTypes DEF outside_update, sequencerVars, TypeOK
<1> QED BY <1>1, <1>2, <1>3, <1>4, <1>5

\* Every reachable state of the sequencer and of the contract it works with
\* is well typed, and a block is given up after exactly the retry limit.
THEOREM TypeCorrect == Spec => []TypeOK
<1>1. Init => TypeOK
  BY InitType
<1>2. TypeOK /\ [Next]_vars => TypeOK'
  <2> SUFFICES ASSUME TypeOK, [Next]_vars
               PROVE  TypeOK'
    OBVIOUS
  <2>1. CASE UNCHANGED vars
    BY <2>1, StableTypes DEF vars, memoryVars, historyVars, TypeOK
  <2> QED BY <2>1, OptimisticType, ProverType, EnvironmentType DEF Next
<1> QED BY <1>1, <1>2, PTL DEF Spec

-----------------------------------------------------------------------------
(* The block queue.                                                        *)

\* The queues hold committed blocks, each under its number, and every block
\* is somewhere.
StoreInv ==
  /\ Len(ledger) = storedCounter
  /\ DOMAIN pending \subseteq 0..storedCounter - 1
  /\ DOMAIN failed \subseteq 0..storedCounter - 1
  /\ confirmed \subseteq 0..storedCounter - 1
  /\ \A n \in DOMAIN pending : pending[n] = ledger[n + 1].block
  /\ \A n \in DOMAIN failed : failed[n] = ledger[n + 1].block
  /\ \A n \in 0..storedCounter - 1 :
       n \in DOMAIN pending \cup DOMAIN failed \cup confirmed

\* The counter in memory is the stored one until a number is taken, and the
\* number taken is the stored one until the block is committed.
CounterInv ==
  /\ ow.pc \in {"fetch", "apply"} => blockCounter = storedCounter
  /\ ow.pc \in {"drain", "commit"} =>
       ow.num = storedCounter /\ blockCounter = storedCounter + 1

\* The prover works on a block that is still queued, and removes it only once
\* it is kept elsewhere or confirmed.
InHandInv ==
  /\ pw.pc \notin {"peek", "dead"} =>
       pw.num \in DOMAIN pending /\ pw.block = pending[pw.num]
  /\ pw.pc = "remove" => pw.num \in DOMAIN failed \cup confirmed

QueueInv == StoreInv /\ CounterInv /\ InHandInv

\* A step that leaves both databases and the workers' block in hand alone
\* keeps the queue invariant.
LEMMA StableQueue ==
  ASSUME QueueInv
  PROVE  /\ UNCHANGED <<storeVars, ledger, confirmed>> => StoreInv'
         /\ UNCHANGED <<storedCounter, blockCounter, ow>> => CounterInv'
         /\ UNCHANGED <<pending, failed, confirmed, pw>> => InHandInv'
<1>1. UNCHANGED <<storeVars, ledger, confirmed>> => StoreInv'
  BY DEF QueueInv, StoreInv, storeVars
<1>2. UNCHANGED <<storedCounter, blockCounter, ow>> => CounterInv'
  BY DEF QueueInv, CounterInv
<1>3. UNCHANGED <<pending, failed, confirmed, pw>> => InHandInv'
  BY DEF QueueInv, InHandInv
<1> QED BY <1>1, <1>2, <1>3

\* The optimistic worker keeps the queue invariant.
LEMMA OptimisticQueue ==
  ASSUME TypeOK, QueueInv, OptimisticStep \/ OptimisticFails
  PROVE  QueueInv'
<1> USE DEF memoryVars, historyVars, storeVars
<1>0. ow \in OwStates /\ blockCounter \in Nat /\ storedCounter \in Nat /\ CounterInv
  BY DEF TypeOK, MemoryTypeOK, DiskTypeOK, QueueInv
<1>1. ASSUME NEW s \in Streams, fetch_processed(s)
      PROVE  QueueInv'
  <2>1. CounterInv'
    BY <1>0, <1>1 DEF fetch_processed, CounterInv, OwStates
  <2> QED BY <1>1, <2>1, StableQueue DEF fetch_processed, QueueInv
<1>2. ASSUME NEW s \in Streams, fetch_messages(s)
      PROVE  QueueInv'
  <2>1. CounterInv'
    <3>1. ow'.pc \in {"dead", ow.pc} /\ ow'.num = ow.num
      BY <1>0, <1>2 DEF fetch_messages, Dead, OwStates
    <3>2. blockCounter' = blockCounter /\ storedCounter' = storedCounter
      BY <1>2 DEF fetch_messages
    <3> QED BY <1>0, <3>1, <3>2 DEF CounterInv
  <2> QED BY <1>2, <2>1, StableQueue DEF fetch_messages, QueueInv
<1>3. CASE snapshot_mempool
  <2>1. CounterInv'
    <3>1. ow.pc = "fetch" /\ ow'.pc \in {"fetch", "apply"}
      <4>1. ow.pc = "fetch" /\ (ow' = OwStart
              \/ ow' = [ow EXCEPT !.pc = "apply", !.txs = mempool, !.pre = pre_root])
        BY <1>3 DEF snapshot_mempool
      <4>2. OwStart.pc = "fetch"
        BY DEF OwStart
      <4>3. [ow EXCEPT !.pc = "apply", !.txs = mempool, !.pre = pre_root].pc = "apply"
        BY <1>0 DEF OwStates
      <4> QED BY <4>1, <4>2, <4>3
    <3>2. blockCounter' = blockCounter /\ storedCounter' = storedCounter
      BY <1>3 DEF snapshot_mempool
    <3> QED BY <1>0, <3>1, <3>2 DEF CounterInv
  <2> QED BY <1>3, <2>1, StableQueue DEF snapshot_mempool, QueueInv
<1>4. ASSUME NEW r \in Roots, apply_batch(r)
      PROVE  QueueInv'
  <2>1. CounterInv'
    BY <1>0, <1>4 DEF apply_batch, CounterInv, OwStates
  <2> QED BY <1>4, <2>1, StableQueue DEF apply_batch, QueueInv
<1>5. CASE drain_mempool
  <2>1. CounterInv'
    BY <1>0, <1>5 DEF drain_mempool, CounterInv, OwStates
  <2> QED BY <1>5, <2>1, StableQueue DEF drain_mempool, QueueInv
<1>6. CASE commit_block
  <2> DEFINE b == Block(ow.txs, ow.messages, ow.pre, ow.post)
             e == [block |-> b, start |-> ow.start]
             n == storedCounter
  <2>1. /\ pending' = Put(pending, n, b) /\ failed' = failed
        /\ storedCounter' = n + 1 /\ ledger' = Append(ledger, e)
        /\ confirmed' = confirmed /\ pw' = pw /\ blockCounter' = n + 1
        /\ ow' = OwStart
    BY <1>0, <1>6 DEF commit_block, commit_optimistic_block, CounterInv
  <2>2. StoreInv /\ InHandInv
    BY DEF QueueInv
  <2>3. /\ Len(ledger') = n + 1 /\ ledger'[n + 1] = e
        /\ \A k \in 0..n - 1 : ledger'[k + 1] = ledger[k + 1]
    <3> HIDE DEF e
    <3>1. \E S : ledger \in Seq(S)
      BY DEF TypeOK, HistoryTypeOK
    <3>2. PICK S : ledger \in Seq(S)
      BY <3>1
    <3>3. Len(ledger) = n
      BY <2>2 DEF StoreInv
    <3> QED BY <1>0, <2>1, <3>2, <3>3
  <2>4. DOMAIN pending' = DOMAIN pending \cup {n}
    BY <2>1 DEF Put
  <2>5. \A k \in DOMAIN pending : pending'[k] = pending[k]
    <3>1. n \notin DOMAIN pending
      BY <1>0, <2>2 DEF StoreInv
    <3> QED BY <2>1, <3>1 DEF Put
  <2>6. pending'[n] = b
    BY <2>1 DEF Put
  <2>7. StoreInv'
    <3> HIDE DEF b
    <3>1. e.block = b
      OBVIOUS
    <3> HIDE DEF e
    <3>2. DOMAIN pending' \subseteq 0..n /\ DOMAIN failed' \subseteq 0..n
          /\ confirmed' \subseteq 0..n /\ n + 1 - 1 = n
      BY <1>0, <2>1, <2>2, <2>4 DEF StoreInv
    <3>3. \A k \in DOMAIN pending' : pending'[k] = ledger'[k + 1].block
      BY <1>0, <2>2, <2>3, <2>4, <2>5, <2>6, <3>1 DEF StoreInv
    <3>4. \A k \in DOMAIN failed' : failed'[k] = ledger'[k + 1].block
      BY <1>0, <2>1, <2>2, <2>3 DEF StoreInv
    <3>5. \A k \in 0..n : k \in DOMAIN pending' \cup DOMAIN failed' \cup confirmed'
      BY <1>0, <2>1, <2>2, <2>4 DEF StoreInv
    <3>6. storedCounter' - 1 = n
      BY <1>0, <2>1
    <3>7. Len(ledger') = storedCounter'
      BY <2>1, <2>3
    <3> HIDE DEF n
    <3> QED BY <3>2, <3>3, <3>4, <3>5, <3>6, <3>7 DEF StoreInv
  <2>8. CounterInv'
    BY <2>1 DEF CounterInv, OwStart
  <2>9. InHandInv'
    BY <2>1, <2>2, <2>4, <2>5 DEF InHandInv
  <2> QED BY <2>7, <2>8, <2>9 DEF QueueInv
<1>7. CASE fetch_fails
  <2>1. CounterInv'
    BY <1>0, <1>7 DEF fetch_fails, Dead, CounterInv, OwStates
  <2> QED BY <1>7, <2>1, StableQueue DEF fetch_fails, QueueInv
<1>8. ASSUME NEW panics \in BOOLEAN, apply_fails(panics)
      PROVE  QueueInv'
  <2>1. CounterInv'
    BY <1>0, <1>8 DEF apply_fails, Dead, CounterInv, OwStates
  <2> QED BY <1>8, <2>1, StableQueue DEF apply_fails, QueueInv
<1>9. CASE commit_fails
  <2>1. CounterInv'
    BY <1>0, <1>9 DEF commit_fails, Dead, CounterInv, OwStates
  <2> QED BY <1>9, <2>1, StableQueue DEF commit_fails, QueueInv
<1> QED BY <1>1, <1>2, <1>3, <1>4, <1>5, <1>6, <1>7, <1>8, <1>9
        DEF OptimisticStep, OptimisticFails

\* The prover's attempts change only its own control point.
LEMMA AttemptQueue ==
  ASSUME TypeOK, QueueInv, pw.pc \notin {"peek", "dead"},
         UNCHANGED <<storeVars, ledger, confirmed, blockCounter, ow>>,
         pw'.num = pw.num, pw'.block = pw.block, pw'.pc # "remove"
  PROVE  QueueInv'
<1>1. InHandInv'
  BY DEF QueueInv, InHandInv, storeVars
<1> QED BY <1>1, StableQueue DEF QueueInv, storeVars

\* The prover worker keeps the queue invariant.
LEMMA ProverQueue ==
  ASSUME TypeOK, QueueInv, ProverStep \/ ProverFails \/ receipt_fails
  PROVE  QueueInv'
<1> USE DEF memoryVars, historyVars, storeVars
<1>0. pw \in PwStates /\ RetriesOK
  BY DEF TypeOK
<1>1. ASSUME NEW n \in DOMAIN pending, peek_block(n)
      PROVE  QueueInv'
  <2>1. InHandInv'
    BY <1>1 DEF peek_block, PwStart, InHandInv
  <2> QED BY <1>1, <2>1, StableQueue DEF peek_block, QueueInv
<1>2. CASE generate_proofs
  BY <1>0, <1>2, AttemptQueue DEF generate_proofs, PwStates
<1>3. CASE prove
  BY <1>0, <1>3, AttemptQueue DEF prove, PwStates
<1>4. ASSUME NEW delivered \in BOOLEAN, NEW answered \in BOOLEAN,
             submit_proof(delivered, answered)
      PROVE  QueueInv'
  <2>1. pw.pc = "submit" /\ pw.retries < MaxRetries
    BY <1>0, <1>4 DEF submit_proof, RetriesOK
  <2>2. pw' = [pw EXCEPT !.pc = "await"] \/ pw' = Failed(pw)
    BY <1>4 DEF submit_proof
  <2>3. pw'.num = pw.num /\ pw'.block = pw.block /\ pw'.pc # "remove"
    BY <1>0, <2>1, <2>2, FailedType DEF PwStates
  <2>4. UNCHANGED <<storeVars, ledger, confirmed, blockCounter, ow>>
    BY <1>4 DEF submit_proof
  <2> QED BY <2>1, <2>3, <2>4, AttemptQueue
<1>5. CASE get_receipt
  <2>1. pw.pc = "await" /\ pw.retries < MaxRetries
    BY <1>0, <1>5 DEF get_receipt, RetriesOK
  <2>2. pw' = [pw EXCEPT !.pc = "confirm"] \/ pw' = Failed(pw)
    BY <1>5 DEF get_receipt
  <2>3. pw'.num = pw.num /\ pw'.block = pw.block /\ pw'.pc # "remove"
    BY <1>0, <2>1, <2>2, FailedType DEF PwStates
  <2> QED BY <1>5, <2>1, <2>3, AttemptQueue DEF get_receipt
<1>6. CASE confirm_block
  <2>1. pw.num \in 0..storedCounter - 1 /\ pw.pc = "confirm"
    BY <1>6 DEF confirm_block, QueueInv, InHandInv, StoreInv
  <2>2. StoreInv'
    BY <1>6, <2>1 DEF confirm_block, QueueInv, StoreInv
  <2>3. InHandInv'
    BY <1>0, <1>6 DEF confirm_block, QueueInv, InHandInv, PwStates
  <2> QED BY <1>6, <2>2, <2>3, StableQueue DEF confirm_block, QueueInv
<1>7. CASE fail_block
  <2>1. /\ pw.num \in 0..storedCounter - 1 /\ pw.num \in DOMAIN pending
        /\ pw.block = pending[pw.num] /\ pw.block = ledger[pw.num + 1].block
    BY <1>7 DEF fail_block, QueueInv, InHandInv, StoreInv
  <2>2. StoreInv'
    BY <1>7, <2>1 DEF fail_block, push_failed, Put, QueueInv, StoreInv
  <2>3. InHandInv'
    BY <1>0, <1>7, <2>1 DEF fail_block, push_failed, Put, QueueInv, InHandInv, PwStates
  <2> QED BY <1>7, <2>2, <2>3, StableQueue DEF fail_block, push_failed, QueueInv
<1>8. CASE remove_block
  <2>1. pw.num \in DOMAIN failed \cup confirmed
    BY <1>8 DEF remove_block, QueueInv, InHandInv
  <2>2. StoreInv'
    BY <1>8, <2>1 DEF remove_block, remove_pending, Delete, QueueInv, StoreInv
  <2>3. InHandInv'
    BY <1>8 DEF remove_block, PwStart, InHandInv
  <2> QED BY <1>8, <2>2, <2>3, StableQueue
          DEF remove_block, remove_pending, QueueInv
<1>9. ASSUME NEW panics \in BOOLEAN, generate_fails(panics)
      PROVE  QueueInv'
  <2>1. pw.pc = "generate" /\ pw.retries < MaxRetries
    BY <1>0, <1>9 DEF generate_fails, RetriesOK
  <2> QED BY <1>0, <1>9, <2>1, FailedType, AttemptQueue DEF generate_fails
<1>10. CASE prove_fails
  <2>1. pw.pc = "prove" /\ pw.retries < MaxRetries
    BY <1>0, <1>10 DEF prove_fails, RetriesOK
  <2> QED BY <1>0, <1>10, <2>1, FailedType, AttemptQueue DEF prove_fails
<1>11. CASE queue_fails
  <2>1. InHandInv'
    BY <1>0, <1>11 DEF queue_fails, Dead, InHandInv, PwStates
  <2> QED BY <1>11, <2>1, StableQueue DEF queue_fails, QueueInv
<1>12. CASE receipt_fails
  <2>1. pw.pc = "await" /\ pw.retries < MaxRetries
    BY <1>0, <1>12 DEF receipt_fails, RetriesOK
  <2> QED BY <1>0, <1>12, <2>1, FailedType, AttemptQueue DEF receipt_fails
<1> QED BY <1>1, <1>2, <1>3, <1>4, <1>5, <1>6, <1>7, <1>8, <1>9, <1>10, <1>11,
           <1>12
        DEF ProverStep, ProverFails

\* So do the API, L1, its users, and a death of the process.
LEMMA EnvironmentQueue ==
  ASSUME TypeOK, QueueInv,
         L1Step \/ user_call \/ outside_update \/ handle_submit_tx \/ restart
  PROVE  QueueInv'
<1> USE DEF memoryVars, historyVars, storeVars
<1>1. CASE L1Step
  BY <1>1, StableQueue
     DEF L1Step, mine_accepts, mine_reverts, sequencerVars, QueueInv
<1>2. CASE user_call \/ outside_update
  BY <1>2, StableQueue DEF user_call, outside_update, sequencerVars, QueueInv
<1>3. CASE handle_submit_tx
  BY <1>3, StableQueue DEF handle_submit_tx, QueueInv
<1>4. CASE restart
  <2>1. CounterInv'
    BY <1>4 DEF restart, get_block_counter, OwStart, CounterInv
  <2>2. InHandInv'
    BY <1>4 DEF restart, PwStart, InHandInv
  <2> QED BY <1>4, <2>1, <2>2, StableQueue DEF restart, QueueInv
<1> QED BY <1>1, <1>2, <1>3, <1>4

\* The queue invariant holds throughout.
LEMMA QueueInvariant == Spec => []QueueInv
<1>1. Init => QueueInv
  BY DEF Init, StoreInit, OwStart, PwStart, QueueInv, StoreInv, CounterInv, InHandInv
<1>2. TypeOK /\ QueueInv /\ [Next]_vars => QueueInv'
  <2> SUFFICES ASSUME TypeOK, QueueInv, [Next]_vars
               PROVE  QueueInv'
    OBVIOUS
  <2>1. CASE UNCHANGED vars
    BY <2>1, StableQueue DEF vars, storeVars, memoryVars, historyVars, QueueInv
  <2> QED BY <2>1, OptimisticQueue, ProverQueue, EnvironmentQueue DEF Next
<1> QED BY <1>1, <1>2, TypeCorrect, PTL DEF Spec

\* A block number is never handed out twice and never skipped, so a commit
\* replaces no block of either queue.
THEOREM BlockNumbersFresh == Spec => []CommitFresh
<1>1. TypeOK /\ QueueInv => CommitFresh
  BY DEF TypeOK, DiskTypeOK, QueueInv, StoreInv, CounterInv, CommitFresh
<1> QED BY <1>1, TypeCorrect, QueueInvariant, PTL

\* No committed block is lost: it stays in one of the queues, unchanged, until
\* it is proved (and, with L1 enabled, submitted).
THEOREM NoBlockLost == Spec => []NoBlockVanishes
<1>1. QueueInv => NoBlockVanishes
  BY DEF QueueInv, StoreInv, NoBlockVanishes
<1> QED BY <1>1, QueueInvariant, PTL

-----------------------------------------------------------------------------
(* The queue implements BlockLog.                                          *)

InHand == pw.pc \notin {"peek", "dead"}

\* The block in hand is the oldest one queued.
FirstInv == InHand => \A k \in DOMAIN pending : pw.num <= k

\* A step that is not one of the four below leaves the queue alone, and the
\* prover at its block or without one.
Quiet ==
  /\ UNCHANGED <<storeVars, confirmed>>
  /\ pw'.pc \in {"peek", "dead"} \/ (InHand /\ pw'.num = pw.num)

\* Every step peeks at, commits, confirms, gives up or removes a block, or is
\* quiet.
LEMMA QueueMoves ==
  ASSUME TypeOK, Next
  PROVE  \/ \E n \in DOMAIN pending : peek_block(n)
         \/ commit_block \/ confirm_block \/ fail_block \/ remove_block
         \/ Quiet \/ UNCHANGED <<storeVars, confirmed, pw>>
<1> USE DEF memoryVars, historyVars, storeVars
<1>0. pw \in PwStates /\ RetriesOK
  BY DEF TypeOK
<1>1. CASE OptimisticStep \/ OptimisticFails
  BY <1>1 DEF OptimisticStep, OptimisticFails, fetch_processed, fetch_messages,
     snapshot_mempool, apply_batch, drain_mempool, fetch_fails, apply_fails,
     commit_fails
<1>2. CASE handle_submit_tx \/ L1Step \/ user_call \/ outside_update
  BY <1>2 DEF handle_submit_tx, L1Step, mine_accepts, mine_reverts, user_call,
     outside_update, sequencerVars
<1>3. CASE restart
  BY <1>3 DEF restart, PwStart, Quiet
<1>4. CASE generate_proofs \/ prove
  BY <1>0, <1>4 DEF generate_proofs, prove, PwStates, Quiet, InHand
<1>5. ASSUME NEW delivered \in BOOLEAN, NEW answered \in BOOLEAN,
             submit_proof(delivered, answered)
      PROVE  Quiet
  <2>1. pw.pc = "submit" /\ pw.retries < MaxRetries
    BY <1>0, <1>5 DEF submit_proof, RetriesOK
  <2>2. pw' = [pw EXCEPT !.pc = "await"] \/ pw' = Failed(pw)
    BY <1>5 DEF submit_proof
  <2>3. pw'.num = pw.num
    BY <1>0, <2>1, <2>2, FailedType DEF PwStates
  <2> QED BY <1>5, <2>1, <2>3 DEF submit_proof, Quiet, InHand
<1>6. CASE get_receipt
  <2>1. pw.pc = "await" /\ pw.retries < MaxRetries
    BY <1>0, <1>6 DEF get_receipt, RetriesOK
  <2>2. pw' = [pw EXCEPT !.pc = "confirm"] \/ pw' = Failed(pw)
    BY <1>6 DEF get_receipt
  <2>3. pw'.num = pw.num
    BY <1>0, <2>1, <2>2, FailedType DEF PwStates
  <2> QED BY <1>6, <2>1, <2>3 DEF get_receipt, Quiet, InHand
<1>7. ASSUME receipt_fails \/ prove_fails \/ \E panics \in BOOLEAN : generate_fails(panics)
      PROVE  Quiet
  <2>1. pw.pc \in {"await", "prove", "generate"} /\ pw.retries < MaxRetries
    BY <1>0, <1>7 DEF receipt_fails, prove_fails, generate_fails, RetriesOK
  <2>2. pw' = Failed(pw) /\ UNCHANGED <<storeVars, confirmed>>
    BY <1>7 DEF receipt_fails, prove_fails, generate_fails
  <2>3. pw'.num = pw.num
    BY <1>0, <2>1, <2>2, FailedType
  <2> QED BY <2>1, <2>2, <2>3 DEF Quiet, InHand
<1>8. CASE queue_fails
  BY <1>0, <1>8 DEF queue_fails, Dead, Quiet, PwStates
<1> QED BY <1>1, <1>2, <1>3, <1>4, <1>5, <1>6, <1>7, <1>8
        DEF Next, ProverStep, ProverFails

\* What a commit does to the queue: the stored counter's number is added.
LEMMA CommitMoves ==
  ASSUME TypeOK, QueueInv, commit_block
  PROVE  /\ DOMAIN pending' = DOMAIN pending \cup {storedCounter}
         /\ storedCounter' = storedCounter + 1
         /\ UNCHANGED <<failed, confirmed, pw>>
<1>1. ow.num = storedCounter
  BY DEF commit_block, QueueInv, CounterInv
<1> QED BY <1>1 DEF commit_block, commit_optimistic_block, Put

\* What a commit does to the ledger: the block with the stored counter's
\* number is added at the end.
LEMMA CommitLedger ==
  ASSUME TypeOK, QueueInv, commit_block
  PROVE  LET n == storedCounter
         IN  /\ n \in Nat /\ Len(ledger) = n /\ DOMAIN ledger = 1..n
             /\ Len(ledger') = n + 1 /\ DOMAIN ledger' = 1..n + 1
             /\ \A k \in 1..n : ledger'[k] = ledger[k]
             /\ ledger'[n + 1].block = Block(ow.txs, ow.messages, ow.pre, ow.post)
<1> DEFINE b == Block(ow.txs, ow.messages, ow.pre, ow.post)
           e == [block |-> b, start |-> ow.start]
           n == storedCounter
<1>1. n \in Nat /\ Len(ledger) = n
  BY DEF TypeOK, DiskTypeOK, QueueInv, StoreInv
<1>2. ledger' = Append(ledger, e)
  BY DEF commit_block
<1>3. PICK S : ledger \in Seq(S)
  BY DEF TypeOK, HistoryTypeOK
<1>4. e.block = b
  OBVIOUS
<1> HIDE DEF e, b
<1>5. /\ DOMAIN ledger = 1..n /\ Len(ledger') = n + 1 /\ DOMAIN ledger' = 1..n + 1
      /\ ledger'[n + 1] = e /\ \A k \in 1..n : ledger'[k] = ledger[k]
  BY <1>1, <1>2, <1>3
<1> QED BY <1>1, <1>4, <1>5 DEF b

\* Later blocks have larger numbers, so the block in hand stays the oldest.
LEMMA FirstStep ==
  ASSUME TypeOK, QueueInv, FirstInv, Next
  PROVE  FirstInv'
<1>1. ASSUME NEW n \in DOMAIN pending, peek_block(n)
      PROVE  FirstInv'
  BY <1>1 DEF peek_block, IsFirstPending, FirstInv, storeVars, PwStart
<1>2. CASE commit_block
  <2>1. InHand => pw.num <= storedCounter
    <3>1. InHand => pw.num \in 0..storedCounter - 1
      BY DEF InHand, QueueInv, InHandInv, StoreInv
    <3>2. storedCounter \in Nat
      BY DEF TypeOK, DiskTypeOK
    <3> QED BY <3>1, <3>2
  <2> QED BY <1>2, <2>1, CommitMoves DEF FirstInv, InHand
<1>3. CASE confirm_block
  BY <1>3 DEF confirm_block, FirstInv, InHand, storeVars, TypeOK, PwStates
<1>4. CASE fail_block
  BY <1>4 DEF fail_block, push_failed, FirstInv, InHand, TypeOK, PwStates
<1>5. CASE remove_block
  BY <1>5 DEF remove_block, PwStart, FirstInv, InHand
<1>6. CASE Quiet \/ UNCHANGED <<storeVars, confirmed, pw>>
  BY <1>6 DEF Quiet, FirstInv, InHand, storeVars
<1> QED BY <1>1, <1>2, <1>3, <1>4, <1>5, <1>6, QueueMoves

\* A prover step that settles or removes a block has the oldest one in hand.
LEMMA InHandIsFirst ==
  ASSUME QueueInv, FirstInv, InHand
  PROVE  pw.num \in DOMAIN pending /\ BlockQueue!First(pw.num)
  BY DEF QueueInv, InHandInv, FirstInv, InHand, BlockQueue!First

\* Every step is one of the log, or leaves it alone.
LEMMA LogStep ==
  ASSUME TypeOK, QueueInv, FirstInv, Next
  PROVE  BlockQueue!LogNext \/ UNCHANGED BlockQueue!logVars
<1>1. ASSUME NEW n \in DOMAIN pending, peek_block(n)
      PROVE  UNCHANGED BlockQueue!logVars
  BY <1>1 DEF peek_block, storeVars, historyVars, BlockQueue!logVars
<1>2. CASE commit_block
  BY <1>2, CommitMoves DEF BlockQueue!LogNext, BlockQueue!Commit
<1>3. CASE confirm_block
  <2>1. InHand
    BY <1>3 DEF confirm_block, InHand
  <2>2. BlockQueue!Confirm(pw.num)
    BY <1>3, <2>1, InHandIsFirst DEF confirm_block, storeVars, BlockQueue!Confirm
  <2> QED BY <2>1, <2>2, InHandIsFirst DEF BlockQueue!LogNext
<1>4. CASE fail_block
  <2>1. InHand
    BY <1>4 DEF fail_block, InHand
  <2>2. DOMAIN failed' = DOMAIN failed \cup {pw.num}
        /\ UNCHANGED <<pending, storedCounter, confirmed>>
    BY <1>4 DEF fail_block, push_failed, Put, historyVars
  <2>3. BlockQueue!GiveUp(pw.num)
    BY <2>1, <2>2, InHandIsFirst DEF BlockQueue!GiveUp
  <2> QED BY <2>1, <2>3, InHandIsFirst DEF BlockQueue!LogNext
<1>5. CASE remove_block
  <2>1. InHand /\ pw.num \in DOMAIN failed \cup confirmed
    BY <1>5 DEF remove_block, InHand, QueueInv, InHandInv
  <2>2. DOMAIN pending' = DOMAIN pending \ {pw.num}
        /\ UNCHANGED <<failed, storedCounter, confirmed>>
    BY <1>5 DEF remove_block, remove_pending, Delete, historyVars
  <2>3. BlockQueue!Remove(pw.num)
    BY <2>1, <2>2, InHandIsFirst DEF BlockQueue!Remove
  <2> QED BY <2>1, <2>3, InHandIsFirst DEF BlockQueue!LogNext
<1>6. CASE Quiet \/ UNCHANGED <<storeVars, confirmed, pw>>
  BY <1>6 DEF Quiet, storeVars, BlockQueue!logVars
<1> QED BY <1>1, <1>2, <1>3, <1>4, <1>5, <1>6, QueueMoves

\* The sequencer's queue is an in-order log without gaps and without losses,
\* for any number of blocks, failures and deaths of the process.
THEOREM SequencerImplementsBlockLog == Spec => ImplementsBlockLog
<1>1. Init => BlockQueue!LogInit /\ FirstInv
  BY DEF Init, StoreInit, PwStart, FirstInv, InHand, BlockQueue!LogInit
<1>2. TypeOK /\ QueueInv /\ FirstInv /\ [Next]_vars
        => FirstInv' /\ [BlockQueue!LogNext]_(BlockQueue!logVars)
  <2> SUFFICES ASSUME TypeOK, QueueInv, FirstInv, [Next]_vars
               PROVE  FirstInv' /\ [BlockQueue!LogNext]_(BlockQueue!logVars)
    OBVIOUS
  <2>1. CASE UNCHANGED vars
    BY <2>1 DEF vars, storeVars, historyVars, FirstInv, InHand, BlockQueue!logVars
  <2> QED BY <2>1, FirstStep, LogStep
<1> QED BY <1>1, <1>2, TypeCorrect, QueueInvariant, PTL
        DEF Spec, ImplementsBlockLog, BlockQueue!LogSpec
=============================================================================
