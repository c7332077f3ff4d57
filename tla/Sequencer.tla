------------------------------ MODULE Sequencer ------------------------------
(***************************************************************************)
(* The sequencer process (sequencer/src/main.rs) with its queue database   *)
(* and the L1 contract it reads from and submits to: the HTTP handler, the *)
(* optimistic worker, the prover worker, the L1 transactions in flight,    *)
(* and the death and restart of the process.                               *)
(*                                                                         *)
(* One action is what runs between two points where another task, L1 or a  *)
(* crash can be observed: an await, a lock, a database write.              *)
(*                                                                         *)
(* What a batch does to the state tree is abstracted to its outcomes: any  *)
(* root, an error, or a panic while the tree's mutex is held.  The same    *)
(* holds of proof generation and of the zkVM.                              *)
(***************************************************************************)
EXTENDS RollupBridge, BlockQueueStore

CONSTANTS
  L1Enabled,      \* config.l1.enabled
  MaxRetries,     \* MAX_RETRIES of the prover worker
  MaxU64,         \* the largest amount the sequencer can represent
  MaxTxs,         \* bound: transactions posted to the API
  MaxBlocks,      \* bound: block numbers handed out
  MaxRestarts,    \* bound: deaths of the process
  MaxOutside      \* bound: updateState calls of others that L1 accepts

ASSUME SequencerAssumption ==
  /\ L1Enabled \in BOOLEAN
  /\ MaxRetries \in Nat \ {0}
  /\ {MaxU64, MaxTxs, MaxBlocks, MaxRestarts, MaxOutside} \subseteq Nat

VARIABLES
  headroot,       \* disk: head root of the state tree database
  mempool,        \* AppState.mempool
  heads,          \* OffchainState.heads
  blockCounter,   \* AppState.block_counter
  poisoned,       \* the mutex of AppState.tree is poisoned
  ow,             \* locals and control point of optimistic_worker_loop
  pw,             \* locals and control point of prover_worker_loop
  l1Sent,         \* updateState transactions sent and not yet mined
  receipt,        \* status of the last updateState transaction mined
  submitted,      \* transactions acknowledged by the API; tx i is the i-th
  restarts,       \* deaths of the process
  ledger,         \* history: every block committed to the queue, by number
  sealed,         \* history: the API transactions of those blocks, in order
  orphan,         \* history: a head root was stored whose block never was
  confirmed,      \* history: blocks process_and_prove_batch returned Ok for
  finalized       \* history: the batches L1 accepted, in order

memoryVars == <<mempool, heads, blockCounter, poisoned>>
l1Vars == <<bridgeVars, l1Sent, receipt, finalized>>
historyVars == <<ledger, sealed, orphan, confirmed>>
vars == <<l1Vars, storeVars, headroot, memoryVars, ow, pw,
          submitted, restarts, historyVars>>

-----------------------------------------------------------------------------
(* State of the two workers.                                               *)

\* types.rs: PendingBlock; the number is the key it is stored under.
Block(txs, messages, pre, post) ==
  [txs |-> txs, messages |-> messages,
   pre_state_root |-> pre, post_state_root |-> post]

NoMessages == [s \in Streams |-> << >>]

OwStart ==
  [pc |-> "fetch", fetched |-> [s \in Streams |-> "none"],
   start |-> [s \in Streams |-> 0], messages |-> NoMessages,
   txs |-> << >>, pre |-> InitialRoot, post |-> InitialRoot, num |-> 0]

PwStart ==
  [pc |-> "peek", num |-> 0, retries |-> 0,
   block |-> Block(<< >>, NoMessages, InitialRoot, InitialRoot)]

\* A worker whose loop returned an error or panicked is never started again.
Dead(w) == [w EXCEPT !.pc = "dead"]

-----------------------------------------------------------------------------
(* The HTTP API.                                                           *)

handle_submit_tx ==
  /\ submitted < MaxTxs
  /\ submitted' = submitted + 1
  /\ mempool' = Append(mempool, submitted')
  /\ UNCHANGED <<l1Vars, storeVars, headroot, heads, blockCounter, poisoned,
                 ow, pw, restarts, historyVars>>

-----------------------------------------------------------------------------
(* optimistic_worker_loop.                                                 *)

\* The two fetches run concurrently; each first reads the processed count...
fetch_processed(s) ==
  /\ L1Enabled
  /\ ow.pc = "fetch" /\ ow.fetched[s] = "none"
  /\ ow' = [ow EXCEPT !.fetched[s] = "start", !.start[s] = processedCount[s]]
  /\ UNCHANGED <<l1Vars, storeVars, headroot, memoryVars, pw,
                 submitted, restarts, historyVars>>

\* ...and later the count and the messages from there on.  An amount beyond
\* u64 makes the conversion panic.
fetch_messages(s) ==
  LET num_to_fetch == messageCount(s) - ow.start[s]
      new == IF num_to_fetch > 0
             THEN getMessages(s, ow.start[s], num_to_fetch)
             ELSE << >>
      representable == s = "deposit" => \A i \in DOMAIN new : new[i].amount <= MaxU64
  IN /\ ow.pc = "fetch" /\ ow.fetched[s] = "start"
     /\ ow' = IF representable
              THEN [ow EXCEPT !.fetched[s] = "done", !.messages[s] = new]
              ELSE Dead(ow)
     /\ UNCHANGED <<l1Vars, storeVars, headroot, memoryVars, pw,
                    submitted, restarts, historyVars>>

\* An RPC keeps failing until the backoff gives up.
fetch_fails ==
  /\ L1Enabled
  /\ ow.pc = "fetch" /\ \E s \in Streams : ow.fetched[s] # "done"
  /\ ow' = Dead(ow)
  /\ UNCHANGED <<l1Vars, storeVars, headroot, memoryVars, pw,
                 submitted, restarts, historyVars>>

FetchDone == L1Enabled => \A s \in Streams : ow.fetched[s] = "done"

\* Mutant: a block needs both API transactions and L1 messages.
NothingToDo_Either == mempool = << >> \/ ow.messages = NoMessages

NothingToDo == mempool = << >> /\ ow.messages = NoMessages

\* Mutant: build on the proven head.
pre_root_Proven == heads.proven

pre_root == heads.optimistic

\* Copy the mempool under its read lock and note the root to build on; with
\* nothing to do, back to sleep.
snapshot_mempool ==
  /\ ow.pc = "fetch" /\ FetchDone
  /\ IF NothingToDo
     THEN ow' = OwStart
     ELSE /\ blockCounter < MaxBlocks
          /\ ow' = [ow EXCEPT !.pc = "apply", !.txs = mempool,
                              !.pre = pre_root]
  /\ UNCHANGED <<l1Vars, storeVars, headroot, memoryVars, pw,
                 submitted, restarts, historyVars>>

\* In spawn_blocking, under the tree's mutex: execute the batch, store the
\* new head root, take a block number.
apply_batch(root) ==
  /\ ow.pc = "apply" /\ ~poisoned
  /\ headroot' = root
  /\ blockCounter' = blockCounter + 1
  /\ ow' = [ow EXCEPT !.pc = "drain", !.post = root, !.num = blockCounter]
  /\ UNCHANGED <<l1Vars, storeVars, mempool, heads, poisoned, pw,
                 submitted, restarts, historyVars>>

\* The batch returns an error, or panics and poisons the mutex; a mutex that
\* is already poisoned is an error too.  The head root is not moved.
apply_fails(panics) ==
  /\ ow.pc = "apply"
  /\ poisoned' = (poisoned \/ panics)
  /\ ow' = Dead(ow)
  /\ UNCHANGED <<l1Vars, storeVars, headroot, mempool, heads, blockCounter, pw,
                 submitted, restarts, historyVars>>

\* Mutants: the last transaction of the batch stays; everything goes.
Drained_OffByOne(pool, n) == SubSeq(pool, n, Len(pool))
Drained_Cleared(pool, n) == << >>

\* mempool.drain(..n)
Drained(pool, n) == SubSeq(pool, n + 1, Len(pool))

\* Publish the optimistic head and drop the batch from the mempool's front.
drain_mempool ==
  /\ ow.pc = "drain"
  /\ heads' = [heads EXCEPT !.optimistic = ow.post]
  /\ mempool' = Drained(mempool, Len(ow.txs))
  /\ ow' = [ow EXCEPT !.pc = "commit"]
  /\ UNCHANGED <<l1Vars, storeVars, headroot, blockCounter, poisoned, pw,
                 submitted, restarts, historyVars>>

commit_block ==
  LET block == Block(ow.txs, ow.messages, ow.pre, ow.post)
  IN /\ ow.pc = "commit"
     /\ commit_optimistic_block(ow.num, block, ow.num + 1)
     /\ ledger' = Append(ledger, [block |-> block, start |-> ow.start])
     /\ sealed' = sealed \o ow.txs
     /\ ow' = OwStart
     /\ UNCHANGED <<l1Vars, headroot, memoryVars, pw, submitted, restarts,
                    orphan, confirmed>>

\* The head root moved, the block is not in the queue.
BlockLost == ow.pc \in {"drain", "commit"} /\ ow.post # ow.pre

commit_fails ==
  /\ ow.pc = "commit"
  /\ orphan' = (orphan \/ BlockLost)
  /\ ow' = Dead(ow)
  /\ UNCHANGED <<l1Vars, storeVars, headroot, memoryVars, pw,
                 submitted, restarts, ledger, sealed, confirmed>>

-----------------------------------------------------------------------------
(* prover_worker_loop and process_and_prove_batch.                         *)

\* Mutants: one attempt too many; a block is never given up.
Failed_OneMore(w) ==
  IF w.retries + 1 > MaxRetries
  THEN [w EXCEPT !.pc = "push_failed", !.retries = @ + 1]
  ELSE [w EXCEPT !.pc = "generate", !.retries = @ + 1]
Failed_Forever(w) == [w EXCEPT !.pc = "generate"]

\* The Err arm: MaxRetries attempts, then the failed queue.
Failed(w) ==
  IF w.retries + 1 >= MaxRetries
  THEN [w EXCEPT !.pc = "push_failed", !.retries = @ + 1]
  ELSE [w EXCEPT !.pc = "generate", !.retries = @ + 1]

peek_block(n) ==
  /\ pw.pc = "peek"
  /\ IsFirstPending(n)
  /\ pw' = [PwStart EXCEPT !.pc = "generate", !.num = n, !.block = pending[n]]
  /\ UNCHANGED <<l1Vars, storeVars, headroot, memoryVars, ow,
                 submitted, restarts, historyVars>>

\* generate_proofs_for_block under the tree's mutex.
generate_proofs ==
  /\ pw.pc = "generate" /\ ~poisoned
  /\ pw' = [pw EXCEPT !.pc = "prove"]
  /\ UNCHANGED <<l1Vars, storeVars, headroot, memoryVars, ow,
                 submitted, restarts, historyVars>>

\* An error, a poisoned mutex, or a panic (the root assertion) that poisons it.
generate_fails(panics) ==
  /\ pw.pc = "generate"
  /\ poisoned' = (poisoned \/ panics)
  /\ pw' = Failed(pw)
  /\ UNCHANGED <<l1Vars, storeVars, headroot, mempool, heads, blockCounter, ow,
                 submitted, restarts, historyVars>>

\* The guest commits the block's public values and the roots match.
prove ==
  /\ pw.pc = "prove"
  /\ pw' = [pw EXCEPT !.pc = IF L1Enabled THEN "submit" ELSE "confirm"]
  /\ UNCHANGED <<l1Vars, storeVars, headroot, memoryVars, ow,
                 submitted, restarts, historyVars>>

\* The guest panics, or its post root is not the block's.
prove_fails ==
  /\ pw.pc = "prove"
  /\ pw' = Failed(pw)
  /\ UNCHANGED <<l1Vars, storeVars, headroot, memoryVars, ow,
                 submitted, restarts, historyVars>>

\* submit_proof_to_l1 sends the transaction: the node may take it or not, and
\* its answer may be lost.
submit_proof(delivered, answered) ==
  LET b == pw.block
      pv == PublicValues(b.pre_state_root, b.post_state_root, b.messages)
  IN /\ pw.pc = "submit"
     /\ answered => delivered
     /\ l1Sent' = IF delivered
                  THEN Append(l1Sent, [num |-> pw.num, values |-> pv])
                  ELSE l1Sent
     /\ pw' = IF answered THEN [pw EXCEPT !.pc = "await"] ELSE Failed(pw)
     /\ UNCHANGED <<bridgeVars, receipt, finalized, storeVars, headroot,
                    memoryVars, ow, submitted, restarts, historyVars>>

\* Mutant: a mined transaction counts as a successful one.
ReceiptStatus_Mined == receipt # "none"

\* receipt.status()
ReceiptStatus == receipt = "ok"

\* get_receipt: the awaited transaction is the last one sent, so it is mined
\* once none is in flight.
get_receipt ==
  /\ pw.pc = "await" /\ l1Sent = << >>
  /\ pw' = IF ReceiptStatus THEN [pw EXCEPT !.pc = "confirm"] ELSE Failed(pw)
  /\ UNCHANGED <<l1Vars, storeVars, headroot, memoryVars, ow,
                 submitted, restarts, historyVars>>

\* get_receipt gives up while the transaction is in flight or already mined.
receipt_fails ==
  /\ pw.pc = "await"
  /\ pw' = Failed(pw)
  /\ UNCHANGED <<l1Vars, storeVars, headroot, memoryVars, ow,
                 submitted, restarts, historyVars>>

\* process_and_prove_batch returns Ok.
confirm_block ==
  /\ pw.pc = "confirm"
  /\ heads' = [heads EXCEPT !.proven = pw.block.post_state_root]
  /\ confirmed' = confirmed \cup {pw.num}
  /\ pw' = [pw EXCEPT !.pc = "remove"]
  /\ UNCHANGED <<l1Vars, storeVars, headroot, mempool, blockCounter, poisoned,
                 ow, submitted, restarts, ledger, sealed, orphan>>

fail_block ==
  /\ pw.pc = "push_failed"
  /\ push_failed(pw.num, pw.block)
  /\ pw' = [pw EXCEPT !.pc = "remove"]
  /\ UNCHANGED <<l1Vars, headroot, memoryVars, ow,
                 submitted, restarts, historyVars>>

remove_block ==
  /\ pw.pc = "remove"
  /\ remove_pending(pw.num)
  /\ pw' = PwStart
  /\ UNCHANGED <<l1Vars, headroot, memoryVars, ow,
                 submitted, restarts, historyVars>>

\* A read of the queue fails, or a write until the backoff gives up.
queue_fails ==
  /\ pw.pc \in {"peek", "push_failed", "remove"}
  /\ pw' = Dead(pw)
  /\ UNCHANGED <<l1Vars, storeVars, headroot, memoryVars, ow,
                 submitted, restarts, historyVars>>

-----------------------------------------------------------------------------
(* L1 and the process.                                                     *)

sequencerVars == <<storeVars, headroot, memoryVars, ow, pw,
                   submitted, restarts, historyVars>>

\* A batch L1 accepted: its block's number, or Outsider for a batch that
\* somebody else submitted, and its roots.
Outsider == -1
Accepted(num, pv) ==
  [num |-> num, pre |-> pv.preStateRoot, post |-> pv.postStateRoot]

\* A transaction of the sequencer's account is mined; nonces keep the order
\* of sending.
mine_accepts ==
  /\ l1Sent # << >>
  /\ updateState(Head(l1Sent).values)
  /\ finalized' = Append(finalized, Accepted(Head(l1Sent).num, Head(l1Sent).values))
  /\ receipt' = "ok"
  /\ l1Sent' = Tail(l1Sent)
  /\ UNCHANGED sequencerVars

\* A require of updateState fails, or the verifier rejects the proof.
mine_reverts ==
  /\ l1Sent # << >>
  /\ receipt' = "reverted"
  /\ l1Sent' = Tail(l1Sent)
  /\ UNCHANGED <<bridgeVars, finalized, sequencerVars>>

user_call == UserCall /\ UNCHANGED <<l1Sent, receipt, finalized, sequencerVars>>

\* updateState has no access control: anybody else may submit any batch a
\* proof was made for, a copy of the sequencer's own one included.
outside_update ==
  /\ Cardinality({i \in DOMAIN finalized : finalized[i].num = Outsider}) < MaxOutside
  /\ \E from, to \in Roots, ms \in Batches :
       LET pv == PublicValues(from, to, ms)
       IN updateState(pv) /\ finalized' = Append(finalized, Accepted(Outsider, pv))
  /\ UNCHANGED <<l1Sent, receipt, sequencerVars>>

\* The process dies and main runs again: memory is lost, the two databases
\* and the transactions already sent are not.
restart ==
  /\ restarts < MaxRestarts
  /\ restarts' = restarts + 1
  /\ heads' = [proven |-> headroot, optimistic |-> headroot]
  /\ mempool' = << >>
  /\ blockCounter' = get_block_counter
  /\ poisoned' = FALSE
  /\ ow' = OwStart
  /\ pw' = PwStart
  /\ orphan' = (orphan \/ BlockLost)
  /\ UNCHANGED <<l1Vars, storeVars, headroot, submitted, ledger, sealed,
                 confirmed>>

\* main on fresh databases, against a bridge deployed with the empty root.
Init ==
  /\ BridgeInit
  /\ StoreInit
  /\ headroot = InitialRoot
  /\ mempool = << >>
  /\ heads = [proven |-> InitialRoot, optimistic |-> InitialRoot]
  /\ blockCounter = 0
  /\ poisoned = FALSE
  /\ ow = OwStart
  /\ pw = PwStart
  /\ l1Sent = << >>
  /\ receipt = "none"
  /\ submitted = 0
  /\ restarts = 0
  /\ ledger = << >>
  /\ sealed = << >>
  /\ orphan = FALSE
  /\ confirmed = {}
  /\ finalized = << >>

\* The optimistic worker: what it does, and how it fails.
OptimisticStep ==
  \/ \E s \in Streams : fetch_processed(s) \/ fetch_messages(s)
  \/ snapshot_mempool
  \/ \E r \in Roots : apply_batch(r)
  \/ drain_mempool
  \/ commit_block

OptimisticFails ==
  \/ fetch_fails
  \/ \E panics \in BOOLEAN : apply_fails(panics)
  \/ commit_fails

\* The prover worker: what it does, and how it fails.
ProverStep ==
  \/ \E n \in DOMAIN pending : peek_block(n)
  \/ generate_proofs
  \/ prove
  \/ submit_proof(TRUE, TRUE)
  \/ get_receipt
  \/ confirm_block
  \/ fail_block
  \/ remove_block

ProverFails ==
  \/ \E panics \in BOOLEAN : generate_fails(panics)
  \/ prove_fails
  \/ \E delivered \in BOOLEAN : submit_proof(delivered, FALSE)
  \/ queue_fails

L1Step == mine_accepts \/ mine_reverts

Next ==
  \/ handle_submit_tx
  \/ OptimisticStep \/ OptimisticFails
  \/ ProverStep \/ ProverFails \/ receipt_fails
  \/ L1Step
  \/ user_call
  \/ outside_update
  \/ restart

Spec == Init /\ [][Next]_vars

\* The runtime schedules both workers and L1 mines what it was sent.  Nothing
\* is assumed about users and others on L1, about deaths of the process, or
\* about whether a step of a worker succeeds or fails; an unanswered
\* get_receipt may wait forever.
FairSpec ==
  /\ Spec
  /\ WF_vars(OptimisticStep \/ OptimisticFails)
  /\ WF_vars(ProverStep \/ ProverFails)
  /\ WF_vars(L1Step)

-----------------------------------------------------------------------------
(* Properties.                                                             *)

Blocks == [txs : Seq(Nat), messages : [Streams -> Seq(Messages)],
           pre_state_root : Roots, post_state_root : Roots]

OwStates ==
  [pc : {"fetch", "apply", "drain", "commit", "dead"},
   fetched : [Streams -> {"none", "start", "done"}],
   start : [Streams -> Nat], messages : [Streams -> Seq(Messages)],
   txs : Seq(Nat), pre : Roots, post : Roots, num : Nat]

PwStates ==
  [pc : {"peek", "generate", "prove", "submit", "await", "confirm",
         "push_failed", "remove", "dead"},
   num : Nat, retries : 0..MaxRetries, block : Blocks]

\* A block is attempted again only below the retry limit, and given up only
\* at it.
RetriesOK ==
  /\ pw.pc \in {"generate", "prove", "submit", "await"} => pw.retries < MaxRetries
  /\ pw.pc = "push_failed" => pw.retries = MaxRetries

L1TypeOK ==
  /\ l1Sent \in Seq([num : Nat, values : BatchValues])
  /\ receipt \in {"none", "ok", "reverted"}
  /\ finalized \in Seq([num : Nat \cup {Outsider}, pre : Roots, post : Roots])

DiskTypeOK ==
  /\ DOMAIN pending \subseteq Nat /\ pending \in [DOMAIN pending -> Blocks]
  /\ DOMAIN failed \subseteq Nat /\ failed \in [DOMAIN failed -> Blocks]
  /\ storedCounter \in Nat
  /\ headroot \in Roots

MemoryTypeOK ==
  /\ mempool \in Seq(Nat)
  /\ heads \in [proven : Roots, optimistic : Roots]
  /\ blockCounter \in Nat

HistoryTypeOK ==
  /\ submitted \in Nat
  /\ restarts \in Nat
  /\ ledger \in Seq([block : Blocks, start : [Streams -> Nat]])
  /\ sealed \in Seq(Nat)
  /\ confirmed \subseteq Nat

FlagTypeOK == poisoned \in BOOLEAN /\ orphan \in BOOLEAN

\* Types, and the retry limit of prover_worker_loop: a block goes to the failed
\* queue after exactly MAX_RETRIES failed attempts in a row of one process.
TypeOK ==
  /\ BridgeTypeOK /\ L1TypeOK
  /\ DiskTypeOK
  /\ MemoryTypeOK
  /\ ow \in OwStates
  /\ pw \in PwStates /\ RetriesOK
  /\ HistoryTypeOK
  /\ FlagTypeOK

\* The number fetch_add hands to a block is the next free one when the block
\* reaches commit_optimistic_block: the write never replaces a queued or a
\* failed block and never reuses a confirmed number, also after a restart
\* that follows a block whose number was taken and whose commit was lost.
CommitFresh ==
  /\ Len(ledger) = storedCounter
  /\ ow.pc \in {"drain", "commit"} =>
       /\ ow.num = storedCounter
       /\ ow.num \notin DOMAIN pending \cup DOMAIN failed \cup confirmed

\* A committed block is, unchanged, in the pending or the failed queue until
\* process_and_prove_batch succeeded for it: no crash between push_failed and
\* remove_pending, and no restart in the middle of a proof, loses it.
NoBlockVanishes ==
  \A n \in 0..storedCounter - 1 :
    \/ n \in DOMAIN pending /\ pending[n] = ledger[n + 1].block
    \/ n \in DOMAIN failed /\ failed[n] = ledger[n + 1].block
    \/ n \in confirmed

\* The two queues, the counter and both workers implement the in-order,
\* loss-free log of BlockLog: a block number is never skipped, and a block is
\* settled and removed only while it is the oldest one queued, although the
\* prover reads it long before and the process may die at any point.
BlockQueue == INSTANCE BlockLog WITH
  next <- storedCounter, queued <- DOMAIN pending, failed <- DOMAIN failed
ImplementsBlockLog == BlockQueue!LogSpec

\* The sequencer's blocks among the batches L1 accepted.
Own(i) == finalized[i].num # Outsider
OnL1 == {finalized[i].num : i \in {j \in DOMAIN finalized : Own(j)}}

\* With L1 enabled a block leaves the queue as proven only if L1 accepted it:
\* the receipt the prover acted on was its own, whatever was resent before and
\* whoever else moved the contract on.
ConfirmedIsFinalized == L1Enabled => confirmed \subseteq OnL1

\* L1 accepts the sequencer's blocks in the order of their numbers, also when
\* transactions of an earlier attempt, or of the process before a restart, are
\* mined late, and batches of others are accepted in between.
FinalizedInOrder ==
  \A i, j \in DOMAIN finalized :
    i <= j /\ Own(i) /\ Own(j) => finalized[i].num <= finalized[j].num

\* A block of the sequencer that L1 accepts is, with its roots, the block that
\* was committed under its number, whichever attempt sent it.
FinalizedCommitted ==
  \A i \in DOMAIN finalized :
    Own(i) =>
      /\ finalized[i].num + 1 \in DOMAIN ledger
      /\ finalized[i].pre = ledger[finalized[i].num + 1].block.pre_state_root
      /\ finalized[i].post = ledger[finalized[i].num + 1].block.post_state_root

\* Each accepted batch starts from the root the one before it left.
RootChain ==
  /\ \A i \in DOMAIN finalized :
       finalized[i].pre = IF i = 1 THEN InitialRoot ELSE finalized[i - 1].post
  /\ stateRoot = IF finalized = << >> THEN InitialRoot
                 ELSE finalized[Len(finalized)].post

\* The sequencer's committed blocks and the batches of others that L1 accepted
\* form one chain of roots from the initial one to the contract's stateRoot:
\* a block accepted twice, because its first receipt was lost, left the root
\* unchanged or somebody led it back, and no block is accepted on top of a
\* block that was not.
FinalizedChain == FinalizedCommitted /\ RootChain

\* Every block builds on the block before it, unless a head root was stored
\* whose block was lost before commit_optimistic_block.
Chained ==
  ~orphan =>
    \A i \in DOMAIN ledger :
      ledger[i].block.pre_state_root =
        IF i = 1 THEN InitialRoot ELSE ledger[i - 1].block.post_state_root

\* Where the acknowledged transactions are: in committed blocks, in the block
\* being committed, in the mempool.
Log == sealed \o (IF ow.pc = "commit" THEN ow.txs ELSE << >>) \o mempool

\* No acknowledged transaction is put in two blocks and blocks keep the order
\* of submission, although the batch is a copy of the mempool taken before
\* the block is executed and requests arrive until it is drained.
LogInOrder == \A i, j \in DOMAIN Log : i < j => Log[i] < Log[j]

\* While the worker lives and the process has not died, no acknowledged
\* transaction is lost.
NoTxLost ==
  restarts = 0 /\ ow.pc # "dead" => Log = [i \in 1..submitted |-> i]

\* A queued block is proved or moved to the failed queue, unless the prover
\* worker dies: retries are bounded, and each failure counts as one.
PendingDrains ==
  \A n \in 0..MaxBlocks - 1 :
    n \in DOMAIN pending ~> n \notin DOMAIN pending \/ pw.pc = "dead"

\* An acknowledged transaction is put in a block, unless the optimistic
\* worker or the process dies: requests that keep arriving while a batch is
\* made do not keep one out.
TxSealed ==
  \A i \in 1..MaxTxs :
    submitted >= i ~> \/ i \in Range(sealed)
                      \/ ow.pc = "dead" \/ restarts > 0

\* The i-th message of stream s is in a committed block.
InBlock(s, i) ==
  \E n \in DOMAIN ledger :
    /\ ledger[n].start[s] < i
    /\ i <= ledger[n].start[s] + Len(ledger[n].block.messages[s])

\* A deposit or forced transaction on L1 is put in a block, also when nobody
\* uses the API, or is handled by somebody else's batch, unless the optimistic
\* worker dies: the processed count a fetch starts from may move between its
\* two reads.
MessageSealed ==
  \A s \in Streams, i \in 1..MaxMessages :
    messageCount(s) >= i ~> \/ InBlock(s, i) \/ processedCount[s] >= i
                            \/ ow.pc = "dead" \/ blockCounter = MaxBlocks

-----------------------------------------------------------------------------
(* What the documentation says and the code does not do.                   *)

\* README.md:30, "atomic commits for new blocks": between blocks, the stored
\* head root is the post root of the last block.
HeadMatchesLastBlock ==
  ow.pc = "fetch" =>
    headroot = IF ledger = << >> THEN InitialRoot
               ELSE ledger[Len(ledger)].block.post_state_root

\* README.md:70-75: the failed queue is for blocks whose roots do not match,
\* which are not submitted; a submitted block becomes the proven state.
FailedNotFinalized == \A n \in DOMAIN failed : n \notin OnL1
=============================================================================
