# Verification of tiny-sp1-rollup

TLA+ models of the rollup, model-checked with TLC on small instances and proved
about with TLAPS for every value of the constants. Paths below are relative to
the repository.

## The system

| Component | State | Operations | Talks to |
|---|---|---|---|
| `contracts/src/RollupBridge.sol` | `stateRoot`, two append-only arrays (deposits, forced transactions) with processed counts, `nullifiers` | `deposit`, `forceTransaction`, `updateState`, `withdraw`, views | called by users and by the sequencer |
| `crates/stf` | none (pure) | `apply_deposit`, `apply_transaction`, `apply_forced_tx`; Merkle paths; batch commitments; `execute_transition` | used by the guest, the executor and the generator |
| `crates/program` (zkVM guest) | none | runs `execute_transition`, commits the public values | run by the prover worker |
| `crates/core`, `BlockExecutor` | `account_cache`, on top of the state tree | apply a deposit, a forced or an API transaction; `commit_block` | driven by `apply_optimistic_batch` |
| `crates/core`, `generate_proofs_for_block` | none | Merkle proofs for a stored block, one operation after the other | driven by the prover worker |
| `crates/sequencer`, HTTP API | `mempool` | `handle_submit_tx` | optimistic worker |
| `crates/sequencer`, optimistic worker | its batch; `heads.optimistic`, the block counter, the tree's head root | fetch, snapshot, execute, drain, commit | L1 (reads), tree, queue database |
| `crates/sequencer`, prover worker | the block in hand, retries; `heads.proven` | peek, generate, prove, submit, remove or give up | queue database, tree, L1 (`updateState`) |
| `crates/sequencer/src/persistence.rs` | pending and failed queues, block counter (RocksDB) | commit, peek, remove, push to failed | outlives the process |

What is hard in it: the two workers and the request handlers interleave at
every await and lock; the process may die between two writes to two different
databases; L1 transactions are mined late, their answers get lost, and the
prover resends; the state a block is made from (processed counts, mempool,
head root) is read before the block exists and used after; u64 and u32 limits;
and a leaf of the tree does not hold the account it stands for.

What makes it correct:

- bridge: the batches L1 accepts carry every L1 message exactly once and in
  order; a withdrawal is paid once;
- queue: a committed block is never overwritten or lost;
- L1 submission: what the sequencer takes for proven is on L1; L1 accepts the
  sequencer's blocks in order, and all batches as one chain of roots;
- mempool: no acknowledged transaction is put in two blocks, reordered or lost;
- executor: no value is created, balances fit a u64, no nonce is used twice;
- proofs: executor, generator and guest compute the same root from one block;
  every operation has its own proof;
- progress: transactions and L1 messages reach blocks, blocks leave the queue.

## Modules

```
L1Inbox  <--refines--  RollupBridge ---+
                                       +--EXTENDS--  Sequencer  --refines-->  BlockLog
                       BlockQueueStore-+
Stf  <--INSTANCE--  BlockExecutor  <--EXTENDS--  ProofPipeline
```

**L1Inbox** is what the bridge promises: two streams that only grow, and
batches that consume them in order and without gaps.

**RollupBridge** is the contract together with the public values the guest
commits for it. The contract has the same code twice, for deposits and for
forced transactions: here they are the two elements of `Streams`. A hash is a
record of its preimage, so it has no collisions. `decodeCommitment` and
`truncate` are read as splitting a commitment into its first 28 bytes and its
last 4 (the mask literals in the contract have 72 hexadecimal digits; that
reading is what `build_commitment` on the Rust side needs). The count is the
length modulo `CountModulus` (2^32 in the code). A timestamp is one more field
of a message and is left out. `carried` is about commitments: a batch carries
the messages its hash was made from, of a deposit the recipient's last 20
bytes and the amount (`stf/src/lib.rs:238-246`), of a forced transaction its calldata and
timestamp (`stf/src/lib.rs:266-275`). That the messages are also executed on L2
is the guest's business, and `ProofPipeline`'s. `updateState` may be called by anyone, with any
batch a proof exists for. A Merkle path is membership in `ClaimsIn[root]`.
A `withdraw` is one step, since the nullifier is set before the transfer and a
failing transfer undoes the call; the contract's ether balance is not kept.
`carried` and `paid` are history.

**BlockQueueStore** is the queue database. A column family is a function from
block numbers, so the big-endian keys' order is the order of numbers. A write is
atomic or fails without effect; the caller decides which writes may fail.

**Sequencer** is the process. Each action is the code between two points where
another task, L1 or a crash can be seen. For the optimistic worker
(`optimistic_worker_loop`): `fetch_processed` and `fetch_messages` (the two
concurrent fetches, each of which reads first the processed count and later the
messages; the arrays only grow, so the count and the messages are one read),
`snapshot_mempool`, `apply_batch` (under the tree's mutex: execute, store the
head root, take a number), `drain_mempool`, `commit_block`. For the prover
worker: `peek_block`, `generate_proofs`, `prove`, `submit_proof`,
`get_receipt`, `confirm_block`, `fail_block`, `remove_block`. Each has its
failure. A failure of the prover's attempt counts as one retry; any other error
ends the worker for good, as in `main`. `l1Sent` holds the transactions that
were sent and not mined; they survive a restart. `restart` loses everything in
memory and reads the head root and the counter back. On L1, `mine_accepts` and
`mine_reverts` mine the sequencer's transactions in the order they were sent,
`user_call` is a call of a user, and `outside_update` is an `updateState` by
anybody else: the function has no access control (`RollupBridge.sol:53`), so a
batch from any root to any root with any messages may be accepted between two
blocks of the sequencer, if a proof for it exists. `finalized` lists the
accepted batches with their roots and the block number, or `Outsider`. What a batch does to the
tree is any root, an error, or a panic that poisons the mutex; likewise proof
generation and the zkVM. Transaction *i* is the *i*-th the API acknowledged.
`ledger`, `sealed`, `orphan`, `confirmed` and `finalized` are history.

**BlockLog** is what the queue promises: blocks numbered without gaps, handled
strictly in order, and removed only once confirmed or given up. `Sequencer`
implements it under `next <- storedCounter, queued <- DOMAIN pending,
failed <- DOMAIN failed`; restarts, failed writes and everything on L1 are
stuttering steps.

**Stf** is the account rules, with the order of the checks kept; u64 is
`0..U64Max`, a checked addition is refused beyond it. The nonce is a natural
number: 2^64 transactions of one account are out of reach.

**BlockExecutor** is `core/src/executor.rs` as `apply_optimistic_batch` drives
it. The tree is the map of the leaves under the current root. A leaf is the
hash of an account, written as the account; reading one through `get_account`
fails because 32 bytes do not decode as a 48-byte `Account`. `tree_fails` is an
error or panic of the tree library. How the library treats an insert at the
all-zero root is not visible in the repository: both outcomes are allowed.

**ProofPipeline** composes the executor with what happens to its block
afterwards: `generate_proofs_for_block` (`gen_deposit`, `gen_forced`, `gen_tx`,
`gen_finish`, one step per operation), `execute_transition` in the guest
(`guest_step`, `guest_finish`) and the host's comparison of roots
(`check_root`). `block.ops`, the positions and the proof vectors are functions
of the kind of operation, so the three loops of each walker are one definition.
`retry` and `next_block` are the prover worker's loop; the count of attempts is
left to `Sequencer`. Hashes are records of their preimage. Three facts
about the tree library, which is not in the repository, are assumed: a root of
the state tree is neither the hash of an account nor a `hash_nodes` path (the
library hashes its own node encoding); a key that is not in the tree has no
path; reading at a root the tree never stored panics or fails, as the comment at
`core/src/lib.rs:34` says. Any read of the tree may also fail by itself. A
block is proved as soon as it is sealed: stored roots never change, so blocks
made in the meantime are invisible to the generator and the guest.

**MC\*** modules give the constants; **\*Proofs** modules hold the theorems.
A definition whose name has a suffix such as `Drained_OffByOne` is a mutant: a
plausible bug, used to see that a property can fail.

## Runs

| Run | Question | Bounds |
|---|---|---|
| `bridge` | messages carried exactly once, single payment, refinement of `L1Inbox` | 2 users, 2 roots, 3 messages a stream, batches up to 4 with the count modulo 3, so that lengths 3 and 4 wrap |
| `sequencer_l1` | the whole process against L1 | 2 blocks, 2 API transactions, no L1 messages, 2 attempts a block, 1 restart, 1 batch of somebody else, 2 roots |
| `sequencer_local` | API and optimistic worker, L1 off; refinement of `BlockLog`; `TxSealed` | 3 transactions, 3 blocks, 2 restarts |
| `sequencer_l1_live` | L1 messages: `CarriedOnce`, `MessageSealed`, `PendingDrains` | 2 blocks, 1 deposit, possibly beyond u64, no forced and no API transaction, 2 attempts a block, no restart, 1 batch of somebody else, 2 roots |
| `executor` | value, nonces, u64 | 2 users and the default key, u64 up to 3, 4 operations a block, 2 committed blocks and a third in progress |
| `proof_pipeline` | alignment of proofs, agreement of the three roots | 2 users and the default key, u64 up to 3, amounts 0 and 1, no fee, nonces 0 and 1, 2 operations a block, 2 blocks |

Why these are enough: two blocks with two attempts each give every order of
resending, late mining and moving on, and one foreign batch falls before,
between and after them; one deposit is enough for two blocks to carry the same
message, since the second is made before L1 has processed the first; the
sequencer has one and the same code for both streams but for the conversion of
a deposit's amount, and `bridge` has messages in both; one restart covers every point of both
workers; three transactions and blocks let a request fall before, between and
after a snapshot and its drain more than once; 2 roots tell a block that
changes the state from one that does not. In the pipeline two operations of any
kinds give every pair of adjacent loops, and the second block is read from a
tree that is not empty. The theorems below remove the bounds
for the properties they cover.

Deadlock is not checked in the sequencer, executor and pipeline runs: a system whose
bounds are used up, or both of whose workers died, really stops.

Runs that are expected to fail state what the documentation or the tests say,
and TLC shows an execution of the code that contradicts it:

- `doc_atomic_commit` (README.md:30, "atomic commits for new blocks"): the head
  root is stored first and in another database; a death in between orphans it.
- `doc_failed_queue` (README.md:70-75, where only a block whose roots do not
  match goes to the failed queue and a submitted one becomes the proven state):
  a block is submitted and the answer to the sending is lost; the next attempt
  fails in proof generation, the block is moved to the failed queue, and L1
  accepts the transaction of the first attempt after that.
- `doc_self_transfer` (stf/src/tests.rs:60-61): a transfer to oneself is
  credited and not debited, and keeps its nonce. The test keeps the two
  accounts apart; the executor does not.
- `doc_recipient` (stf/src/tests.rs:62): a recipient that is only in the tree is
  treated as new, and its balance of earlier blocks is overwritten. This
  assumes the tree accepts the first block at the empty root.
- `doc_assertion` (core/src/lib.rs:174-177): for a forced transaction of an
  unknown sender the generator's root is not the executor's, and the assertion
  panics with the tree locked. The block is never proved, and L1 never counts
  the message as handled, against README.md:10-12; `ProvedBlocksInert` below is
  the general form.
- `doc_bundle` (core/src/lib.rs:139, "skipping tx and pushing dummy proofs"):
  the guest does not skip an API transaction of an unknown sender, it refuses
  its dummy proof.

`NoValueCreated` and `NoncesInOrder` hold between different accounts; with
self-transfers both fail for the reason `doc_self_transfer` shows. `Chained` is
conditional on no head root having been orphaned, which `doc_atomic_commit`
shows to happen. `ProvedBlocksInert` is a safety property with a consequence
for progress: no leaf of the tree can be read back as an account, so a block
gets proved only if it has no deposit, no decodable forced transaction and no
API transaction, and the state root on L1 stays where it is. Every other block
uses up its retries and ends in the failed queue, as `PendingDrains` allows;
the repository's README (8-12, 70-78) promises the opposite of every block.
`FinalizedChain` does not say that the sequencer's blocks alone lead to
`stateRoot`: since anybody may call `updateState`, batches of others are links
of the chain, and after one the blocks queued start from a root the contract has
left behind; they are refused, as `PendingDrains` allows, and never accepted out
of place. `ConfirmedIsFinalized` does not say that a block is confirmed
when L1 accepted it: `doc_failed_queue` is the other direction.

Two things the models show in passing: messages are fetched from L1's processed
count, which moves only when a proof is accepted, so blocks made until then
carry the same messages again (`CarriedOnce` is what keeps L1 right); and a
restart sets `heads.proven` to the optimistic head, a field nothing reads.

## Fairness

`FairSpec` has weak fairness of each worker's steps, failures included, and of
L1 mining what it was sent. The tokio runtime schedules both tasks, every await
of the optimistic worker is bounded by a backoff with a time limit or a sleep,
and the prover's attempts end. Nothing is assumed about users, about deaths, or
about success. `get_receipt` has no timeout in the code, so `receipt_fails` may
happen and is never required to; an awaited transaction is answered because L1
mines it. All three liveness properties exclude a dead worker, because the code
never restarts one, and `TxSealed` also a dead process, which loses its mempool.
`MessageSealed` accepts that somebody else's batch has handled the message, and
excludes that the model's bound on blocks is used up.

## Proofs

All theorems are checked by TLAPS with the SMT, Zenon and LS4 backends.

- `RollupBridgeProofs` (from `BridgeAssumption`): `BridgeTypeCorrect`;
  `MessagesCarriedOnce`, where `BridgeTypeOK /\ CarriedOnce` is inductive: the
  accepted hash's preimage is either empty or the range of the stream after the
  processed prefix, so its length is the committed count although the count was
  cut to u32; `ClaimsPaidOnce`; `BridgeImplementsInbox`, by showing that every
  accepted batch is a `Consume` step under `inbox <- l1Queue, consumed <- carried`.
- `SequencerProofs` (from `BridgeAssumption`, `SequencerAssumption`):
  `TypeCorrect`, with the retry limit met exactly, then `BlockNumbersFresh` and `NoBlockLost` from
  `QueueInv = StoreInv /\ CounterInv /\ InHandInv`. `NoBlockVanishes` is not
  inductive: it needs that the prover's block in hand is the queued one
  (`InHandInv`), that it is removed only once kept elsewhere, and that the
  number a block is committed under is the stored counter (`CounterInv`), which
  a restart re-establishes by reading it back.
  `SequencerImplementsBlockLog` adds `FirstInv`, that the block in hand is
  the oldest one queued: a commit appends behind it, and only the prover
  removes.
- `ProofPipelineProofs` (from `ExecutorAssumption`), on top of the types
  (`PipelineTypeOK`, a lemma): `BundleIsAligned`, for which a proof vector must have the length of what was
  replayed (`VectorsOK`); `OnlyInertBundled`, `OnlyInertProved` and
  `CommittedRootMatches` from `RootInv`. Its argument: no leaf decodes, so every
  proof the generator pushes is of a new account without siblings; hence its
  root is the pre root, with nothing replayed but operations that were passed
  over, or the hash of an account, which is no root of the state tree and fails
  the assertion. The guest starts at the pre root, where no such proof verifies,
  so it either passes over operations or fails, and never leaves that root.
- `BlockExecutorProofs` (from `ExecutorAssumption`): `SuccessConserves` and
  `FailureCharges` on the account rules; `ExecutorTypeCorrect`;
  `NoReplayInBlock`, with `ExecutorTypeOK` as the strengthening, for users who
  do not send to themselves.

- `SubmissionProofs` (from `BridgeAssumption`, `SequencerAssumption`) is about
  what reaches L1: `ConfirmedOnL1`, `AcceptedInOrder` and `AcceptedChain`. None
  of the three invariants is inductive alone, because each is broken by a
  transaction that is still in flight; `L1Inv` therefore says what is known of
  those. A transaction carries the roots of the committed block of its number
  (`SentBlocks`); transactions are in flight in the order of their numbers,
  after every block accepted and not after anything queued (`SentOrder`); the one
  the prover waits for is the last in flight, and once it is mined with success
  its block is accepted (`ReceiptInv`). `SentOrder` rests on `FirstInv`: the
  prover only ever sends the oldest block queued, and a block leaves the queue
  only from the front, so a transaction of an earlier attempt or an earlier
  process is never of a later block. That the contract compares `preStateRoot`
  with `stateRoot` makes the accepted batches a chain even when a block is
  accepted twice, the blocks after a failed one are refused, or somebody else's
  batch comes in between; `outside_update` disturbs none of the rest, because
  `SentOrder` and `ReceiptInv` are about the sequencer's own entries (`OnL1`).
  `NoBlockUnaccounted` combines `L1Inv` and `QueueInv`: with L1 enabled, every
  committed block is queued, failed, or on L1. `SequencerCarriesOnce` and
  `SequencerImplementsInbox` carry the contract's two results to the composed
  system, where every step leaves the contract alone, is a user's call, or is an
  `updateState` by a transaction in flight or by somebody else.
- `OptimisticProofs` (from the same assumptions): `LedgerChain` from `RootInv`,
  whose part `HeadInv` follows the last block's root through the worker: the
  stored head root runs ahead of the ledger from `apply_batch` to
  `commit_block` and the optimistic head from `drain_mempool` on, so a death or
  a failed write in between is what sets `orphan`, and at every other point the
  chain is intact. `TransactionsInOrder` and `NoTransactionLost` from `LogInv`:
  the batch is still the front of the mempool until it is drained (`BatchInv`,
  which is why requests arriving meanwhile do no harm), and no transaction in
  the log is beyond the last one acknowledged.
- `ValueProofs` (from `ExecutorAssumption`): `ValueConserved`, for users who do
  not send to themselves; `SenderPays` (run `doc_self_transfer`) shows what
  happens when they do. Lemmas on sums over finite sets come first: a
  sum exists, is a natural number, and changes by what its changed elements
  change. They are proved by a least counterexample in the cardinality, since an
  induction rule with an operator parameter is not available. The addresses are
  assumed to be a finite set, because an address is 32 bytes.

Every invariant, action property and refinement that a passing run checks is
also proved. Only model-checked: the liveness properties `PendingDrains`,
`TxSealed` and `MessageSealed` (fairness is outside the prover's reach).

## Not modelled

- The inside of the tree library and of the zkVM: a tree is the map of its
  leaves, and a proof exists exactly if the guest ran to its end.
- `Sequencer` and `ProofPipeline` are not composed: in `Sequencer` proof
  generation and the guest succeed or fail freely, which covers what
  `ProofPipeline` shows of them.
- Reorganisations of L1: the code takes the first receipt as final and has
  nothing that handles a later change.
- Signatures: the API does not check any.
- Configuration (only `l1.enabled` decides control flow, as `L1Enabled`), the
  command line tools (`script/src/bin/main.rs` runs the same generator and guest
  on a block from a file and changes no state of the rollup), `Fibonacci.sol`,
  build scripts.

## Plan

1. Bridge, queue store, sequencer, executor: modelled and checked, first
   theorems proved.
2. `ProofPipeline`, the generator and the guest against the executor's root:
   modelled, checked and proved.
3. `BlockLog`, the abstract specification of the queue: checked and proved to be
   implemented by `Sequencer`.
4. Chain of blocks, order of transactions, submission to L1, conservation of
   value: proved for every value of the constants.
5. Left: what can be said beyond the runs' properties, such as a closer account
   of the blocks after a failed one.
