---------------------------- MODULE BlockExecutor ----------------------------
(***************************************************************************)
(* core/src/executor.rs, driven block after block the way                  *)
(* apply_optimistic_batch (sequencer/src/main.rs) drives it: deposits,     *)
(* then forced transactions, then API transactions, then commit_block.     *)
(*                                                                         *)
(* The state tree is the map from the keys of its current root to their    *)
(* leaves.  A leaf is the hash of an account; the hash is symbolic, so it  *)
(* is written as the account it was computed from.                         *)
(***************************************************************************)
EXTENDS Integers, Sequences, FiniteSetsExt

CONSTANTS
  U64Max,          \* the largest u64
  Addresses,       \* account ids, Hash::default() included
  DefaultHash,     \* Hash::default(), the sender of a dummy forced tx
  DepositAmounts, TxAmounts, Fees, Nonces,   \* what users may ask for
  SelfTransfers,   \* whether users send to themselves
  MaxOps,          \* bound: operations in a block
  MaxCommits       \* bound: blocks

stf == INSTANCE Stf

ASSUME ExecutorAssumption ==
  /\ U64Max \in Nat
  /\ IsFiniteSet(Addresses)   \* a Hash is 32 bytes
  /\ DefaultHash \in Addresses
  /\ DepositAmounts \cup TxAmounts \cup Fees \subseteq stf!U64
  /\ Nonces \subseteq Nat
  /\ SelfTransfers \in BOOLEAN
  /\ MaxOps \in Nat /\ MaxCommits \in Nat

VARIABLES
  leaves,          \* the tree under the current root: address -> leaf
  account_cache,   \* BlockExecutor.account_cache
  phase,           \* where apply_optimistic_batch is
  ops,             \* operations of the block so far
  commits,         \* blocks committed
  deposited,       \* history: sum of the deposits credited
  executed         \* history: nonces executed in this block, by sender

executorVars ==
  <<leaves, account_cache, phase, ops, commits, deposited, executed>>

\* A deposit is made by an L1 account, which is never the zero address.
Deposits == [to : Addresses \ {DefaultHash}, amount : DepositAmounts]
Transactions ==
  {tx \in [from : Addresses, to : Addresses, nonce : Nonces,
           amount : TxAmounts, fee : Fees] :
     SelfTransfers \/ tx.from # tx.to}

-----------------------------------------------------------------------------
(* Reading accounts.                                                       *)

LeafBytes == 32      \* a leaf is a Hash
AccountBytes == 48   \* what bincode reads for an Account

NotFound == [tag |-> "AccountNotFound"]
Corrupted == [tag |-> "AccountDataCorrupted"]
Ok(account) == [tag |-> "Ok", account |-> account]

\* What get_account reads in a tree: bincode runs out of input on a leaf.
AccountIn(tree, address) ==
  IF address \notin DOMAIN tree THEN NotFound
  ELSE IF LeafBytes < AccountBytes THEN Corrupted
  ELSE Ok(tree[address])

get_account(address) == AccountIn(leaves, address)

get_account_helper(address) ==
  IF address \in DOMAIN account_cache
  THEN Ok(account_cache[address])
  ELSE get_account(address)

\* HashMap::insert
Insert(map, key, value) ==
  [k \in DOMAIN map \cup {key} |-> IF k = key THEN value ELSE map[k]]

\* get_account_helper keeps what it read.
Loaded(map, key, read) ==
  IF read.tag = "Ok" THEN Insert(map, key, read.account) ELSE map

\* unwrap_or_else(|_| Account::new(..)): any error means a new account.
OrNew(read) == IF read.tag = "Ok" THEN read.account ELSE stf!NewAccount

-----------------------------------------------------------------------------
(* The operations.                                                         *)

Phases == <<"deposits", "forced", "txs">>

\* The next operation of a block, in the order of apply_optimistic_batch.
Operation(p) ==
  /\ \E i, j \in DOMAIN Phases : i <= j /\ phase = Phases[i] /\ p = Phases[j]
  /\ ops < MaxOps
  /\ ops' = ops + 1

\* An error ends the block, and with it the optimistic worker.
Abort ==
  /\ phase' = "dead"
  /\ UNCHANGED <<leaves, account_cache, commits, deposited, executed>>

apply_deposit(deposit) ==
  LET read == get_account_helper(deposit.to)
      account == OrNew(read)
      loaded == Loaded(account_cache, deposit.to, read)
      fits == stf!DepositFits(account, deposit)
  IN /\ Operation("deposits")
     /\ \/ read = Corrupted /\ Abort
        \/ /\ read # Corrupted
           /\ account_cache' =
                IF fits
                THEN Insert(loaded, deposit.to, stf!apply_deposit(account, deposit))
                ELSE loaded
           /\ deposited' = IF fits THEN deposited + deposit.amount ELSE deposited
           /\ phase' = "deposits"
           /\ UNCHANGED <<leaves, commits, executed>>

\* Sender and recipient may be one account: the recipient's copy wins.
update_cache_success(map, tx, result) ==
  IF tx.from = tx.to
  THEN Insert(map, tx.from, result.to)
  ELSE Insert(Insert(map, tx.from, result.from), tx.to, result.to)

\* Every error of the rules is logged and the transaction dropped: what is in
\* the cache stays.
handle_stf_error(map) == map

\* The body apply_forced_tx and apply_transaction have in common: run the
\* rules, update the cache.
Execute(tx, p) ==
  LET readFrom == get_account_helper(tx.from)
      readTo == get_account_helper(tx.to)
      loaded == Loaded(Loaded(account_cache, tx.from, readFrom), tx.to, readTo)
      result == IF p = "forced"
                THEN stf!apply_forced_tx(readFrom.account, OrNew(readTo), tx)
                ELSE stf!apply_transaction(readFrom.account, OrNew(readTo), tx)
  IN /\ Operation(p)
     /\ \/ readFrom = Corrupted /\ Abort
        \/ /\ readFrom = NotFound   \* skipped
           /\ phase' = p
           /\ UNCHANGED <<leaves, account_cache, commits, deposited, executed>>
        \/ /\ readFrom.tag = "Ok"
           /\ account_cache' =
                CASE result.kind = "Success" ->
                       update_cache_success(loaded, tx, result)
                  [] result.kind = "Failure" ->
                       Insert(loaded, tx.from, result.from)
                  [] OTHER -> handle_stf_error(loaded)
           /\ executed' =
                IF result.kind \in {"Success", "Failure"}
                THEN [executed EXCEPT ![tx.from] = Append(@, tx.nonce)]
                ELSE executed
           /\ phase' = p
           /\ UNCHANGED <<leaves, commits, deposited>>

\* A dummy stands for calldata that could not be decoded.
apply_forced_tx(tx) ==
  \/ /\ tx.from = DefaultHash
     /\ Operation("forced")
     /\ phase' = "forced"
     /\ UNCHANGED <<leaves, account_cache, commits, deposited, executed>>
  \/ /\ tx.from # DefaultHash
     /\ Execute(tx, "forced")

apply_transaction(tx) == Execute(tx, "txs")

\* Tree::inserts
Inserts(tree, map) ==
  [a \in DOMAIN tree \cup DOMAIN map |->
     IF a \in DOMAIN map THEN map[a] ELSE tree[a]]

\* commit_block: every cached account's leaf is inserted; an executor for the
\* next block starts with an empty cache.
commit_block ==
  /\ phase # "dead" /\ ops > 0 /\ commits < MaxCommits
  /\ leaves' = Inserts(leaves, account_cache)
  /\ account_cache' = [a \in {} |-> stf!NewAccount]
  /\ phase' = "deposits"
  /\ ops' = 0
  /\ commits' = commits + 1
  /\ executed' = [a \in Addresses |-> << >>]
  /\ UNCHANGED deposited

\* The tree's database fails or panics: on a read, which get_account does not
\* attempt at the empty root, or on inserts, which needs something to insert.
tree_fails ==
  /\ phase # "dead"
  /\ DOMAIN leaves # {} \/ DOMAIN account_cache # {}
  /\ Abort
  /\ UNCHANGED ops

ExecutorInit ==
  /\ leaves = [a \in {} |-> stf!NewAccount]
  /\ account_cache = [a \in {} |-> stf!NewAccount]
  /\ phase = "deposits"
  /\ ops = 0
  /\ commits = 0
  /\ deposited = 0
  /\ executed = [a \in Addresses |-> << >>]

ExecutorNext ==
  \/ \E d \in Deposits : apply_deposit(d)
  \/ \E tx \in Transactions : apply_forced_tx(tx) \/ apply_transaction(tx)
  \/ commit_block
  \/ tree_fails

ExecutorSpec == ExecutorInit /\ [][ExecutorNext]_executorVars

-----------------------------------------------------------------------------
(* Properties.                                                             *)

\* Cached and committed balances fit a u64: the checked additions of the stf
\* are the only ones that could carry them beyond it.
ExecutorTypeOK ==
  /\ DOMAIN leaves \subseteq Addresses
  /\ leaves \in [DOMAIN leaves -> stf!Accounts]
  /\ DOMAIN account_cache \subseteq Addresses
  /\ account_cache \in [DOMAIN account_cache -> stf!Accounts]
  /\ phase \in {"deposits", "forced", "txs", "dead"}
  /\ ops \in 0..MaxOps
  /\ commits \in 0..MaxCommits
  /\ deposited \in Nat
  /\ executed \in [Addresses -> Seq(Nat)]

\* What the block leaves an account with, if it is committed.
Balance(a) ==
  IF a \in DOMAIN account_cache THEN account_cache[a].balance
  ELSE IF a \in DOMAIN leaves THEN leaves[a].balance
  ELSE 0

\* No sequence of deposits, forced and API transactions over any blocks
\* creates value: the balances never sum to more than was deposited.  Senders
\* and recipients are different accounts here.
NoValueCreated == MapThenSumSet(Balance, Addresses) <= deposited

\* Within a block a sender's transactions are executed with nonces 0, 1, 2...,
\* and the cached account expects the next one: no transaction, failed ones
\* included, is executed twice, whatever deposits and transfers to the sender
\* come between.
NoncesInOrder ==
  \A a \in Addresses :
    /\ \A i \in DOMAIN executed[a] : executed[a][i] = i - 1
    /\ executed[a] # << >> => a \in DOMAIN account_cache
    /\ a \in DOMAIN account_cache => account_cache[a].nonce = Len(executed[a])

-----------------------------------------------------------------------------
(* What the tests say of a transaction and the executor does not do.       *)

\* stf/src/tests.rs:60: a successful transaction takes the amount and the fee
\* from the sender, and :61 advances its nonce.
SenderPays ==
  [][\A tx \in Transactions :
       LET a == tx.from
       IN (apply_transaction(tx) /\ executed'[a] # executed[a]) =>
            /\ account_cache'[a].nonce = account_cache[a].nonce + 1
            /\ account_cache'[a].balance <= account_cache[a].balance]_executorVars

\* stf/src/tests.rs:62: a successful transaction leaves the recipient with its
\* balance and the amount.
RecipientCredited ==
  [][\A tx \in Transactions :
       LET a == tx.to
       IN (/\ apply_transaction(tx) /\ executed' # executed
           /\ a \in DOMAIN account_cache'
           /\ tx.from # a) =>
            Balance(a)' >= Balance(a)]_executorVars
=============================================================================
