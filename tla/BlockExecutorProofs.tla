-------------------------- MODULE BlockExecutorProofs --------------------------
(***************************************************************************)
(* The account rules and the executor for every width of the balances and  *)
(* any accounts, amounts, fees and blocks.                                 *)
(***************************************************************************)
EXTENDS BlockExecutor, TLAPS

USE ExecutorAssumption

-----------------------------------------------------------------------------
(* The account rules.                                                      *)

TxFields == [from : Addresses, to : Addresses, nonce : Nat,
             amount : stf!U64, fee : stf!U64]

\* What users may send has the fields of stf::Transaction.
LEMMA TransactionTyped == Transactions \subseteq TxFields
BY DEF Transactions, TxFields

\* A transaction that is executed moves the amount to the recipient, burns the
\* fee, and advances the nonce; no balance leaves the range of u64.
THEOREM SuccessConserves ==
  ASSUME NEW from \in stf!Accounts, NEW to \in stf!Accounts, NEW tx \in TxFields,
         stf!apply_transaction(from, to, tx).kind = "Success"
  PROVE  LET r == stf!apply_transaction(from, to, tx)
         IN  /\ r.from \in stf!Accounts /\ r.to \in stf!Accounts
             /\ r.from.balance + r.to.balance + tx.fee = from.balance + to.balance
             /\ r.from.nonce = tx.nonce + 1 /\ from.nonce = tx.nonce
             /\ r.to.nonce = to.nonce
<1>1. /\ from.nonce = tx.nonce
      /\ from.balance >= tx.amount + tx.fee
      /\ to.balance + tx.amount <= U64Max
      /\ stf!apply_transaction(from, to, tx)
           = stf!Success(stf!Debited(from, tx), stf!Credited(to, tx))
  BY DEF stf!apply_transaction, stf!Err, stf!Failure, stf!Success, stf!Fits,
         stf!total_debit, stf!Accounts, stf!U64, TxFields
<1>2. /\ stf!Debited(from, tx) \in stf!Accounts
      /\ stf!Credited(to, tx) \in stf!Accounts
      /\ stf!Debited(from, tx).balance = from.balance - (tx.amount + tx.fee)
      /\ stf!Credited(to, tx).balance = to.balance + tx.amount
      /\ stf!Debited(from, tx).nonce = from.nonce + 1
      /\ stf!Credited(to, tx).nonce = to.nonce
  BY <1>1 DEF stf!Debited, stf!Credited, stf!total_debit, stf!Accounts, stf!U64,
              TxFields
<1>3. /\ from.balance \in Nat /\ to.balance \in Nat
      /\ tx.amount \in Nat /\ tx.fee \in Nat
  BY DEF stf!Accounts, stf!U64, TxFields
<1> HIDE DEF TxFields
<1> QED BY <1>1, <1>2, <1>3 DEF stf!Success

\* A transaction its sender cannot pay for costs the sender at most the fee,
\* uses up the nonce, and touches no other account.
THEOREM FailureCharges ==
  ASSUME NEW from \in stf!Accounts, NEW to \in stf!Accounts, NEW tx \in TxFields,
         stf!apply_transaction(from, to, tx).kind = "Failure"
  PROVE  LET r == stf!apply_transaction(from, to, tx)
         IN  /\ r.from \in stf!Accounts
             /\ r.from.balance <= from.balance
             /\ from.balance - r.from.balance <= tx.fee
             /\ r.from.nonce = tx.nonce + 1 /\ from.nonce = tx.nonce
<1>1. /\ from.nonce = tx.nonce
      /\ stf!apply_transaction(from, to, tx) = stf!Failure(stf!Charged(from, tx))
  BY DEF stf!apply_transaction, stf!Err, stf!Failure, stf!Success
<1>2. /\ stf!Charged(from, tx) \in stf!Accounts
      /\ stf!Charged(from, tx).balance <= from.balance
      /\ from.balance - stf!Charged(from, tx).balance <= tx.fee
      /\ stf!Charged(from, tx).nonce = from.nonce + 1
  BY DEF stf!Charged, stf!SaturatingSub, stf!Accounts, stf!U64, TxFields
<1> QED BY <1>1, <1>2 DEF stf!Failure

-----------------------------------------------------------------------------
(* The cache.                                                              *)

IsAccountMap(map) ==
  /\ DOMAIN map \subseteq Addresses
  /\ map \in [DOMAIN map -> stf!Accounts]

\* Account::new makes an account.
LEMMA NewAccountType == stf!NewAccount \in stf!Accounts
BY DEF stf!NewAccount, stf!Accounts, stf!U64

\* A leaf can never be decoded, so an account is read from the cache or not
\* at all, and reading leaves the cache as it is.
LEMMA ReadAccount ==
  ASSUME IsAccountMap(account_cache), NEW a \in Addresses
  PROVE  /\ get_account_helper(a).tag = "Ok" <=> a \in DOMAIN account_cache
         /\ a \in DOMAIN account_cache =>
              get_account_helper(a) = Ok(account_cache[a])
         /\ Loaded(account_cache, a, get_account_helper(a)) = account_cache
         /\ OrNew(get_account_helper(a)) =
              IF a \in DOMAIN account_cache THEN account_cache[a]
              ELSE stf!NewAccount
         /\ OrNew(get_account_helper(a)) \in stf!Accounts
<1>1. CASE a \in DOMAIN account_cache
  <2>1. get_account_helper(a) = Ok(account_cache[a])
    BY <1>1 DEF get_account_helper
  <2>2. Insert(account_cache, a, account_cache[a]) = account_cache
    BY <1>1 DEF Insert, IsAccountMap
  <2>3. Ok(account_cache[a]).tag = "Ok" /\ Ok(account_cache[a]).account = account_cache[a]
    BY DEF Ok
  <2>4. account_cache[a] \in stf!Accounts
    BY <1>1 DEF IsAccountMap
  <2> QED BY <1>1, <2>1, <2>2, <2>3, <2>4 DEF Loaded, OrNew
<1>2. CASE a \notin DOMAIN account_cache
  <2>1. get_account_helper(a) = NotFound \/ get_account_helper(a) = Corrupted
    BY <1>2 DEF get_account_helper, get_account, AccountIn, LeafBytes, AccountBytes
  <2>2. get_account_helper(a).tag # "Ok"
    BY <2>1 DEF NotFound, Corrupted
  <2> QED BY <1>2, <2>2, NewAccountType DEF Loaded, OrNew
<1> QED BY <1>1, <1>2

\* A deposit that does not end the block changes at most the recipient's
\* balance.
LEMMA DepositEffect ==
  ASSUME IsAccountMap(account_cache), NEW d \in Deposits, apply_deposit(d),
         phase' # "dead"
  PROVE  /\ \/ account_cache' = account_cache
            \/ \E acc \in stf!Accounts :
                 /\ acc.nonce = OrNew(get_account_helper(d.to)).nonce
                 /\ account_cache' = Insert(account_cache, d.to, acc)
         /\ deposited' \in {deposited, deposited + d.amount}
         /\ UNCHANGED <<leaves, commits, executed>>
         /\ phase' = "deposits"
<1> DEFINE old == OrNew(get_account_helper(d.to))
           new == stf!apply_deposit(old, d)
<1>1. d.to \in Addresses /\ d.amount \in stf!U64
  BY DEF Deposits
<1>2. /\ account_cache' = IF stf!DepositFits(old, d)
                          THEN Insert(account_cache, d.to, new)
                          ELSE account_cache
      /\ deposited' \in {deposited, deposited + d.amount}
      /\ UNCHANGED <<leaves, commits, executed>>
      /\ phase' = "deposits"
  BY <1>1, ReadAccount DEF apply_deposit, Abort
<1>3. old \in stf!Accounts
  BY <1>1, ReadAccount
<1>4. stf!DepositFits(old, d) => new \in stf!Accounts /\ new.nonce = old.nonce
  <2> HIDE DEF old
  <2> QED BY <1>1, <1>3 DEF stf!DepositFits, stf!Fits, stf!apply_deposit,
                            stf!Accounts, stf!U64
<1> QED BY <1>2, <1>4

\* A transaction that does not end the block is dropped, or executed with the
\* nonce its sender's cached account expects.
LEMMA ExecuteEffect ==
  ASSUME IsAccountMap(account_cache), NEW tx \in Transactions,
         NEW p, Execute(tx, p), phase' # "dead"
  PROVE  /\ \/ UNCHANGED <<account_cache, executed>>
            \/ /\ tx.from \in DOMAIN account_cache
               /\ account_cache[tx.from].nonce = tx.nonce
               /\ executed' = [executed EXCEPT ![tx.from] = Append(@, tx.nonce)]
               /\ \E f, t \in stf!Accounts :
                    /\ f.nonce = tx.nonce + 1
                    /\ t.nonce = OrNew(get_account_helper(tx.to)).nonce
                    /\ \/ account_cache' = Insert(account_cache, tx.from, f)
                       \/ /\ tx.from = tx.to
                          /\ account_cache' = Insert(account_cache, tx.from, t)
                       \/ /\ tx.from # tx.to
                          /\ account_cache' =
                               Insert(Insert(account_cache, tx.from, f), tx.to, t)
         /\ UNCHANGED <<leaves, commits, deposited>>
         /\ phase' = p
<1> DEFINE rf == get_account_helper(tx.from)
           rt == get_account_helper(tx.to)
           r == stf!apply_transaction(rf.account, OrNew(rt), tx)
<1>1. tx \in TxFields /\ tx.from \in Addresses /\ tx.to \in Addresses
  BY TransactionTyped DEF TxFields
<1>2. Loaded(Loaded(account_cache, tx.from, rf), tx.to, rt) = account_cache
  BY <1>1, ReadAccount
<1>3. (IF p = "forced" THEN stf!apply_forced_tx(rf.account, OrNew(rt), tx)
                       ELSE stf!apply_transaction(rf.account, OrNew(rt), tx)) = r
  BY DEF stf!apply_forced_tx
<1>4. UNCHANGED <<leaves, commits, deposited>> /\ phase' = p
  BY DEF Execute, Abort
<1>5. CASE rf.tag # "Ok"
  BY <1>4, <1>5 DEF Execute, Abort
<1>6. CASE rf.tag = "Ok"
  <2>1. /\ tx.from \in DOMAIN account_cache
        /\ rf.account = account_cache[tx.from]
        /\ rf.account \in stf!Accounts /\ OrNew(rt) \in stf!Accounts
    BY <1>1, <1>6, ReadAccount DEF IsAccountMap, Ok
  <2>2. rf # Corrupted /\ rf # NotFound
    BY <1>6 DEF Corrupted, NotFound
  <2>3. /\ account_cache' =
             CASE r.kind = "Success" -> update_cache_success(account_cache, tx, r)
               [] r.kind = "Failure" -> Insert(account_cache, tx.from, r.from)
               [] OTHER -> account_cache
        /\ executed' = IF r.kind \in {"Success", "Failure"}
                       THEN [executed EXCEPT ![tx.from] = Append(@, tx.nonce)]
                       ELSE executed
    <3> HIDE DEF r
    <3> QED BY <1>2, <1>3, <2>2 DEF Execute, handle_stf_error
  <2>4. CASE r.kind = "Success"
    <3>1. /\ r.from \in stf!Accounts /\ r.to \in stf!Accounts
          /\ r.from.nonce = tx.nonce + 1 /\ rf.account.nonce = tx.nonce
          /\ r.to.nonce = OrNew(rt).nonce
      BY <1>1, <2>1, <2>4, SuccessConserves
    <3> HIDE DEF r
    <3>2. account_cache' = update_cache_success(account_cache, tx, r)
          /\ executed' = [executed EXCEPT ![tx.from] = Append(@, tx.nonce)]
      BY <2>3, <2>4
    <3> QED BY <1>4, <2>1, <3>1, <3>2 DEF update_cache_success
  <2>5. CASE r.kind = "Failure"
    <3>1. /\ r.from \in stf!Accounts
          /\ r.from.nonce = tx.nonce + 1 /\ rf.account.nonce = tx.nonce
      BY <1>1, <2>1, <2>5, FailureCharges
    <3> HIDE DEF r
    <3>2. account_cache' = Insert(account_cache, tx.from, r.from)
          /\ executed' = [executed EXCEPT ![tx.from] = Append(@, tx.nonce)]
      BY <2>3, <2>5
    <3> QED BY <1>4, <2>1, <3>1, <3>2
  <2>6. CASE r.kind \notin {"Success", "Failure"}
    <3> HIDE DEF r
    <3> QED BY <1>4, <2>3, <2>6
  <2> QED BY <2>4, <2>5, <2>6
<1> QED BY <1>5, <1>6

-----------------------------------------------------------------------------
(* Invariants.                                                             *)

\* A step of the executor, by its effect.
LEMMA ExecutorSteps ==
  ASSUME ExecutorNext
  PROVE  \/ phase' = "dead" /\ ops' \in {ops, ops + 1} /\ (ops' # ops => ops < MaxOps)
            /\ UNCHANGED <<leaves, account_cache, commits, deposited, executed>>
         \/ /\ ops < MaxOps /\ ops' = ops + 1 /\ phase' # "dead"
            /\ \/ \E d \in Deposits : apply_deposit(d)
               \/ \E tx \in Transactions, p \in {"forced", "txs"} : Execute(tx, p)
               \/ /\ phase' = "forced"
                  /\ UNCHANGED <<leaves, account_cache, commits, deposited, executed>>
         \/ commit_block
<1>1. ASSUME NEW d \in Deposits, apply_deposit(d)
      PROVE  /\ ops < MaxOps /\ ops' = ops + 1
             /\ phase' = "dead" =>
                  UNCHANGED <<leaves, account_cache, commits, deposited, executed>>
  BY <1>1 DEF apply_deposit, Operation, Abort
<1>2. ASSUME NEW tx \in Transactions, NEW p \in {"forced", "txs"}, Execute(tx, p)
      PROVE  /\ ops < MaxOps /\ ops' = ops + 1
             /\ phase' = "dead" =>
                  UNCHANGED <<leaves, account_cache, commits, deposited, executed>>
  BY <1>2 DEF Execute, Operation, Abort
<1>3. ASSUME NEW tx \in Transactions, apply_forced_tx(tx)
      PROVE  \/ Execute(tx, "forced")
             \/ /\ ops < MaxOps /\ ops' = ops + 1 /\ phase' = "forced"
                /\ UNCHANGED <<leaves, account_cache, commits, deposited, executed>>
  BY <1>3 DEF apply_forced_tx, Operation
<1>4. ASSUME NEW tx \in Transactions, apply_transaction(tx)
      PROVE  Execute(tx, "txs")
  BY <1>4 DEF apply_transaction
<1>5. ASSUME tree_fails
      PROVE  /\ phase' = "dead" /\ ops' = ops
             /\ UNCHANGED <<leaves, account_cache, commits, deposited, executed>>
  BY <1>5 DEF tree_fails, Abort
<1>6. "forced" # "dead"
  OBVIOUS
<1>7. CASE \E d \in Deposits : apply_deposit(d)
  BY <1>1, <1>7
<1>8. CASE \E tx \in Transactions : apply_forced_tx(tx)
  BY <1>2, <1>3, <1>6, <1>8
<1>9. CASE \E tx \in Transactions : apply_transaction(tx)
  BY <1>2, <1>4, <1>9
<1> QED BY <1>5, <1>7, <1>8, <1>9 DEF ExecutorNext

\* Every balance the executor computes fits a u64, in every block.
THEOREM ExecutorTypeCorrect == ExecutorSpec => []ExecutorTypeOK
<1>1. ExecutorInit => ExecutorTypeOK
  BY DEF ExecutorInit, ExecutorTypeOK
<1>2. ExecutorTypeOK /\ [ExecutorNext]_executorVars => ExecutorTypeOK'
  <2> SUFFICES ASSUME ExecutorTypeOK, [ExecutorNext]_executorVars
               PROVE  ExecutorTypeOK'
    OBVIOUS
  <2>0. IsAccountMap(account_cache) /\ IsAccountMap(leaves)
    BY DEF ExecutorTypeOK, IsAccountMap
  <2>1. CASE UNCHANGED executorVars
    BY <2>1 DEF executorVars, ExecutorTypeOK
  <2>2. CASE /\ phase' = "dead" /\ ops' \in {ops, ops + 1} /\ (ops' # ops => ops < MaxOps)
             /\ UNCHANGED <<leaves, account_cache, commits, deposited, executed>>
    BY <2>2 DEF ExecutorTypeOK
  <2>3. ASSUME NEW d \in Deposits, apply_deposit(d), ops < MaxOps,
               ops' = ops + 1, phase' # "dead"
        PROVE  ExecutorTypeOK'
    <3>1. d.to \in Addresses /\ d.amount \in Nat
      BY DEF Deposits, stf!U64
    <3>2. IsAccountMap(account_cache')
      <4>1. \/ account_cache' = account_cache
            \/ \E acc \in stf!Accounts : account_cache' = Insert(account_cache, d.to, acc)
        BY <2>0, <2>3, DepositEffect
      <4> QED BY <2>0, <3>1, <4>1 DEF IsAccountMap, Insert
    <3>3. /\ deposited' \in {deposited, deposited + d.amount}
          /\ UNCHANGED <<leaves, commits, executed>> /\ phase' = "deposits"
      BY <2>0, <2>3, DepositEffect
    <3> QED BY <2>3, <3>1, <3>2, <3>3 DEF ExecutorTypeOK, IsAccountMap
  <2>4. ASSUME NEW tx \in Transactions, NEW p \in {"forced", "txs"},
               Execute(tx, p), ops < MaxOps, ops' = ops + 1, phase' # "dead"
        PROVE  ExecutorTypeOK'
    <3>1. tx.from \in Addresses /\ tx.to \in Addresses /\ tx.nonce \in Nat
      BY TransactionTyped DEF TxFields
    <3>2. IsAccountMap(account_cache')
      <4>1. \/ account_cache' = account_cache
            \/ \E f, t \in stf!Accounts :
                 account_cache' \in
                   {Insert(account_cache, tx.from, f), Insert(account_cache, tx.from, t),
                    Insert(Insert(account_cache, tx.from, f), tx.to, t)}
        BY <2>0, <2>4, ExecuteEffect
      <4>2. ASSUME NEW f \in stf!Accounts, NEW t \in stf!Accounts
            PROVE  /\ IsAccountMap(Insert(account_cache, tx.from, f))
                   /\ IsAccountMap(Insert(Insert(account_cache, tx.from, f), tx.to, t))
        BY <2>0, <3>1 DEF IsAccountMap, Insert
      <4> QED BY <2>0, <4>1, <4>2
    <3>3. executed' = executed
          \/ executed' = [executed EXCEPT ![tx.from] = Append(@, tx.nonce)]
      BY <2>0, <2>4, ExecuteEffect
    <3>4. executed' \in [Addresses -> Seq(Nat)]
      <4>1. executed \in [Addresses -> Seq(Nat)]
        BY DEF ExecutorTypeOK
      <4>2. Append(executed[tx.from], tx.nonce) \in Seq(Nat)
        BY <3>1, <4>1
      <4> QED BY <3>1, <3>3, <4>1, <4>2
    <3>5. UNCHANGED <<leaves, commits, deposited>> /\ phase' = p
      BY <2>0, <2>4, ExecuteEffect
    <3> QED BY <2>4, <3>2, <3>4, <3>5 DEF ExecutorTypeOK, IsAccountMap
  <2>5. CASE /\ ops < MaxOps /\ ops' = ops + 1 /\ phase' = "forced"
             /\ UNCHANGED <<leaves, account_cache, commits, deposited, executed>>
    BY <2>5 DEF ExecutorTypeOK
  <2>6. CASE commit_block
    <3>1. IsAccountMap(Inserts(leaves, account_cache))
      BY <2>0 DEF IsAccountMap, Inserts
    <3> QED BY <2>6, <3>1 DEF commit_block, ExecutorTypeOK, IsAccountMap
  <2> QED BY <2>1, <2>2, <2>3, <2>4, <2>5, <2>6, ExecutorSteps
<1> QED BY <1>1, <1>2, PTL DEF ExecutorSpec

\* Unless users send to themselves, a block executes each sender's
\* transactions with the nonces 0, 1, 2... and no nonce twice.
THEOREM NoReplayInBlock ==
  ASSUME SelfTransfers = FALSE
  PROVE  ExecutorSpec => []NoncesInOrder
<1>1. ExecutorInit => NoncesInOrder
  BY DEF ExecutorInit, NoncesInOrder
<1>2. ExecutorTypeOK /\ NoncesInOrder /\ [ExecutorNext]_executorVars
        => NoncesInOrder'
  <2> SUFFICES ASSUME ExecutorTypeOK, NoncesInOrder, [ExecutorNext]_executorVars
               PROVE  NoncesInOrder'
    OBVIOUS
  <2>0. IsAccountMap(account_cache) /\ executed \in [Addresses -> Seq(Nat)]
    BY DEF ExecutorTypeOK, IsAccountMap
  <2>00. \A a \in Addresses : OrNew(get_account_helper(a)).nonce = Len(executed[a])
    <3> SUFFICES ASSUME NEW a \in Addresses
                 PROVE  OrNew(get_account_helper(a)).nonce = Len(executed[a])
      OBVIOUS
    <3>1. CASE a \in DOMAIN account_cache
      BY <2>0, <3>1, ReadAccount DEF NoncesInOrder
    <3>2. CASE a \notin DOMAIN account_cache
      <4>1. executed[a] = << >>
        BY <3>2 DEF NoncesInOrder
      <4>2. OrNew(get_account_helper(a)) = stf!NewAccount
        BY <2>0, <3>2, ReadAccount
      <4> QED BY <4>1, <4>2 DEF stf!NewAccount
    <3> QED BY <3>1, <3>2
  <2>1. CASE UNCHANGED <<account_cache, executed>>
    BY <2>1 DEF NoncesInOrder
  <2>2. ASSUME NEW d \in Deposits, apply_deposit(d), phase' # "dead"
        PROVE  NoncesInOrder'
    <3>1. d.to \in Addresses
      BY DEF Deposits
    <3>2. executed' = executed /\
          \/ account_cache' = account_cache
          \/ \E acc \in stf!Accounts :
               /\ acc.nonce = Len(executed[d.to])
               /\ account_cache' = Insert(account_cache, d.to, acc)
      BY <2>0, <2>00, <2>2, <3>1, DepositEffect
    <3>3. CASE account_cache' = account_cache
      BY <2>1, <3>2, <3>3
    <3>4. ASSUME NEW acc \in stf!Accounts, acc.nonce = Len(executed[d.to]),
                 account_cache' = Insert(account_cache, d.to, acc)
          PROVE  NoncesInOrder'
      <4>1. /\ DOMAIN account_cache' = DOMAIN account_cache \cup {d.to}
            /\ account_cache'[d.to] = acc
            /\ \A k \in DOMAIN account_cache :
                 k # d.to => account_cache'[k] = account_cache[k]
        BY <2>0, <3>1, <3>4 DEF IsAccountMap, Insert
      <4> QED BY <3>2, <3>4, <4>1 DEF NoncesInOrder
    <3> QED BY <3>2, <3>3, <3>4
  <2>3. ASSUME NEW tx \in Transactions, NEW p \in {"forced", "txs"},
               Execute(tx, p), phase' # "dead", ~UNCHANGED <<account_cache, executed>>
        PROVE  NoncesInOrder'
    <3>1. /\ tx.from \in Addresses /\ tx.to \in Addresses
          /\ tx.nonce \in Nat /\ tx.from # tx.to
      BY TransactionTyped DEF TxFields, Transactions
    <3>2. /\ tx.from \in DOMAIN account_cache
          /\ tx.nonce = Len(executed[tx.from])
          /\ executed' = [executed EXCEPT ![tx.from] = Append(@, tx.nonce)]
      BY <2>0, <2>3, <3>1, ExecuteEffect DEF NoncesInOrder
    <3>3. PICK f, t \in stf!Accounts :
             /\ f.nonce = tx.nonce + 1
             /\ t.nonce = Len(executed[tx.to])
             /\ \/ account_cache' = Insert(account_cache, tx.from, f)
                \/ account_cache' =
                     Insert(Insert(account_cache, tx.from, f), tx.to, t)
      <4>1. \E f, t \in stf!Accounts :
              /\ f.nonce = tx.nonce + 1
              /\ t.nonce = OrNew(get_account_helper(tx.to)).nonce
              /\ \/ account_cache' = Insert(account_cache, tx.from, f)
                 \/ account_cache' =
                      Insert(Insert(account_cache, tx.from, f), tx.to, t)
        BY <2>0, <2>3, <3>1, ExecuteEffect
      <4>2. OrNew(get_account_helper(tx.to)).nonce = Len(executed[tx.to])
        BY <2>00, <3>1
      <4> QED BY <4>1, <4>2
    <3>4. /\ DOMAIN account_cache \subseteq DOMAIN account_cache'
          /\ DOMAIN account_cache' \subseteq DOMAIN account_cache \cup {tx.to}
          /\ account_cache'[tx.from] = f
          /\ tx.to \in DOMAIN account_cache' =>
               account_cache'[tx.to] \in {t} \cup
                 (IF tx.to \in DOMAIN account_cache THEN {account_cache[tx.to]}
                  ELSE {})
          /\ \A k \in DOMAIN account_cache :
               k \notin {tx.from, tx.to} => account_cache'[k] = account_cache[k]
      <4> DEFINE one == Insert(account_cache, tx.from, f)
      <4>1. /\ IsAccountMap(one) /\ DOMAIN one = DOMAIN account_cache
            /\ one[tx.from] = f
            /\ \A k \in DOMAIN account_cache : k # tx.from => one[k] = account_cache[k]
        BY <2>0, <3>1, <3>2 DEF IsAccountMap, Insert
      <4> HIDE DEF one
      <4>2. CASE account_cache' = one
        BY <3>1, <4>1, <4>2
      <4>3. CASE account_cache' = Insert(one, tx.to, t)
        BY <3>1, <3>2, <4>1, <4>3 DEF IsAccountMap, Insert
      <4> QED BY <3>3, <4>2, <4>3 DEF one
    <3>5. /\ executed'[tx.from] \in Seq(Nat)
          /\ Len(executed'[tx.from]) = tx.nonce + 1
          /\ \A i \in DOMAIN executed'[tx.from] : executed'[tx.from][i] = i - 1
          /\ \A a \in Addresses : a # tx.from => executed'[a] = executed[a]
      <4>1. executed'[tx.from] = Append(executed[tx.from], tx.nonce)
        BY <2>0, <3>1, <3>2
      <4>2. executed[tx.from] \in Seq(Nat)
            /\ \A i \in DOMAIN executed[tx.from] : executed[tx.from][i] = i - 1
        BY <2>0, <3>1 DEF NoncesInOrder
      <4>3. /\ executed'[tx.from] \in Seq(Nat)
            /\ Len(executed'[tx.from]) = tx.nonce + 1
            /\ \A i \in DOMAIN executed'[tx.from] : executed'[tx.from][i] = i - 1
        BY <3>1, <3>2, <4>1, <4>2
      <4> QED BY <2>0, <3>1, <3>2, <4>3
    <3> SUFFICES ASSUME NEW a \in Addresses
                 PROVE  /\ \A i \in DOMAIN executed'[a] : executed'[a][i] = i - 1
                        /\ executed'[a] # << >> => a \in DOMAIN account_cache'
                        /\ a \in DOMAIN account_cache' =>
                             account_cache'[a].nonce = Len(executed'[a])
      BY DEF NoncesInOrder
    <3>6. CASE a = tx.from
      BY <3>2, <3>3, <3>4, <3>5, <3>6
    <3>7. CASE a = tx.to
      BY <3>1, <3>3, <3>4, <3>5, <3>7 DEF NoncesInOrder
    <3>8. CASE a \notin {tx.from, tx.to}
      BY <3>4, <3>5, <3>8 DEF NoncesInOrder
    <3> QED BY <3>6, <3>7, <3>8
  <2>4. CASE commit_block
    BY <2>4 DEF commit_block, NoncesInOrder
  <2> QED BY <2>1, <2>2, <2>3, <2>4, ExecutorSteps DEF executorVars
<1> QED BY <1>1, <1>2, ExecutorTypeCorrect, PTL DEF ExecutorSpec
=============================================================================
