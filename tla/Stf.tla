--------------------------------- MODULE Stf ---------------------------------
(***************************************************************************)
(* The account rules of the state transition function (stf/src/lib.rs).    *)
(* An account's id is the key it is stored under.                          *)
(***************************************************************************)
EXTENDS Integers

CONSTANT U64Max   \* the largest u64

U64 == 0..U64Max
Accounts == [balance : U64, nonce : Nat]

\* Account::new
NewAccount == [balance |-> 0, nonce |-> 0]

\* Mutant: the sum is not checked against the width of u64.
Fits_Unchecked(x, y) == TRUE

\* checked_add returns Some
Fits(x, y) == x + y <= U64Max

SaturatingSub(x, y) == IF x >= y THEN x - y ELSE 0

\* TransactionResult::Success(from, to), TransactionResult::Failure(from), and
\* Err(e), which carries no account.
Success(from, to) == [kind |-> "Success", from |-> from, to |-> to]
Failure(from) == [kind |-> "Failure", from |-> from]
Err(e) == [kind |-> e]

\* apply_deposit returns this account, or BalanceOverflow.
DepositFits(account, deposit) == Fits(account.balance, deposit.amount)
apply_deposit(account, deposit) ==
  [account EXCEPT !.balance = @ + deposit.amount]

\* Mutant: the amount is credited and not debited.
total_debit_FeeOnly(tx) == tx.fee

total_debit(tx) == tx.amount + tx.fee

\* Mutant: a failed transaction can be sent again.
Charged_SameNonce(from, tx) ==
  [from EXCEPT !.balance = SaturatingSub(@, tx.fee)]

\* The sender of a transaction it cannot pay for: the fee, as far as it goes.
Charged(from, tx) ==
  [balance |-> SaturatingSub(from.balance, tx.fee), nonce |-> from.nonce + 1]

Debited(from, tx) ==
  [balance |-> from.balance - total_debit(tx), nonce |-> from.nonce + 1]

Credited(to, tx) == [to EXCEPT !.balance = @ + tx.amount]

\* The checks in the order of the code; an error undoes the nonce.
apply_transaction(from, to, tx) ==
  IF from.nonce # tx.nonce THEN Err("InvalidNonce")
  ELSE IF ~Fits(tx.amount, tx.fee) THEN Err("BalanceOverflow")
  ELSE IF from.balance < total_debit(tx) THEN Failure(Charged(from, tx))
  ELSE IF ~Fits(to.balance, tx.amount) THEN Err("BalanceOverflow")
  ELSE Success(Debited(from, tx), Credited(to, tx))

\* The same rules, for a transaction forced through L1.
apply_forced_tx(from, to, tx) == apply_transaction(from, to, tx)
=============================================================================
