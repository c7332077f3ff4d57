SPECIFICATION ExecutorSpec
CONSTANTS
  zero = zero
  alice = alice
  bob = bob
  U64Max = 3
  Addresses = {zero, alice, bob}
  DefaultHash = zero
  DepositAmounts = {1, 2}
  TxAmounts = {1, 3}
  Fees = {0, 1}
  Nonces = {0, 1}
  SelfTransfers = FALSE
  MaxOps = 4
  MaxCommits = 2
INVARIANTS ExecutorTypeOK NoValueCreated NoncesInOrder
CHECK_DEADLOCK FALSE
