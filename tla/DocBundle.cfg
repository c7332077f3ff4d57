SPECIFICATION PipelineSpec
CONSTANTS
  zero = zero
  alice = alice
  bob = bob
  U64Max = 3
  Addresses = {zero, alice, bob}
  DefaultHash = zero
  DepositAmounts = {}
  TxAmounts = {0, 1}
  Fees = {0}
  Nonces = {0, 1}
  SelfTransfers = TRUE
  MaxOps = 1
  MaxCommits = 1
INVARIANT BundleAccepted
CHECK_DEADLOCK FALSE
