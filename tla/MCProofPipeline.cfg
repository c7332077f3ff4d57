SPECIFICATION PipelineSpec
CONSTANTS
  zero = zero
  alice = alice
  bob = bob
  U64Max = 3
  Addresses = {zero, alice, bob}
  DefaultHash = zero
  DepositAmounts = {1}
  TxAmounts = {0, 1}
  Fees = {0}
  Nonces = {0, 1}
  SelfTransfers = FALSE
  MaxOps = 2
  MaxCommits = 2
INVARIANTS ProofsAligned BundleOnlyForInert
  ProvedBlocksInert GuestRootMatches
CHECK_DEADLOCK FALSE
