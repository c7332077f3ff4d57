SPECIFICATION Spec
CONSTANTS
  alice = alice
  r0 = r0
  r1 = r1
  Users = {}
  Amounts = {1}
  Calldata = {}
  Roots = {r0, r1}
  InitialRoot = r0
  Claims = {}
  ClaimsIn <- MCClaimsIn
  CountModulus = 4
  ForcedTxFee = 1
  MaxMessages = 0
  MaxBatch = 1
  L1Enabled = TRUE
  MaxRetries = 2
  MaxU64 = 5
  MaxTxs = 2
  MaxBlocks = 2
  MaxRestarts = 1
  MaxOutside = 1
INVARIANTS TypeOK NoBlockVanishes ConfirmedIsFinalized FinalizedInOrder
  FinalizedChain
CHECK_DEADLOCK FALSE
