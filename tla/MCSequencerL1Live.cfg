SPECIFICATION FairSpec
CONSTANTS
  alice = alice
  r0 = r0
  r1 = r1
  Users = {alice}
  Amounts = {1, 9}
  Calldata = {}
  Roots = {r0, r1}
  InitialRoot = r0
  Claims = {}
  ClaimsIn <- MCClaimsIn
  CountModulus = 4
  ForcedTxFee = 2
  MaxMessages = 1
  MaxBatch = 1
  L1Enabled = TRUE
  MaxRetries = 2
  MaxU64 = 5
  MaxTxs = 0
  MaxBlocks = 2
  MaxRestarts = 0
  MaxOutside = 1
INVARIANT CarriedOnce
PROPERTIES PendingDrains MessageSealed
CHECK_DEADLOCK FALSE
