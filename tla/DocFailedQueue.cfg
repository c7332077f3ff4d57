SPECIFICATION Spec
CONSTANTS
  alice = alice
  r0 = r0
  r1 = r1
  Users = {}
  Amounts = {1}
  Calldata = {"x"}
  Roots = {r0}
  InitialRoot = r0
  Claims = {}
  ClaimsIn <- MCClaimsIn
  CountModulus = 4
  ForcedTxFee = 1
  MaxMessages = 1
  MaxBatch = 1
  L1Enabled = TRUE
  MaxRetries = 2
  MaxU64 = 5
  MaxTxs = 0
  MaxBlocks = 2
  MaxRestarts = 1
  MaxOutside = 0
INVARIANT FailedNotFinalized
CHECK_DEADLOCK FALSE
