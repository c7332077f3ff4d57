SPECIFICATION FairSpec
CONSTANTS
  alice = alice
  r0 = r0
  r1 = r1
  Users = {alice}
  Amounts = {}
  Calldata = {}
  Roots = {r0, r1}
  InitialRoot = r0
  Claims = {}
  ClaimsIn <- MCClaimsIn
  CountModulus = 4
  ForcedTxFee = 2
  MaxMessages = 0
  MaxBatch = 0
  L1Enabled = FALSE
  MaxRetries = 1
  MaxU64 = 5
  MaxTxs = 3
  MaxBlocks = 3
  MaxRestarts = 2
  MaxOutside = 0
INVARIANTS CommitFresh Chained LogInOrder NoTxLost
PROPERTIES ImplementsBlockLog TxSealed
CHECK_DEADLOCK FALSE
