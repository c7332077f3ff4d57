SPECIFICATION BridgeSpec
CONSTANTS
  alice = alice
  bob = bob
  r0 = r0
  r1 = r1
  Users <- MCUsers
  Amounts = {0, 1}
  Calldata = {"x"}
  Roots <- MCRoots
  InitialRoot = r0
  Claims <- MCClaims
  ClaimsIn <- MCClaimsIn
  CountModulus = 3
  ForcedTxFee = 1
  MaxMessages = 3
  MaxBatch = 4
INVARIANTS BridgeTypeOK CarriedOnce ClaimPaidOnce
PROPERTY ImplementsInbox
