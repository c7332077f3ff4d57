--------------------------- MODULE MCRollupBridge ---------------------------
(* Constants for model checking RollupBridge on its own: the caller may    *)
(* submit any batch, right or wrong.                                       *)
EXTENDS RollupBridge

CONSTANTS alice, bob, r0, r1

MCUsers == {alice, bob}
MCRoots == {r0, r1}
MCClaims == {<<alice, 1, 0>>, <<alice, 1, 1>>}
\* One claim has a path to both roots, the other to r1 only.
MCClaimsIn == [r \in MCRoots |-> IF r = r0 THEN {<<alice, 1, 0>>} ELSE MCClaims]
=============================================================================
