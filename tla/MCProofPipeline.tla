--------------------------- MODULE MCProofPipeline ---------------------------
(* Constants for model checking ProofPipeline.                             *)
EXTENDS ProofPipeline

CONSTANTS zero, alice, bob
=============================================================================
