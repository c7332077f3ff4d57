--------------------------- MODULE MCBlockExecutor ---------------------------
(* Constants for model checking BlockExecutor.                             *)
EXTENDS BlockExecutor

CONSTANTS zero, alice, bob
=============================================================================
