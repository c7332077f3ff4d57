----------------------------- MODULE MCSequencer -----------------------------
(* Constants for model checking Sequencer.                                 *)
EXTENDS Sequencer

CONSTANTS alice, r0, r1

\* Withdrawals do not touch what the sequencer reads.
MCClaimsIn == [r \in Roots |-> {}]
=============================================================================
