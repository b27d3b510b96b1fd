------------------------------- MODULE Config -------------------------------
(***************************************************************************)
(* The part of BlockchainConfig that more than one component depends on.   *)
(***************************************************************************)
EXTENDS Integers

CONSTANT voter_chains    \* BlockchainConfig::voter_chains

ASSUME ChainAssumption == voter_chains \in Nat \ {0}
=============================================================================
