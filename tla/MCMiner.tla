------------------------------ MODULE MCMiner ------------------------------
(***************************************************************************)
(* Small instances of Miner: the miner and one thread of the network.      *)
(***************************************************************************)
EXTENDS Miner

CONSTANT worker
=============================================================================
