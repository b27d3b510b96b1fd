------------------------------ MODULE MCRules -------------------------------
(***************************************************************************)
(* The two rules that need no other part of the system, side by side: a    *)
(* behaviour is one of Voting or one of BlockProof.                        *)
(***************************************************************************)
EXTENDS Voting, BlockProof

CONSTANTS MaxVoterChains, TxRate

\* From one voter chain to the bound: trees of every shape of that many leaves.
MCConfigs ==
  {[voter_chains |-> n, proposer_rate |-> 1, voter_rate |-> 1, tx_rate |-> t] :
     n \in 1 .. MaxVoterChains, t \in TxRate}

VARIABLE rule

RulesInit ==
  /\ VotingInit /\ ProofInit
  /\ rule \in {"voting", "proof"}
  /\ rule = "voting" => config.voter_chains = 1

RulesNext ==
  /\ UNCHANGED rule
  /\ \/ rule = "voting" /\ VotingNext /\ UNCHANGED proofVars
     \/ rule = "proof" /\ ProofNext /\ UNCHANGED votingVars

RulesSpec == RulesInit /\ [][RulesNext]_<<votingVars, proofVars, rule>>
=============================================================================
