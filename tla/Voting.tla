------------------------------- MODULE Voting -------------------------------
(***************************************************************************)
(* One proposer level while its votes become certain: a proposer block of  *)
(* the level is published, or a vote that was not certain is counted for   *)
(* one of the blocks.  The rule of LeaderRule is checked against what it   *)
(* is for: a leader, once chosen, is the leader of every way the remaining *)
(* votes can fall.                                                         *)
(***************************************************************************)
EXTENDS LeaderRule

CONSTANT Hash    \* the proposer blocks that may appear at the level

ASSUME VotingAssumption == Hash \subseteq Nat /\ None \notin Hash

VARIABLES lcb, total
votingVars == <<lcb, total>>

VotingInit == lcb = [h \in {} |-> 0] /\ total = 0

\* A new block joins PROPOSER_TREE_LEVEL, without votes.
Publish(h) ==
  /\ h \notin DOMAIN lcb
  /\ lcb' = [p \in DOMAIN lcb \cup {h} |-> IF p = h THEN 0 ELSE lcb[p]]
  /\ UNCHANGED total

\* One more unit of a vote on h is certain.
Count(h) ==
  /\ h \in DOMAIN lcb
  /\ Remaining(total) > 0
  /\ lcb' = [lcb EXCEPT ![h] = @ + 1]
  /\ total' = total + 1

VotingNext == \E h \in Hash : Publish(h) \/ Count(h)

VotingSpec == VotingInit /\ [][VotingNext]_votingVars

-----------------------------------------------------------------------------
\* The bounds and their total.
VotingTypeOK ==
  /\ DOMAIN lcb \subseteq Hash
  /\ lcb \in [DOMAIN lcb -> Nat]
  /\ total \in 0 .. voter_chains * VoteUnit
  /\ \A h \in DOMAIN lcb : lcb[h] <= total

\* proposer_leader never takes back a leader because more of the votes became
\* certain or because a block that was kept private is published.
LeaderStable ==
  [][Decide(lcb, total) # None => Decide(lcb, total)' = Decide(lcb, total)]_votingVars

\* The rule is not too strict: when no vote remains, the level has a leader.
LeaderWhenAllCertain ==
  Remaining(total) = 0 => Decide(lcb, total) # None
=============================================================================
