----------------------------- MODULE LeaderRule -----------------------------
(***************************************************************************)
(* The confirmation rule of a proposer level (blockchain/mod.rs,           *)
(* proposer_leader), once the lower confidence bound on the votes of each  *)
(* block of the level is known.  The bounds are f32 in the code; here they *)
(* are naturals, and a whole vote counts VoteUnit.  A level gets at most   *)
(* one vote of each voter chain.                                           *)
(***************************************************************************)
EXTENDS Config

CONSTANTS
  VoteUnit,       \* the resolution of the bounds
  None            \* Option::None

ASSUME VoteAssumption == VoteUnit \in Nat \ {0}

\* The votes that no block is certain of.
Remaining(total) == voter_chains * VoteUnit - total

\* h has the highest bound, and the lowest hash of those that have it.
LeadsNoTieBreak(lcb, h) == \A p \in DOMAIN lcb \ {h} : lcb[p] < lcb[h]
Leads(lcb, h) ==
  \A p \in DOMAIN lcb : lcb[p] < lcb[h] \/ (lcb[p] = lcb[h] /\ h <= p)

\* Neither a private block nor another block of the level can overtake h with
\* the remaining votes.
OvertakenByPrivateIgnored(lcb, total, h) ==
  \A p \in DOMAIN lcb \ {h} :
    \/ lcb[h] > lcb[p] + Remaining(total)
    \/ lcb[h] = lcb[p] + Remaining(total) /\ h < p
Safe(lcb, total, h) ==
  /\ lcb[h] > Remaining(total)
  /\ \A p \in DOMAIN lcb \ {h} :
       \/ lcb[h] > lcb[p] + Remaining(total)
       \/ lcb[h] = lcb[p] + Remaining(total) /\ h < p

Winner(lcb, total, h) == lcb[h] > 0 /\ Leads(lcb, h) /\ Safe(lcb, total, h)

Decide(lcb, total) ==
  IF \E h \in DOMAIN lcb : Winner(lcb, total, h)
  THEN CHOOSE h \in DOMAIN lcb : Winner(lcb, total, h)
  ELSE None
=============================================================================
