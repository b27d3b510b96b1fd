------------------------------- MODULE Ledger -------------------------------
(***************************************************************************)
(* The confirmed ledger of a node (blockchain/mod.rs, update_ledger): the  *)
(* votes of the main voter chains, the leader of each proposer level that  *)
(* they select, and the total order of proposer blocks that the leaders    *)
(* induce.  One thread of the ledger manager runs update_ledger over and   *)
(* over, while other threads insert blocks.                                *)
(*                                                                         *)
(* A step of update_ledger is one voter chain, one write batch, one        *)
(* proposer level, or the final recomputation, which holds the locks of    *)
(* proposer_ledger_tip and unconfirmed_proposers throughout.               *)
(***************************************************************************)
EXTENDS BlockChain, LeaderRule, SeqOps

CONSTANT
  votes_lcb(_, _, _, _)  \* lower confidence bound on the votes of a block, from
                         \* the depths of its votes, the total of voter blocks
                         \* and of votes on the level, and the quantile

VARIABLES
  voter_ledger_tips,        \* chain -> voter block whose votes are counted
  proposer_node_vote,       \* proposer block -> its votes, {<<chain, level>>}
  proposer_leader_sequence, \* level -> leader
  proposer_ledger_order,    \* level -> blocks the leader confirms, in order
  proposer_ledger_tip,      \* deepest confirmed level
  upc,                      \* where update_ledger is
  wb,                       \* its pending write batch
  chain_num,                \* the voter chain whose votes it reads next
  affected,                 \* the proposer levels it has yet to recompute
  change_begin,             \* first level whose leader changes, or None
  diff                      \* what it returned last: [added, removed]

ledgerVars == <<voter_ledger_tips, proposer_node_vote, proposer_leader_sequence,
                proposer_ledger_order, proposer_ledger_tip>>
updateVars == <<upc, chain_num, wb, affected, change_begin, diff>>
vars == <<bcVars, ledgerVars, updateVars>>

ASSUME NoneAssumption == None \notin Proposer \cup Nat

-----------------------------------------------------------------------------
(* Votes.                                                                  *)

\* The votes a voter block casts, with its level: [proposer, level].
VotesOf(h) == [i \in DOMAIN voter_node[h].votes |->
                 [proposer |-> voter_node[h].votes[i], level |-> voter_node[h].level]]

\* vote_diff: walk back the longer of the two chains until the levels agree, then
\* both until they meet, and collect the votes passed on either side.  The two
\* blocks are of the same chain.
vote_diff(from, to) ==
  LET blocks == {v \in DOMAIN voter_node : voter_node[v].chain = voter_node[to].chain}
      walk[f \in blocks, t \in blocks] ==
        LET F == voter_node[f]
            T == voter_node[t]
        IN  CASE T.level > F.level ->
                   LET d == walk[f, T.parent]
                   IN  [d EXCEPT !.added = VotesOf(t) \o @]
              [] T.level < F.level ->
                   LET d == walk[F.parent, t]
                   IN  [d EXCEPT !.removed = VotesOf(f) \o @]
              [] T.level = F.level /\ f # t ->
                   LET d == walk[F.parent, T.parent]
                   IN  [added   |-> VotesOf(t) \o d.added,
                        removed |-> VotesOf(f) \o d.removed]
              [] f = t -> [added |-> <<>>, removed |-> <<>>]
  IN  walk[from, to]

\* vote_vec_merge: a removal drops one vote of the chain, whatever its level.
MergeVote(votes, op) ==
  IF op.add
  THEN votes \cup {<<op.chain, op.level>>}
  ELSE LET same == {v \in votes : v[1] = op.chain}
       IN  IF same = {} THEN votes ELSE votes \ {CHOOSE v \in same : TRUE}

\* The votes of the proposer block h, an absent entry counting as no votes.
VotesFor(h) == IF h \in DOMAIN proposer_node_vote THEN proposer_node_vote[h] ELSE {}

\* The operations of one chain, removals first.
Ops(add, c, votes) ==
  [i \in DOMAIN votes |-> [proposer |-> votes[i].proposer, add |-> add,
                           chain |-> c, level |-> votes[i].level]]
VoteOpsAddFirst(c, d) == Ops(TRUE, c, d.added) \o Ops(FALSE, c, d.removed)
VoteOpsAddOnly(c, d) == Ops(TRUE, c, d.added)
VoteOps(c, d) == Ops(FALSE, c, d.removed) \o Ops(TRUE, c, d.added)

-----------------------------------------------------------------------------
(* Leaders.                                                                *)

\* num_voter_blocks: the voter blocks of a chain between two levels.
num_voter_blocks(c, start, end) ==
  Cardinality({h \in DOMAIN voter_node :
                 voter_node[h].chain = c /\ voter_node[h].level \in start .. end})

proposer_leader(level, quantile) ==
  LET blocks == Range(proposer_tree_level[level])
      Depth(v) == voter_best[v[1]].level - v[2] + 1
      Later(v) == num_voter_blocks(v[1], v[2], voter_best[v[1]].level)
      total_vote_count  == SumFunction([b \in blocks |-> Cardinality(VotesFor(b))])
      total_vote_blocks ==
        SumFunction([b \in blocks |-> SumFunction([v \in VotesFor(b) |-> Later(v)])])
      lcb == [b \in blocks |->
                votes_lcb([v \in VotesFor(b) |-> Depth(v)],
                          total_vote_blocks, total_vote_count, quantile)]
  IN  IF total_vote_count > (voter_chains * 3) \div 5 THEN Decide(lcb, SumFunction(lcb)) ELSE None

-----------------------------------------------------------------------------
(* Order.                                                                  *)

\* The depth-first walk of update_ledger: a stack of blocks to visit, and the
\* visited ones, repeated as often as they are reached.
WalkLeaderOnly(unconfirmed, leader) == <<leader>>
Walk(unconfirmed, leader) ==
  LET visit[h \in DOMAIN proposer_node] ==
        IF h \notin unconfirmed THEN <<>>
        ELSE LET refs == proposer_node[h].refs
             IN  <<h>> \o FlattenSeq([i \in DOMAIN refs |-> visit[refs[Len(refs) + 1 - i]]])
  IN  visit[leader]

\* The walk reversed, each block where it comes first.
KeepFirst(s) ==
  FoldLeft(LAMBDA acc, h : IF h \in Range(acc) THEN acc ELSE Append(acc, h), <<>>, s)

LevelOrderUnreversed(unconfirmed, leader) == KeepFirst(Walk(unconfirmed, leader))
LevelOrder(unconfirmed, leader) == KeepFirst(Reverse(Walk(unconfirmed, leader)))

\* The levels a to b, none if b is below a.
LevelRange(a, b) == [i \in 1 .. (IF a <= b THEN b - a + 1 ELSE 0) |-> a + i - 1]

\* Extend the ledger from level begin to the first level without a leader.
\* led: [order, unconfirmed, added].
Extend(led, begin) ==
  LET leaders == proposer_leader_sequence
      gap == Min({l \in begin .. begin + Cardinality(DOMAIN leaders) :
                    l \notin DOMAIN leaders})
      Level(acc, l) ==
        LET o == LevelOrder(acc.unconfirmed, leaders[l])
        IN  [order       |-> Put(acc.order, l, o),
             unconfirmed |-> acc.unconfirmed \ Range(o),
             added       |-> acc.added \o o]
  IN  [tip |-> gap - 1,
       led |-> FoldLeft(Level, led, LevelRange(begin, gap - 1))]

\* The transaction blocks of a list of proposer blocks.
TransactionBlocks(s) == FlattenSeq([i \in DOMAIN s |-> proposer_node[s[i]].txs])

-----------------------------------------------------------------------------
LedgerInit ==
  /\ Init
  /\ voter_ledger_tips = [c \in Chain |-> voter_genesis(c)]
  /\ proposer_node_vote = [h \in {proposer_genesis} |-> {<<c, 0>> : c \in Chain}]
  /\ proposer_leader_sequence = [l \in {0} |-> proposer_genesis]
  /\ proposer_ledger_order = [l \in {0} |-> <<proposer_genesis>>]
  /\ proposer_ledger_tip = 0
  /\ upc = "votes"
  /\ chain_num = 0
  /\ wb = <<>>
  /\ affected = {}
  /\ change_begin = None
  /\ diff = [added |-> <<>>, removed |-> <<>>]

\* The vote diff of one voter chain, and the proposer levels it touches.
UpdateVotes ==
  LET d   == vote_diff(voter_ledger_tips[chain_num], voter_best[chain_num].hash)
      ops == VoteOps(chain_num, d)
  IN  /\ upc = "votes"
      /\ voter_ledger_tips' =
           [voter_ledger_tips EXCEPT ![chain_num] = voter_best[chain_num].hash]
      /\ wb' = wb \o ops
      /\ affected' = affected \cup {proposer_node[ops[i].proposer].level : i \in DOMAIN ops}
      /\ chain_num' = (chain_num + 1) % voter_chains
      /\ upc' = IF chain_num + 1 = voter_chains THEN "write_votes" ELSE "votes"
      /\ diff' = [added |-> <<>>, removed |-> <<>>]
      /\ UNCHANGED <<bcVars, proposer_node_vote, proposer_leader_sequence,
                     proposer_ledger_order, proposer_ledger_tip, change_begin>>

\* Commit the votes.  The affected range starts at the level after the ledger tip
\* if it is not empty and would start later.
WriteVotes ==
  LET Merge(votes, op) ==
        Put(votes, op.proposer,
            MergeVote(IF op.proposer \in DOMAIN votes THEN votes[op.proposer] ELSE {}, op))
  IN  /\ upc = "write_votes"
      /\ proposer_node_vote' = FoldLeft(Merge, proposer_node_vote, wb)
      /\ affected' = IF affected = {} THEN {}
                     ELSE Min(affected \cup {proposer_ledger_tip + 1}) .. Max(affected)
      /\ wb' = <<>>
      /\ upc' = "leaders"
      /\ UNCHANGED <<bcVars, voter_ledger_tips, proposer_leader_sequence,
                     proposer_ledger_order, proposer_ledger_tip, chain_num,
                     change_begin, diff>>

\* A level without a leader has no entry.
WriteLeader(leaders, w) ==
  IF w.leader = None
  THEN [l \in DOMAIN leaders \ {w.level} |-> leaders[l]]
  ELSE Put(leaders, w.level, w.leader)

LeaderAt(level) == IF level \in DOMAIN proposer_leader_sequence
                   THEN proposer_leader_sequence[level] ELSE None

\* Recompute the leader of the next affected level; a level that has a leader
\* loses it by the lower confidence.
RecomputeLeader ==
  LET level == Min(affected)
      new   == proposer_leader(level, IF LeaderAt(level) # None
                                      THEN "deconfirm" ELSE "confirm")
  IN  /\ upc = "leaders"
      /\ affected # {}
      /\ affected' = affected \ {level}
      /\ IF new # LeaderAt(level)
         THEN /\ wb' = Append(wb, [level |-> level, leader |-> new])
              /\ change_begin' = IF change_begin = None THEN level ELSE change_begin
         ELSE UNCHANGED <<wb, change_begin>>
      /\ UNCHANGED <<bcVars, ledgerVars, upc, chain_num, diff>>

\* Commit the leaders; without a change update_ledger returns here.
WriteLeaders ==
  /\ upc = "leaders"
  /\ affected = {}
  /\ proposer_leader_sequence' = FoldLeft(WriteLeader, proposer_leader_sequence, wb)
  /\ wb' = <<>>
  /\ upc' = IF change_begin = None THEN "votes" ELSE "ledger"
  /\ UNCHANGED <<bcVars, voter_ledger_tips, proposer_node_vote,
                 proposer_ledger_order, proposer_ledger_tip, chain_num,
                 affected, change_begin, diff>>

\* The blocks of the ledger at these levels.
Ordered(levels) == FlattenSeq([i \in DOMAIN levels |-> proposer_ledger_order[levels[i]]])

\* The blocks that are deconfirmed: those of the levels begin to the tip.
DeconfirmedExclusive(begin) == Ordered(LevelRange(begin, proposer_ledger_tip - 1))
Deconfirmed(begin) == Ordered(LevelRange(begin, proposer_ledger_tip))

\* The ledger is extended only where it stays continuous.
ContinuesAlways(begin) == TRUE
Continues(begin) == begin <= proposer_ledger_tip + 1

\* Deconfirm the levels from the first change to the tip, then confirm from there
\* to the first level without a leader, unless the change is past a gap.
RecomputeLedger ==
  LET removed == Deconfirmed(change_begin)
      kept    == [l \in {l \in DOMAIN proposer_ledger_order :
                             l \notin change_begin .. proposer_ledger_tip} |->
                    proposer_ledger_order[l]]
      base    == [order |-> kept, added |-> <<>>,
                  unconfirmed |-> unconfirmed_proposers \cup Range(removed)]
      new     == IF Continues(change_begin)
                 THEN Extend(base, change_begin)
                 ELSE [tip |-> proposer_ledger_tip, led |-> base]
  IN  /\ upc = "ledger"
      /\ proposer_ledger_order' = new.led.order
      /\ proposer_ledger_tip' = new.tip
      /\ unconfirmed_proposers' = new.led.unconfirmed
      /\ diff' = [added   |-> TransactionBlocks(new.led.added),
                  removed |-> TransactionBlocks(removed)]
      /\ change_begin' = None
      /\ upc' = "votes"
      /\ UNCHANGED <<dbVars, bestVars, unreferredVars, pc, block,
                     voter_ledger_tips, proposer_node_vote,
                     proposer_leader_sequence, chain_num, wb, affected>>

update_ledger == UpdateVotes \/ WriteVotes \/ RecomputeLeader \/ WriteLeaders
                   \/ RecomputeLedger

LedgerNext == \/ Next /\ UNCHANGED <<ledgerVars, updateVars>>
              \/ update_ledger

LedgerSpec == LedgerInit /\ [][LedgerNext]_vars

-----------------------------------------------------------------------------
(* Reference definitions.                                                  *)

\* The voter blocks from h back to the genesis block of its chain.
VoterPath(h) ==
  LET path[v \in DOMAIN voter_node] ==
        {v} \cup IF voter_node[v].level = 0 THEN {} ELSE path[voter_node[v].parent]
  IN  path[h]

\* The proposer blocks reachable from h.
Past(h) ==
  LET past[p \in DOMAIN proposer_node] ==
        {p} \cup UNION {past[r] : r \in Range(proposer_node[p].refs)}
  IN  past[h]

\* The proposer blocks that the leaders before a level confirm.
PastBefore(level) == UNION {Past(proposer_leader_sequence[k]) : k \in 0 .. level - 1}

\* The ledger as one list.
LedgerBlocks == FlattenSeq([i \in 1 .. proposer_ledger_tip + 1 |->
                              proposer_ledger_order[i - 1]])

-----------------------------------------------------------------------------
(* Properties.                                                             *)

\* Whatever reorganisations of the voter chains update_ledger has followed, the
\* votes it has recorded are exactly those on the paths to voter_ledger_tips: no
\* vote of an abandoned fork stays and none of the main chain is lost, although
\* vote_vec_merge removes by chain number only and ignores a missing vote.
VotesFollowTips ==
  (upc \in {"leaders", "ledger"} \/ (upc = "votes" /\ chain_num = 0)) =>
    \A h \in DOMAIN proposer_node :
      VotesFor(h) =
        {<<e[1], voter_node[e[2]].level>> : e \in
           {e \in Chain \X DOMAIN voter_node :
              e[2] \in VoterPath(voter_ledger_tips[e[1]])
                /\ h \in Range(voter_node[e[2]].votes)}}

\* A level never has more votes than there are voter chains (the panic of
\* proposer_leader), and no vote is above the best block of its chain, so that
\* its depth, a u64 difference, does not wrap around.
VotesWithinBounds ==
  /\ \A l \in DOMAIN proposer_tree_level :
       SumFunction([h \in Range(proposer_tree_level[l]) |-> Cardinality(VotesFor(h))])
         <= voter_chains
  /\ \A h \in DOMAIN proposer_node_vote : \A v \in proposer_node_vote[h] :
       v[2] <= voter_best[v[1]].level

\* The ledger is contiguous: exactly the levels up to the tip are ordered, and
\* outside the final recomputation they have leaders and the next level has
\* none.  This is what proposer_transaction_in_ledger relies on.
LedgerContiguous ==
  /\ DOMAIN proposer_ledger_order = 0 .. proposer_ledger_tip
  /\ upc # "ledger" =>
       /\ 0 .. proposer_ledger_tip \subseteq DOMAIN proposer_leader_sequence
       /\ proposer_ledger_tip + 1 \notin DOMAIN proposer_leader_sequence

\* The ledger that is built incrementally, across confirmations, deconfirmations
\* and concurrent insertions, depends on nothing but the leaders: the blocks of a
\* level are the past of its leader without the past of earlier leaders, in the
\* order of the walk.
LedgerFollowsLeaders ==
  upc # "ledger" =>
    \A l \in 1 .. proposer_ledger_tip :
      LET leader == proposer_leader_sequence[l]
      IN  /\ Range(proposer_ledger_order[l]) = Past(leader) \ PastBefore(l)
          /\ proposer_ledger_order[l] =
               LevelOrder(DOMAIN proposer_node \ PastBefore(l), leader)

\* A block is in the ledger once, after its parent and all its references.
LedgerTopological ==
  LET s == LedgerBlocks
  IN  \A i \in DOMAIN s :
        /\ \A r \in Range(proposer_node[s[i]].refs) : \E j \in 1 .. i - 1 : s[j] = r
        /\ \A j \in DOMAIN s : s[i] = s[j] => i = j

\* unconfirmed_proposers is exactly what is not in the ledger: a block is there
\* from before its commit, so a leader or a block it refers to is never skipped
\* because its insertion was still under way, and a deconfirmed block returns.
UnconfirmedExact ==
  unconfirmed_proposers =
    (DOMAIN proposer_node \cup InFlight({"commit"})) \ Range(LedgerBlocks)

\* The diff that update_ledger returns takes the transaction blocks of the old
\* ledger to those of the new one: the removed ones are a suffix of the old list,
\* and the new list continues what is left with the added ones.
DiffIsExact ==
  [][proposer_ledger_order' # proposer_ledger_order =>
       LET old  == TransactionBlocks(LedgerBlocks)
           new  == TransactionBlocks(LedgerBlocks)'
           keep == Len(old) - Len(diff'.removed)
       IN  /\ keep >= 0
           /\ SubSeq(old, keep + 1, Len(old)) = diff'.removed
           /\ new = SubSeq(old, 1, keep) \o diff'.added]_vars

\* proposer_leaders, which the API may call at any moment, takes the tip and a
\* snapshot under the lock of proposer_ledger_tip and treats a level up to the
\* tip without a leader as unreachable.
LeadersUpToTip ==
  0 .. proposer_ledger_tip \subseteq DOMAIN proposer_leader_sequence
=============================================================================
