------------------------------- MODULE Miner -------------------------------
(***************************************************************************)
(* The miner (miner/mod.rs, miner_loop) beside the threads that insert     *)
(* blocks: it is told of new blocks through a channel, refreshes the       *)
(* contents it is mining on from the block store, and inserts the block it *)
(* mines.  A step is one read of the block store or one step of            *)
(* insert_block.                                                           *)
(***************************************************************************)
EXTENDS BlockChain, SeqOps

CONSTANTS
  miner,              \* the thread of the miner
  proposer_tx_refs    \* quota of transaction references in a proposer block

ASSUME MinerAssumption == miner \in Thread /\ proposer_tx_refs \in Nat

VARIABLES
  context_update_chan, \* the signals that wait for the miner
  unsent,              \* thread -> signals for blocks it has inserted, not yet sent
  mpc,                 \* where miner_loop is
  new_proposer_block, new_voter_block, new_transaction_block,
  voter_shift,         \* whether a voter parent changed in this round
  touched,             \* whether the proposer content changed in this round
  parent,              \* header.parent
  contents,            \* [proposer |-> [refs, txs], voter |-> chain -> [parent, votes]]
  content_merkle_tree, \* the leaves of the Merkle tree, whose root is in the header
  mined                \* the signal for the block it inserts

roundVars == <<new_proposer_block, new_voter_block, new_transaction_block,
               voter_shift, touched>>
minerVars == <<mpc, roundVars, parent, contents, content_merkle_tree, mined>>
signalVars == <<context_update_chan, unsent>>
vars == <<bcVars, signalVars, minerVars>>

NewProposerBlock == <<"proposer">>
NewTransactionBlock == <<"transaction">>
NewVoterBlock(c) == <<"voter", c>>
Signal == {NewProposerBlock, NewTransactionBlock} \cup {NewVoterBlock(c) : c \in Chain}

\* miner::new and the signals that the miner sends to itself.
MinerInit ==
  /\ Init
  /\ context_update_chan = Signal
  /\ unsent = [t \in Thread |-> {}]
  /\ mpc = "signals"
  /\ new_proposer_block = FALSE /\ new_voter_block = {} /\ new_transaction_block = FALSE
  /\ voter_shift = FALSE /\ touched = FALSE
  /\ parent = proposer_genesis
  /\ contents = [proposer |-> [refs |-> {}, txs |-> {}],
                 voter |-> [c \in Chain |-> [parent |-> voter_genesis(c), votes |-> <<>>]]]
  /\ content_merkle_tree = contents
  /\ mined = <<>>

-----------------------------------------------------------------------------
(* What the miner reads from the block store.                              *)

best_proposer == proposer_tree_level[proposer_best_level][1]

\* PROPOSER_VOTE_COUNT: the voter blocks that vote for h, on any fork.
vote_count(h) == Cardinality({v \in DOMAIN voter_node : h \in Range(voter_node[v].votes)})

\* The block with the most votes of each level that is not voted yet; ties go to the
\* smaller hash.
unvoted_proposer(tip, proposer) ==
  LET first == voter_node[tip].voted_level
      last == proposer_node[proposer].level
      Beats(h, g) == \/ vote_count(h) > vote_count(g)
                     \/ vote_count(h) = vote_count(g) /\ h <= g
      BestVote(level) == CHOOSE h \in Range(proposer_tree_level[level]) :
                           \A g \in Range(proposer_tree_level[level]) : Beats(h, g)
  IN  [i \in 1 .. last - first |-> BestVote(first + i)]

\* unreferred_transactions in some order, truncated to the quota.
TransactionRefs ==
  {S \in SUBSET unreferred_transactions :
     \/ S = unreferred_transactions /\ Cardinality(S) <= proposer_tx_refs
     \/ Cardinality(S) = proposer_tx_refs}

-----------------------------------------------------------------------------
(* A round of miner_loop.                                                  *)

At(label, next) == mpc = label /\ mpc' = next

\* Drain the channel and follow the voter chains that changed.
HandleSignals ==
  LET chains == {c \in Chain : NewVoterBlock(c) \in context_update_chan}
      shifted == {c \in chains : voter_best[c].hash # contents.voter[c].parent}
  IN  /\ mpc = "signals"
      /\ context_update_chan' = {}
      /\ new_proposer_block' = (NewProposerBlock \in context_update_chan)
      /\ new_transaction_block' = (NewTransactionBlock \in context_update_chan)
      /\ new_voter_block' = chains
      /\ voter_shift' = (shifted # {})
      /\ touched' = FALSE
      /\ contents' = [contents EXCEPT !.voter =
           [c \in Chain |-> IF c \in shifted THEN [@[c] EXCEPT !.parent = voter_best[c].hash]
                            ELSE @[c]]]
      /\ mpc' = IF NewProposerBlock \in context_update_chan THEN "best"
                ELSE IF NewTransactionBlock \in context_update_chan THEN "append_txs"
                ELSE "check"
      /\ UNCHANGED <<bcVars, unsent, parent, content_merkle_tree, mined>>

\* Not refreshed before the next proposer block.
AppendTransactionRefsNever ==
  /\ At("append_txs", "check")
  /\ UNCHANGED <<bcVars, signalVars, roundVars, parent, contents, content_merkle_tree, mined>>

\* New transaction blocks only: refresh the transaction references within the quota.
AppendTransactionRefs ==
  /\ At("append_txs", "check")
  /\ IF Cardinality(contents.proposer.txs) < proposer_tx_refs
     THEN /\ \E S \in TransactionRefs : contents' = [contents EXCEPT !.proposer.txs = S]
          /\ touched' = TRUE
     ELSE UNCHANGED <<contents, touched>>
  /\ UNCHANGED <<bcVars, signalVars, new_proposer_block, new_voter_block,
                 new_transaction_block, voter_shift, parent, content_merkle_tree, mined>>

UpdateBestProposer ==
  /\ At("best", "refresh_txs")
  /\ parent' = best_proposer
  /\ UNCHANGED <<bcVars, signalVars, roundVars, contents, content_merkle_tree, mined>>

\* A new proposer block: refresh all the references.
RefreshTransactionRefs ==
  /\ At("refresh_txs", "refresh_proposers")
  /\ \E S \in TransactionRefs : contents' = [contents EXCEPT !.proposer.txs = S]
  /\ UNCHANGED <<bcVars, signalVars, roundVars, parent, content_merkle_tree, mined>>

RefreshProposerRefs ==
  /\ At("refresh_proposers", "check")
  /\ contents' = [contents EXCEPT !.proposer.refs = unreferred_proposers \ {parent}]
  /\ touched' = TRUE
  /\ UNCHANGED <<bcVars, signalVars, new_proposer_block, new_voter_block,
                 new_transaction_block, voter_shift, parent, content_merkle_tree, mined>>

\* Without the check.
CheckBestNever ==
  /\ At("check", "votes")
  /\ UNCHANGED <<bcVars, signalVars, roundVars, parent, contents, content_merkle_tree, mined>>

\* Check that the parent is still the best; start again if it is not.
CheckBest ==
  /\ mpc = "check"
  /\ parent' = best_proposer
  /\ new_proposer_block' = (new_proposer_block \/ parent # best_proposer)
  /\ mpc' = IF parent = best_proposer THEN "votes" ELSE "refresh_txs"
  /\ UNCHANGED <<bcVars, signalVars, new_voter_block, new_transaction_block,
                 voter_shift, touched, contents, content_merkle_tree, mined>>

\* The votes of every chain, and then the Merkle tree: rebuilt, or only the entries
\* of the chains and contents that the signals name.
Rebuild == new_proposer_block \/ voter_shift

UpdateVotes ==
  LET new == IF new_proposer_block \/ new_voter_block # {}
             THEN [contents EXCEPT !.voter = [c \in Chain |->
                     [parent |-> @[c].parent,
                      votes  |-> unvoted_proposer(@[c].parent, parent)]]]
             ELSE contents
      old == content_merkle_tree
  IN  /\ At("votes", "mine")
      /\ contents' = new
      /\ content_merkle_tree' =
           IF Rebuild THEN new
           ELSE [proposer |-> IF new_transaction_block /\ touched THEN new.proposer
                              ELSE old.proposer,
                 voter |-> [c \in Chain |-> IF c \in new_voter_block THEN new.voter[c]
                                            ELSE old.voter[c]]]
      /\ UNCHANGED <<bcVars, signalVars, roundVars, parent, mined>>

-----------------------------------------------------------------------------
(* The nonce: no block, or a block of the kind that sortition chooses,     *)
(* which the miner inserts without any check.                              *)

NoLuck ==
  /\ At("mine", "signals")
  /\ UNCHANGED <<bcVars, signalVars, roundVars, parent, contents, content_merkle_tree, mined>>

\* In lazy mode a block with nothing in it is not inserted, but signalled.  The
\* memory pool is not part of this module: it may be empty at any time.
SkipEmpty ==
  /\ At("mine", "signals")
  /\ \/ /\ contents.proposer = [refs |-> {}, txs |-> {}]
        /\ context_update_chan' = context_update_chan \cup {NewProposerBlock}
     \/ \E c \in Chain :
          /\ contents.voter[c].votes = <<>>
          /\ context_update_chan' = context_update_chan \cup {NewVoterBlock(c)}
     \/ context_update_chan' = context_update_chan \cup {NewTransactionBlock}
  /\ UNCHANGED <<bcVars, unsent, roundVars, parent, contents, content_merkle_tree, mined>>

Mine(signal) ==
  /\ At("mine", "insert")
  /\ mined' = signal
  /\ UNCHANGED <<signalVars, roundVars, parent, contents, content_merkle_tree>>

MineProposer ==
  \E h \in ProposerHash :
    /\ Mine(NewProposerBlock)
    /\ FreshProposer(h)
    /\ MarkUnreferredProposer(miner,
         [hash |-> h, parent |-> parent, refs |-> SetToSeq(contents.proposer.refs),
          txs |-> SetToSeq(contents.proposer.txs)])

MineVoter ==
  \E h \in VoterHash \ DOMAIN voter_node, c \in Chain :
    /\ Mine(NewVoterBlock(c))
    /\ CommitVoter(miner, h, contents.voter[c].parent, parent, contents.voter[c].votes)

MineTransaction == Mine(NewTransactionBlock) /\ InsertTransaction(miner)

\* The rest of insert_block, and the signal.
InsertMined ==
  /\ mpc = "insert" /\ pc[miner] # "idle"
  /\ \/ MarkUnconfirmed(miner) \/ CommitProposer(miner)
     \/ UnreferProposers(miner) \/ UnreferTransactions(miner)
     \/ UpdateVoterBest(miner) \/ CommitTransaction(miner)
  /\ UNCHANGED <<signalVars, minerVars>>

SignalMined ==
  /\ At("insert", "signals") /\ pc[miner] = "idle"
  /\ context_update_chan' = context_update_chan \cup {mined}
  /\ mined' = <<>>
  /\ UNCHANGED <<bcVars, unsent, roundVars, parent, contents, content_merkle_tree>>

miner_loop ==
  \/ HandleSignals \/ AppendTransactionRefs \/ UpdateBestProposer
  \/ RefreshTransactionRefs \/ RefreshProposerRefs \/ CheckBest \/ UpdateVotes
  \/ NoLuck \/ SkipEmpty \/ MineProposer \/ MineVoter \/ MineTransaction
  \/ InsertMined \/ SignalMined

-----------------------------------------------------------------------------
(* The network workers: they insert blocks, and send the signals later.    *)

\* No signal for voter blocks.
SignalForNoVoter(t) == CASE pc[t] = "tx_commit" -> {NewTransactionBlock}
                         [] pc[t] = "unrefer_transactions" -> {NewProposerBlock}
                         [] OTHER -> {}
SignalFor(t) == CASE pc[t] = "voter_best" -> {NewVoterBlock(block[t].chain)}
                  [] pc[t] = "tx_commit" -> {NewTransactionBlock}
                  [] pc[t] = "unrefer_transactions" -> {NewProposerBlock}
                  [] OTHER -> {}

Insert(t) ==
  /\ insert_block(t)
  /\ unsent' = [unsent EXCEPT ![t] = @ \cup SignalFor(t)]
  /\ UNCHANGED <<context_update_chan, minerVars>>

SendSignals(t) ==
  /\ pc[t] = "idle" /\ unsent[t] # {}
  /\ context_update_chan' = context_update_chan \cup unsent[t]
  /\ unsent' = [unsent EXCEPT ![t] = {}]
  /\ UNCHANGED <<bcVars, minerVars>>

MinerNext == miner_loop \/ \E t \in Thread \ {miner} : Insert(t) \/ SendSignals(t)

MinerSpec == MinerInit /\ [][MinerNext]_vars

-----------------------------------------------------------------------------
(* Properties.                                                             *)

Mining == mpc = "mine"

\* Every voter block that the miner may mine passes check_levels_voted at the other
\* nodes: its parent is not behind what its voter parent has voted for, and it votes
\* for each level in between.
MinedVotesValid ==
  Mining => \A c \in Chain :
    LET v == contents.voter[c]
    IN  /\ voter_node[v.parent].voted_level <= proposer_node[parent].level
        /\ v.votes \in VoteLists(v.parent, parent)

\* No signal is lost: when no insertion is under way and all signals are handled,
\* the miner mines on the best blocks, votes as the vote counts say, refers to all
\* unreferred proposer blocks, and to all transaction blocks that the quota allows.
Quiet == /\ context_update_chan = {}
         /\ \A t \in Thread : pc[t] = "idle" /\ unsent[t] = {}

MinerUpToDate ==
  Mining /\ Quiet =>
    /\ parent = best_proposer
    /\ contents.proposer.refs = unreferred_proposers \ {parent}
    /\ contents.proposer.txs \in TransactionRefs
    /\ \A c \in Chain : contents.voter[c] =
         [parent |-> voter_best[c].hash, votes |-> unvoted_proposer(voter_best[c].hash, parent)]

\* "Pretty much the only race condition that we still have" is that references may
\* be to blocks that are referred to already: a proposer block that the miner may
\* mine refers to committed blocks, none of them deeper than its parent.
MinedRefsValid ==
  Mining => \A h \in contents.proposer.refs :
    h \in DOMAIN proposer_node /\ proposer_node[h].level <= proposer_node[parent].level

\* The Merkle tree is updated "according to what we did in the last stage": the
\* content of whatever the miner may mine is the one in the tree, so that its
\* sortition proof is right.
MinedProofValid == Mining => content_merkle_tree = contents
=============================================================================
