----------------------------- MODULE BlockChain -----------------------------
(***************************************************************************)
(* The block store of a node (blockchain/mod.rs): the RocksDB column       *)
(* families that record the proposer tree, the voter chains and the        *)
(* transaction blocks, the in-memory fields kept beside them, and          *)
(* insert_block, which several threads (the network workers and the miner) *)
(* run at the same time.                                                   *)
(*                                                                         *)
(* Column families that one write batch fills under the same key are one   *)
(* record here, and a key that is absent from a column family is a value   *)
(* outside the DOMAIN of the corresponding function.  A step is one        *)
(* critical section (one Mutex) or one write batch of insert_block; what a *)
(* step reads without a lock never changes once it is written.             *)
(***************************************************************************)
EXTENDS Config, Sequences, FiniteSets, Functions

CONSTANTS
  Thread,            \* threads that call insert_block
  ProposerHash,      \* hashes that proposer blocks may get, ordered like H256
  VoterHash,         \* hashes that voter blocks may get
  TransactionHash,   \* hashes that transaction blocks may get
  MaxRefs            \* bound on the references of each kind in a proposer block

VARIABLES
  proposer_node,           \* committed proposer block -> [level, refs, txs]
  proposer_tree_level,     \* level -> its proposer blocks, in commit order
  voter_node,              \* committed voter block ->
                           \*   [chain, level, parent, votes, voted_level]
  transaction_node,        \* committed transaction blocks (PARENT_NEIGHBOR)
  proposer_best_level,
  voter_best,              \* chain -> [hash, level]
  unreferred_proposers,
  unreferred_transactions,
  unconfirmed_proposers,
  pc,                      \* thread -> where it is in insert_block
  block                    \* thread -> the block it is inserting

dbVars == <<proposer_node, proposer_tree_level, voter_node, transaction_node>>
bestVars == <<proposer_best_level, voter_best>>
unreferredVars == <<unreferred_proposers, unreferred_transactions>>
bcVars == <<dbVars, bestVars, unreferredVars, unconfirmed_proposers, pc, block>>

Chain == 0 .. voter_chains - 1

proposer_genesis == 0
voter_genesis(c) == -1 - c

ASSUME RefsAssumption == MaxRefs \in Nat
ASSUME HashAssumption ==
  /\ ProposerHash \subseteq Nat \ {0}
  /\ \A c \in Chain : voter_genesis(c) \notin VoterHash

Proposer == ProposerHash \cup {proposer_genesis}
Voter == VoterHash \cup {voter_genesis(c) : c \in Chain}

-----------------------------------------------------------------------------
(* The blocks that can reach insert_block: everything they point to is     *)
(* committed (check_data_availability) and their content is well formed    *)
(* (check_content_semantic).                                               *)

\* f with the entry k set to v, whether or not f has that key (a RocksDB put).
Put(f, k, v) == [x \in DOMAIN f \cup {k} |-> IF x = k THEN v ELSE f[x]]

\* Lists of distinct elements of S, at most MaxRefs of them.
RefLists(S) ==
  {s \in UNION {[1 .. n -> S] : n \in 0 .. MaxRefs} : IsInjective(s)}

\* check_ref_proposer_level: no reference is deeper than the parent.
ProposerRefs(parent) ==
  RefLists({r \in DOMAIN proposer_node :
              proposer_node[r].level <= proposer_node[parent].level})

\* check_levels_voted: one vote for each level after the one the voter parent
\* has voted for, up to the level of the proposer parent, in order.
VoteLists(vparent, parent) ==
  LET start == voter_node[vparent].voted_level
      end   == proposer_node[parent].level
  IN  {v \in [1 .. end - start -> DOMAIN proposer_node] :
         \A i \in 1 .. end - start : proposer_node[v[i]].level = start + i}

Inserting(stages) == {t \in Thread : pc[t] \in stages}

\* A hash belongs to one block, and a block is inserted once: the network
\* worker's recent_blocks and blockdb checks, and a fresh hash for the miner.
FreshProposerUncommitted(h) == h \notin DOMAIN proposer_node
FreshProposer(h) ==
  /\ h \notin DOMAIN proposer_node
  /\ \A t \in Inserting({"unconfirmed", "commit"}) : block[t].hash # h
FreshTransaction(h) ==
  /\ h \notin transaction_node
  /\ \A t \in Inserting({"tx_commit"}) : block[t].hash # h

-----------------------------------------------------------------------------
(* BlockChain::new: a new database that holds the genesis blocks.          *)

NoBlock == [hash |-> proposer_genesis]

Init ==
  /\ proposer_node =
       [h \in {proposer_genesis} |-> [level |-> 0, refs |-> <<>>, txs |-> <<>>]]
  /\ proposer_tree_level = [l \in {0} |-> <<proposer_genesis>>]
  /\ voter_node =
       [h \in {voter_genesis(c) : c \in Chain} |->
          [chain |-> -1 - h, level |-> 0, parent |-> h,
           votes |-> <<proposer_genesis>>, voted_level |-> 0]]
  /\ transaction_node = {}
  /\ proposer_best_level = 0
  /\ voter_best = [c \in Chain |-> [hash |-> voter_genesis(c), level |-> 0]]
  /\ unreferred_proposers = {proposer_genesis}
  /\ unreferred_transactions = {}
  /\ unconfirmed_proposers = {}
  /\ pc = [t \in Thread |-> "idle"]
  /\ block = [t \in Thread |-> NoBlock]

Goto(t, stage) == pc' = [pc EXCEPT ![t] = stage]

\* The order of the sections of insert_block for a proposer block.
AfterCommitFirst ==
  [start |-> "commit", commit |-> "unconfirmed", unconfirmed |-> "unrefer_proposers"]
After ==
  [start |-> "unconfirmed", unconfirmed |-> "commit", commit |-> "unrefer_proposers"]

Return(t) == /\ Goto(t, "idle")
             /\ block' = [block EXCEPT ![t] = NoBlock]

-----------------------------------------------------------------------------
(* insert_block of a proposer block.                                       *)

\* The block marks itself as unreferred before it is committed.
MarkUnreferredProposer(t, b) ==
  /\ pc[t] = "idle"
  /\ unreferred_proposers' = unreferred_proposers \cup {b.hash}
  /\ block' = [block EXCEPT ![t] = b]
  /\ Goto(t, After.start)
  /\ UNCHANGED <<dbVars, bestVars, unreferred_transactions,
                 unconfirmed_proposers>>

InsertProposer(t) ==
  \E h \in ProposerHash, p \in DOMAIN proposer_node :
    /\ FreshProposer(h)
    /\ \E r \in ProposerRefs(p), x \in RefLists(transaction_node) :
         MarkUnreferredProposer(t, [hash |-> h, parent |-> p, refs |-> r, txs |-> x])

\* It marks itself as unconfirmed, also before it is committed.
MarkUnconfirmed(t) ==
  /\ pc[t] = "unconfirmed"
  /\ unconfirmed_proposers' = unconfirmed_proposers \cup {block[t].hash}
  /\ Goto(t, After.unconfirmed)
  /\ UNCHANGED <<dbVars, bestVars, unreferredVars, block>>

\* h256_vec_append_merge on the level's list of proposer blocks.
AppendHash(tree, level, h) ==
  LET existing == IF level \in DOMAIN tree THEN tree[level] ELSE <<>>
  IN  Put(tree, level,
          IF h \in Range(existing) THEN existing ELSE Append(existing, h))

\* The best level never goes back.
BestLevelLast(level, best) == level
BestLevel(level, best) == IF level > best THEN level ELSE best

\* The write batch and the best level, under the lock of proposer_best_level.
\* The parent is the first reference of the block.
CommitProposer(t) ==
  LET b     == block[t]
      level == proposer_node[b.parent].level + 1
  IN  /\ pc[t] = "commit"
      /\ proposer_node' =
           Put(proposer_node, b.hash,
               [level |-> level, refs |-> <<b.parent>> \o b.refs, txs |-> b.txs])
      /\ proposer_tree_level' = AppendHash(proposer_tree_level, level, b.hash)
      /\ proposer_best_level' = BestLevel(level, proposer_best_level)
      /\ Goto(t, After.commit)
      /\ UNCHANGED <<voter_node, transaction_node, voter_best, unreferredVars,
                     unconfirmed_proposers, block>>

\* What a proposer block takes out of unreferred_proposers.
ReferredKeepParent(b) == Range(b.refs)
Referred(b) == Range(b.refs) \cup {b.parent}

\* The references stop being unreferred once the block is committed.
UnreferProposers(t) ==
  /\ pc[t] = "unrefer_proposers"
  /\ unreferred_proposers' = unreferred_proposers \ Referred(block[t])
  /\ Goto(t, "unrefer_transactions")
  /\ UNCHANGED <<dbVars, bestVars, unreferred_transactions,
                 unconfirmed_proposers, block>>

UnreferTransactionsSkip(t) ==
  /\ pc[t] = "unrefer_transactions"
  /\ Return(t)
  /\ UNCHANGED <<dbVars, bestVars, unreferredVars, unconfirmed_proposers>>
UnreferTransactions(t) ==
  /\ pc[t] = "unrefer_transactions"
  /\ unreferred_transactions' = unreferred_transactions \ Range(block[t].txs)
  /\ Return(t)
  /\ UNCHANGED <<dbVars, bestVars, unreferred_proposers, unconfirmed_proposers>>

-----------------------------------------------------------------------------
(* insert_block of a voter block: one write batch, then voter_best.        *)

CommitVoter(t, h, vparent, parent, votes) ==
  LET chain == voter_node[vparent].chain
      level == voter_node[vparent].level + 1
  IN  /\ pc[t] = "idle"
      /\ voter_node' =
           Put(voter_node, h,
               [chain |-> chain, level |-> level, parent |-> vparent,
                votes |-> votes, voted_level |-> proposer_node[parent].level])
      /\ block' = [block EXCEPT ![t] = [hash |-> h, chain |-> chain, level |-> level]]
      /\ Goto(t, "voter_best")
      /\ UNCHANGED <<proposer_node, proposer_tree_level, transaction_node,
                     bestVars, unreferredVars, unconfirmed_proposers>>

InsertVoter(t) ==
  \E h \in VoterHash \ DOMAIN voter_node, vp \in DOMAIN voter_node,
     p \in DOMAIN proposer_node :
    /\ voter_node[vp].voted_level <= proposer_node[p].level
    /\ \E v \in VoteLists(vp, p) : CommitVoter(t, h, vp, p, v)

\* The best block of the chain, announced after the write; a tie keeps it.
BetterAlways(b, best) == [hash |-> b.hash, level |-> b.level]
Better(b, best) ==
  IF b.level > best.level THEN [hash |-> b.hash, level |-> b.level] ELSE best

UpdateVoterBest(t) ==
  /\ pc[t] = "voter_best"
  /\ voter_best' = [voter_best EXCEPT ![block[t].chain] = Better(block[t], @)]
  /\ Return(t)
  /\ UNCHANGED <<dbVars, proposer_best_level, unreferredVars,
                 unconfirmed_proposers>>

-----------------------------------------------------------------------------
(* insert_block of a transaction block.                                    *)

InsertTransaction(t) ==
  \E h \in TransactionHash :
    /\ pc[t] = "idle"
    /\ FreshTransaction(h)
    /\ unreferred_transactions' = unreferred_transactions \cup {h}
    /\ block' = [block EXCEPT ![t] = [hash |-> h]]
    /\ Goto(t, "tx_commit")
    /\ UNCHANGED <<dbVars, bestVars, unreferred_proposers, unconfirmed_proposers>>

CommitTransaction(t) ==
  /\ pc[t] = "tx_commit"
  /\ transaction_node' = transaction_node \cup {block[t].hash}
  /\ Return(t)
  /\ UNCHANGED <<proposer_node, proposer_tree_level, voter_node, bestVars,
                 unreferredVars, unconfirmed_proposers>>

-----------------------------------------------------------------------------
insert_block(t) ==
  \/ InsertProposer(t)
  \/ MarkUnconfirmed(t)
  \/ CommitProposer(t)
  \/ UnreferProposers(t)
  \/ UnreferTransactions(t)
  \/ InsertVoter(t)
  \/ UpdateVoterBest(t)
  \/ InsertTransaction(t)
  \/ CommitTransaction(t)

Next == \E t \in Thread : insert_block(t)

Spec == Init /\ [][Next]_bcVars

-----------------------------------------------------------------------------
(* Properties.                                                             *)

ProposerRecord == [level : Nat, refs : Seq(Proposer), txs : Seq(TransactionHash)]
VoterRecord == [chain : Chain, level : Nat, parent : Voter,
                votes : Seq(Proposer), voted_level : Nat]

ProposerBlock == [hash : ProposerHash, parent : Proposer,
                  refs : Seq(Proposer), txs : Seq(TransactionHash)]

\* The stages of a proposer block before and after its commit.
Uncommitted == {"unconfirmed", "commit"}
Committed == {"unrefer_proposers", "unrefer_transactions"}

\* The type invariant: what the column families, the in-memory fields and the
\* threads hold.
TypeOK ==
  /\ DOMAIN proposer_node \subseteq Proposer
  /\ proposer_node \in [DOMAIN proposer_node -> ProposerRecord]
  /\ DOMAIN proposer_tree_level \subseteq Nat
  /\ proposer_tree_level \in [DOMAIN proposer_tree_level -> Seq(Proposer)]
  /\ DOMAIN voter_node \subseteq Voter
  /\ voter_node \in [DOMAIN voter_node -> VoterRecord]
  /\ transaction_node \subseteq TransactionHash
  /\ proposer_best_level \in Nat
  /\ voter_best \in [Chain -> [hash : Voter, level : Nat]]
  /\ unreferred_proposers \subseteq Proposer
  /\ unreferred_transactions \subseteq TransactionHash
  /\ unconfirmed_proposers \subseteq ProposerHash
  /\ pc \in [Thread -> {"idle", "voter_best", "tx_commit"} \cup Uncommitted \cup Committed]
  /\ DOMAIN block = Thread
  /\ \A t \in Thread :
       /\ pc[t] \in Uncommitted \cup Committed => block[t] \in ProposerBlock
       /\ pc[t] = "voter_best" => block[t] \in [hash : VoterHash, chain : Chain, level : Nat]
       /\ pc[t] = "tx_commit" => block[t] \in [hash : TransactionHash]

InFlight(stages) == {block[t].hash : t \in Inserting(stages)}

\* What a block points to is committed, and every listed level has a block.
StoreClosed ==
  /\ \A q \in DOMAIN proposer_node :
       /\ Range(proposer_node[q].refs) \subseteq DOMAIN proposer_node
       /\ Range(proposer_node[q].txs) \subseteq transaction_node
  /\ \A l \in DOMAIN proposer_tree_level :
       \E i \in DOMAIN proposer_tree_level[l] :
         /\ proposer_tree_level[l][i] \in DOMAIN proposer_node
         /\ proposer_node[proposer_tree_level[l][i]].level = l

\* What a thread holds agrees with what is committed.
Agrees(t) ==
  /\ pc[t] \in Uncommitted =>
       /\ block[t].hash \notin DOMAIN proposer_node
       /\ Referred(block[t]) \subseteq DOMAIN proposer_node
       /\ Range(block[t].txs) \subseteq transaction_node
  /\ pc[t] \in Committed =>
       /\ block[t].hash \in DOMAIN proposer_node
       /\ proposer_node[block[t].hash].refs = <<block[t].parent>> \o block[t].refs
       /\ proposer_node[block[t].hash].txs = block[t].txs
  /\ pc[t] = "tx_commit" => block[t].hash \notin transaction_node
  /\ pc[t] = "voter_best" =>
       /\ block[t].hash \in DOMAIN voter_node
       /\ voter_node[block[t].hash].chain = block[t].chain
       /\ voter_node[block[t].hash].level = block[t].level

InsertionsAgree == \A t \in Thread : Agrees(t)

\* Two threads never insert the same block.
InsertionsDistinct ==
  \A t, u \in Thread :
    /\ t # u
    /\ \/ {pc[t], pc[u]} \subseteq Uncommitted \cup Committed
       \/ pc[t] = "tx_commit" /\ pc[u] = "tx_commit"
       \/ pc[t] = "voter_best" /\ pc[u] = "voter_best"
    => block[t].hash # block[u].hash

\* The store is closed: what a block points to was committed before it, also
\* while the block is only on its way, and every level that insert_block lists
\* has a block of that level.  Two threads never insert the same block, and a
\* thread that has committed its block still holds the references it wrote.
StoreConsistent == StoreClosed /\ InsertionsAgree /\ InsertionsDistinct

\* However the insertions interleave, unreferred_proposers holds exactly the
\* proposer blocks (the committed ones and those about to be) that no other
\* block refers to as its parent or as a reference, where a block counts once
\* its insertion has removed its references: no block is forgotten, so the miner
\* will refer to it, and none stays after it was referred to.
UnreferredProposersExact ==
  unreferred_proposers =
    (DOMAIN proposer_node \cup InFlight(Uncommitted))
      \ UNION {Range(proposer_node[q].refs) :
                 q \in DOMAIN proposer_node \ InFlight({"unrefer_proposers"})}

\* The same of unreferred_transactions and the transaction references.
UnreferredTransactionsExact ==
  unreferred_transactions =
    (transaction_node \cup InFlight({"tx_commit"}))
      \ UNION {Range(proposer_node[q].txs) :
                 q \in DOMAIN proposer_node
                        \ InFlight(Committed)}

\* proposer_best_level is at every moment the deepest committed level, so a block
\* that others may depend on is always one the miner can see, and best_proposer
\* finds a block there (its unwrap and its blocks[0]).
ProposerBestIsDeepest ==
  /\ \A h \in DOMAIN proposer_node : proposer_node[h].level <= proposer_best_level
  /\ proposer_best_level \in DOMAIN proposer_tree_level
  /\ \E i \in DOMAIN proposer_tree_level[proposer_best_level] :
       proposer_node[proposer_tree_level[proposer_best_level][i]].level
         = proposer_best_level

\* voter_best names a committed block of its chain, and no committed block of the
\* chain is longer except one whose insertion has yet to announce itself: two
\* concurrent insertions never leave the shorter block as the best.
VoterBestIsLongest ==
  /\ \A c \in Chain :
       /\ voter_best[c].hash \in DOMAIN voter_node
       /\ voter_node[voter_best[c].hash].chain = c
       /\ voter_node[voter_best[c].hash].level = voter_best[c].level
  /\ \A h \in DOMAIN voter_node \ InFlight({"voter_best"}) :
       voter_node[h].level <= voter_best[voter_node[h].chain].level
=============================================================================
