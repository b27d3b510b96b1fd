----------------------------- MODULE BlockProof -----------------------------
(***************************************************************************)
(* A miner and a validator of the sortition of blocks.  The miner commits  *)
(* in a Merkle tree to the contents of a block of every kind, refreshes    *)
(* contents one by one, and the hash of the header then decides which of   *)
(* them is the block; the block carries the Merkle proof of its content    *)
(* (miner_loop and produce_block).  A validator sees the block only        *)
(* (check_pow_sortition_id and check_sortition_proof of validation/mod.rs).*)
(***************************************************************************)
EXTENDS Sortition, Merkle

CONSTANTS
  Configs,     \* configurations: [voter_chains, proposer_rate, voter_rate, tx_rate]
  Difficulty,  \* difficulties of headers
  Version      \* what the content of a kind of block can be

\* Voter blocks are mined at least as often as proposer blocks, and the rates are
\* not so small that rounding up exceeds the precision.
ASSUME RatesAssumption ==
  \A c \in Configs :
    /\ c.voter_chains > 0
    /\ c.proposer_rate <= c.voter_rate * c.voter_chains
    /\ (c.voter_chains + 1) * (c.proposer_rate + c.voter_rate * c.voter_chains + c.tx_rate)
         <= c.tx_rate * SORTITION_PRECISION

ASSUME DifficultyAssumption == Difficulty \subseteq 0 .. MaxHash

VARIABLES
  config,              \* the configuration
  difficulty,          \* of the header
  contents,            \* the contents, the one of sortition id k at k + 1
  content_merkle_tree,
  mined                \* the block that was mined since the last refresh, if any
proofVars == <<config, difficulty, contents, content_merkle_tree, mined>>

ContentOf(id, version) == [id |-> id, version |-> version]

ProofInit ==
  /\ \E c \in Configs :
       config = BlockchainConfig(c.voter_chains, c.proposer_rate, c.voter_rate, c.tx_rate)
  /\ difficulty \in Difficulty
  /\ \E v \in Version :
       contents = [k \in 1 .. config.voter_chains + FIRST_VOTER_INDEX |-> ContentOf(k - 1, v)]
  /\ content_merkle_tree = new(contents)
  /\ mined = {}

\* A content changes, and its leaf with it.
UpdateContent ==
  \E id \in 0 .. Len(contents) - 1, v \in Version :
    /\ contents' = [contents EXCEPT ![id + 1] = ContentOf(id, v)]
    /\ content_merkle_tree' = update(content_merkle_tree, id, contents'[id + 1])
    /\ mined' = {}
    /\ UNCHANGED <<config, difficulty>>

\* All contents change, and the tree is built anew.
RebuildTree ==
  \E v \in Version :
    /\ contents' = [k \in DOMAIN contents |-> ContentOf(k - 1, v)]
    /\ content_merkle_tree' = new(contents')
    /\ mined' = {}
    /\ UNCHANGED <<config, difficulty>>

produce_block(hash) ==
  LET sortition_id == sortition_hash(config, hash, difficulty)
  IN  [hash                |-> hash,
       content_merkle_root |-> root(content_merkle_tree),
       content             |-> contents[sortition_id + 1],
       sortition_proof     |-> proof(content_merkle_tree, sortition_id)]

\* A nonce is found: a header hash below the difficulty (for one block between two
\* refreshes of the contents, as a bound).
MineBlock ==
  \E hash \in 0 .. MaxHash :
    /\ mined = {}
    /\ hash < difficulty
    /\ mined' = {produce_block(hash)}
    /\ UNCHANGED <<config, difficulty, contents, content_merkle_tree>>

ProofNext == UpdateContent \/ RebuildTree \/ MineBlock
ProofSpec == ProofInit /\ [][ProofNext]_proofVars

-----------------------------------------------------------------------------
(* The validator.                                                          *)

check_pow_sortition_id(block) ==
  LET sortition_id == sortition_hash(config, block.hash, difficulty)
  IN  IF sortition_id = NoId THEN "WrongPoW"
      ELSE IF sortition_id # block.content.id THEN "WrongSortitionId" ELSE "Pass"

check_sortition_proof(block) ==
  IF verify(block.content_merkle_root, block.content, block.sortition_proof,
            sortition_hash(config, block.hash, difficulty),
            config.voter_chains + FIRST_VOTER_INDEX)
  THEN "Pass" ELSE "WrongSortitionProof"

-----------------------------------------------------------------------------
(* Properties.                                                             *)

\* After any series of updates of single leaves, with their copies in layers of odd
\* size, the tree is the one that MerkleTree::new builds from the contents.
UpdateIsRebuild == content_merkle_tree = new(contents)

\* Whatever the header hash and however the tree came about, produce_block finds a
\* content for the sortition id, and the block passes both checks of a validator.
MinedBlockPasses ==
  \A block \in mined :
    check_pow_sortition_id(block) = "Pass" /\ check_sortition_proof(block) = "Pass"

\* A header commits its miner to one content of each kind: no other content, and no
\* proof for another place of the tree, verifies under the same root at the place
\* that the hash decides, although nodes are repeated in layers of odd size.
ProofBindsContent ==
  \A block \in mined :
    \A id \in 0 .. Len(contents) - 1, other \in 0 .. Len(contents) - 1, v \in Version :
      LET content == ContentOf(id, v)
      IN  verify(block.content_merkle_root, content,
                 proof(content_merkle_tree, other), block.content.id, Len(contents))
            => content = block.content

\* With a difficulty of the full range of hashes every kind of block, of every voter
\* chain too, is mined for some hash, and the ends of the intervals are themselves
\* in the range, although the interval of transaction blocks counts the width of the
\* proposer blocks a second time.
EveryKindIsMined ==
  difficulty = MaxHash =>
    /\ Intervals(config, difficulty).voter <= MaxHash
    /\ {sortition_hash(config, hash, difficulty) : hash \in 0 .. MaxHash - 1}
         = 0 .. config.voter_chains + 1
=============================================================================
