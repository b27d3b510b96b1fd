---------------------------- MODULE MinerProofs -----------------------------
(***************************************************************************)
(* Proofs about Miner, for any threads, blocks and chains: the votes of    *)
(* what is mined are valid at the other nodes, and no signal is lost.      *)
(***************************************************************************)
EXTENDS Miner, Induction

-----------------------------------------------------------------------------
(* The invariants of the block store.  The miner inserts blocks without    *)
(* the checks that BlockChain's own invariants rest on, so these are       *)
(* weaker: they hold of the proposer parents, not of the references.       *)

\* The proposer tree: every level up to the best one has blocks, and they are of
\* that level.
TreeOK ==
  /\ proposer_best_level \in Nat
  /\ DOMAIN proposer_node \subseteq Nat
  /\ \A h \in DOMAIN proposer_node : proposer_node[h].level \in 0 .. proposer_best_level
  /\ DOMAIN proposer_tree_level = 0 .. proposer_best_level
  /\ \A l \in 0 .. proposer_best_level :
       /\ proposer_tree_level[l] \in Seq(DOMAIN proposer_node)
       /\ proposer_tree_level[l] # <<>>
       /\ \A i \in 1 .. Len(proposer_tree_level[l]) :
            proposer_node[proposer_tree_level[l][i]].level = l

\* The voter chains: finitely many blocks, which have not voted beyond the best
\* level, and voter_best names one of the chain.
ChainsOK ==
  /\ IsFiniteSet(DOMAIN voter_node)
  /\ \A v \in DOMAIN voter_node :
       /\ voter_node[v].chain \in Chain
       /\ voter_node[v].voted_level \in 0 .. proposer_best_level
  /\ DOMAIN voter_best = Chain
  /\ \A c \in Chain : /\ voter_best[c].hash \in DOMAIN voter_node
                      /\ voter_node[voter_best[c].hash].chain = c

\* What the threads insert.
ThreadsOK ==
  /\ DOMAIN pc = Thread /\ DOMAIN block = Thread
  /\ IsFiniteSet(unreferred_transactions)
  /\ \A t \in Thread :
       /\ pc[t] \in {"idle", "voter_best", "tx_commit"} \cup Uncommitted \cup Committed
       /\ pc[t] \in Uncommitted => /\ block[t].hash \in ProposerHash \ DOMAIN proposer_node
                                   /\ block[t].parent \in DOMAIN proposer_node
       /\ pc[t] = "voter_best" => /\ block[t].hash \in DOMAIN voter_node
                                  /\ block[t].chain \in Chain
                                  /\ voter_node[block[t].hash].chain = block[t].chain
  /\ \A t, u \in Thread : t # u /\ {pc[t], pc[u]} \subseteq Uncommitted =>
       block[t].hash # block[u].hash

StoreInv == TreeOK /\ ChainsOK /\ ThreadsOK

-----------------------------------------------------------------------------
(* The invariants of the miner.                                            *)

\* What the miner mines on is committed, and what it inserts is what it will signal.
ContentsOK ==
  /\ mpc \in {"signals", "best", "append_txs", "refresh_txs", "refresh_proposers",
              "check", "votes", "mine", "insert"}
  /\ new_proposer_block \in BOOLEAN
  /\ parent \in DOMAIN proposer_node
  /\ DOMAIN contents = {"proposer", "voter"}
  /\ DOMAIN contents.proposer = {"refs", "txs"}
  /\ \A c \in Chain :
       LET v == contents.voter[c]
       IN  /\ v = [parent |-> v.parent, votes |-> v.votes]
           /\ v.parent \in DOMAIN voter_node
           /\ voter_node[v.parent].chain = c
  /\ mpc # "insert" => pc[miner] = "idle" /\ mined = <<>>
  /\ mpc = "insert" =>
       /\ mined \in Signal
       /\ pc[miner] \in Uncommitted \cup Committed => mined = NewProposerBlock
       /\ pc[miner] = "tx_commit" => mined = NewTransactionBlock
       /\ pc[miner] = "voter_best" => mined = NewVoterBlock(block[miner].chain)

\* The vote of chain c is valid.
ValidVote(c) ==
  LET v == contents.voter[c]
  IN  /\ voter_node[v.parent].voted_level <= proposer_node[parent].level
      /\ v.votes \in VoteLists(v.parent, parent)

\* What makes MinedVotesValid inductive: a round of the miner that may change what a
\* vote depends on sets one of the flags that UpdateVotes looks at.
Between == {"best", "append_txs", "refresh_txs", "refresh_proposers", "check", "votes"}
VotesInv ==
  /\ mpc \in {"best", "refresh_txs", "refresh_proposers"} => new_proposer_block
  /\ mpc \notin Between \/ (~new_proposer_block /\ new_voter_block = {}) =>
       \A c \in Chain : ValidVote(c)
  /\ mpc = "votes" =>
       \A c \in Chain : voter_node[contents.voter[c].parent].voted_level <= proposer_node[parent].level

\* A signal is on its way: it waits for the miner or is not sent yet, or a block
\* is being inserted for which it will be sent.
Awaited(signal) ==
  \/ signal \in context_update_chan
  \/ \E t \in Thread : signal \in unsent[t]
  \/ mined = signal
ProposerAwaited ==
  Awaited(NewProposerBlock) \/ \E t \in Thread : pc[t] \in Uncommitted \cup Committed
TransactionAwaited ==
  Awaited(NewTransactionBlock) \/ \E t \in Thread : pc[t] = "tx_commit"
VoterAwaited(c) ==
  Awaited(NewVoterBlock(c)) \/ \E t \in Thread : pc[t] = "voter_best" /\ block[t].chain = c

VoteUpToDate(c) ==
  contents.voter[c].votes = unvoted_proposer(contents.voter[c].parent, parent)

\* What the miner has is up to date, or the signal is on its way for which it will
\* refresh it.
FreshParent == parent = best_proposer \/ ProposerAwaited
FreshRefs == contents.proposer.refs = unreferred_proposers \ {parent} \/ ProposerAwaited
FreshSubset == contents.proposer.txs \subseteq unreferred_transactions \/ ProposerAwaited
FreshAll == \/ contents.proposer.txs = unreferred_transactions
            \/ Cardinality(contents.proposer.txs) = proposer_tx_refs
            \/ ProposerAwaited \/ TransactionAwaited
FreshTip(c) == contents.voter[c].parent = voter_best[c].hash \/ VoterAwaited(c)
FreshVotes == \/ \A c \in Chain : VoteUpToDate(c)
              \/ ProposerAwaited \/ \E c \in Chain : VoterAwaited(c)

\* What makes MinerUpToDate inductive: all this holds of what the miner does not
\* refresh in this round.
FreshInv ==
  /\ mpc \in {"votes", "mine", "insert", "signals"} => FreshParent
  /\ mpc \notin {"best", "refresh_txs", "refresh_proposers"} => FreshRefs
  /\ mpc \notin {"best", "refresh_txs"} => FreshSubset
  /\ mpc \notin {"best", "refresh_txs", "append_txs"} => FreshAll
  /\ Cardinality(contents.proposer.txs) \in 0 .. proposer_tx_refs
  /\ \A c \in Chain : FreshTip(c)
  /\ \/ mpc \in Between /\ (new_proposer_block \/ new_voter_block # {})
     \/ FreshVotes

-----------------------------------------------------------------------------
(* Steps on the block store, of the miner and of the network workers.      *)

StartProposer(t, b) ==
  /\ MarkUnreferredProposer(t, b)
  /\ b.hash \in ProposerHash /\ FreshProposer(b.hash)
  /\ b.parent \in DOMAIN proposer_node

StartVoter(t) ==
  \E h \in VoterHash \ DOMAIN voter_node, vp \in DOMAIN voter_node,
     p \in DOMAIN proposer_node : \E votes : CommitVoter(t, h, vp, p, votes)

StoreStep(t) ==
  \/ \E b : StartProposer(t, b)
  \/ MarkUnconfirmed(t) \/ CommitProposer(t) \/ UnreferProposers(t) \/ UnreferTransactions(t)
  \/ StartVoter(t) \/ UpdateVoterBest(t)
  \/ InsertTransaction(t) \/ CommitTransaction(t)

\* An insertion of a network worker is one of these steps.
LEMMA InsertIsStep ==
  ASSUME NEW t \in Thread, Insert(t)
  PROVE  StoreStep(t)
  <1>1. CASE InsertProposer(t)
    <2>1. PICK h \in ProposerHash, p \in DOMAIN proposer_node :
            /\ FreshProposer(h)
            /\ \E r \in ProposerRefs(p), x \in RefLists(transaction_node) :
                 MarkUnreferredProposer(t, [hash |-> h, parent |-> p, refs |-> r, txs |-> x])
      BY <1>1 DEF InsertProposer
    <2>2. PICK r, x : MarkUnreferredProposer(t, [hash |-> h, parent |-> p, refs |-> r, txs |-> x])
      BY Zenon, <2>1
    <2> DEFINE b == [hash |-> h, parent |-> p, refs |-> r, txs |-> x]
    <2>3. b.hash = h /\ b.parent = p
      OBVIOUS
    <2> HIDE DEF b
    <2>4. StartProposer(t, b)
      BY <2>1, <2>2, <2>3 DEF StartProposer, b
    <2> QED
      BY <2>4 DEF StoreStep
  <1>2. CASE InsertVoter(t)
    BY <1>2 DEF InsertVoter, StartVoter, StoreStep
  <1> QED
    BY <1>1, <1>2 DEF Insert, insert_block, StoreStep

\* So is the first step of what the miner inserts.
LEMMA MineIsStep ==
  ASSUME ContentsOK, MineProposer \/ MineVoter \/ MineTransaction
  PROVE  StoreStep(miner)
  <1>1. CASE MineProposer
    <2>1. PICK h \in ProposerHash :
            /\ FreshProposer(h)
            /\ MarkUnreferredProposer(miner,
                 [hash |-> h, parent |-> parent, refs |-> SetToSeq(contents.proposer.refs),
                  txs |-> SetToSeq(contents.proposer.txs)])
      BY <1>1 DEF MineProposer
    <2> DEFINE b == [hash |-> h, parent |-> parent, refs |-> SetToSeq(contents.proposer.refs),
                     txs |-> SetToSeq(contents.proposer.txs)]
    <2>2. b.hash = h /\ b.parent = parent
      OBVIOUS
    <2> HIDE DEF b
    <2>3. StartProposer(miner, b)
      BY <2>1, <2>2 DEF StartProposer, ContentsOK, b
    <2> QED
      BY <2>3 DEF StoreStep
  <1>2. CASE MineVoter
    <2>1. PICK h \in VoterHash \ DOMAIN voter_node, c \in Chain :
            CommitVoter(miner, h, contents.voter[c].parent, parent, contents.voter[c].votes)
      BY <1>2 DEF MineVoter
    <2>2. contents.voter[c].parent \in DOMAIN voter_node /\ parent \in DOMAIN proposer_node
      BY ZenonT(30) DEF ContentsOK
    <2>3. StartVoter(miner)
      BY <2>1, <2>2 DEF StartVoter
    <2> QED
      BY <2>3 DEF StoreStep
  <1>3. CASE MineTransaction
    BY <1>3 DEF MineTransaction, StoreStep
  <1> QED
    BY <1>1, <1>2, <1>3

\* Every step on the block store is one of these.
LEMMA StoreSteps ==
  ASSUME StoreInv, ContentsOK, [MinerNext]_vars
  PROVE  (\E t \in Thread : StoreStep(t)) \/ UNCHANGED bcVars
  <1>m. miner \in Thread
    BY MinerAssumption
  <1>1. CASE MineProposer \/ MineVoter \/ MineTransaction
    BY <1>1, <1>m, MineIsStep
  <1>3. CASE InsertMined
    BY <1>3, <1>m DEF InsertMined, StoreStep
  <1>4. \A t \in Thread : Insert(t) => StoreStep(t)
    BY SMTT(30), InsertIsStep
  <1>5. CASE HandleSignals \/ AppendTransactionRefs \/ UpdateBestProposer
             \/ RefreshTransactionRefs \/ RefreshProposerRefs \/ CheckBest \/ UpdateVotes
             \/ NoLuck \/ SkipEmpty \/ SignalMined
    BY <1>5 DEF HandleSignals, AppendTransactionRefs, UpdateBestProposer,
                RefreshTransactionRefs, RefreshProposerRefs, CheckBest, UpdateVotes,
                NoLuck, SkipEmpty, SignalMined
  <1>6. CASE \E t \in Thread : SendSignals(t)
    BY <1>6 DEF SendSignals
  <1>7. CASE UNCHANGED vars
    BY <1>7 DEF vars
  <1> QED
    BY <1>1, <1>3, <1>4, <1>5, <1>6, <1>7 DEF MinerNext, miner_loop

\* A block that is committed stays as it is, and the best level does not go back.
Grows ==
  /\ \A h \in DOMAIN proposer_node :
       h \in DOMAIN proposer_node' /\ proposer_node'[h] = proposer_node[h]
  /\ \A v \in DOMAIN voter_node :
       v \in DOMAIN voter_node' /\ voter_node'[v] = voter_node[v]
  /\ proposer_best_level <= proposer_best_level'

\* A proposer block is committed to a level that is there or is the next one.
LEMMA CommitGrows ==
  ASSUME StoreInv, NEW t \in Thread, CommitProposer(t)
  PROVE  TreeOK' /\ Grows /\ UNCHANGED <<voter_node, voter_best>>
         /\ DOMAIN proposer_node' = DOMAIN proposer_node \cup {block[t].hash}
  <1> DEFINE b == block[t]
             h == b.hash
             l == proposer_node[b.parent].level + 1
             best == proposer_best_level
             old == IF l \in DOMAIN proposer_tree_level THEN proposer_tree_level[l] ELSE <<>>
             new == IF h \in Range(old) THEN old ELSE Append(old, h)
  <1>1. /\ pc[t] = "commit"
        /\ proposer_node' =
             Put(proposer_node, h, [level |-> l, refs |-> <<b.parent>> \o b.refs, txs |-> b.txs])
        /\ proposer_tree_level' = Put(proposer_tree_level, l, new)
        /\ best' = BestLevel(l, best)
        /\ UNCHANGED <<voter_node, voter_best>>
    BY DEF CommitProposer, AppendHash
  <1>2. /\ h \in ProposerHash \ DOMAIN proposer_node /\ b.parent \in DOMAIN proposer_node
        /\ h \in Nat
    BY Zenon, <1>1, HashAssumption DEF StoreInv, ThreadsOK, Uncommitted
  <1>0. /\ proposer_best_level \in Nat
        /\ DOMAIN proposer_tree_level = 0 .. proposer_best_level
        /\ \A g \in DOMAIN proposer_node : proposer_node[g].level \in 0 .. proposer_best_level
        /\ \A k \in 0 .. proposer_best_level :
             /\ proposer_tree_level[k] \in Seq(DOMAIN proposer_node)
             /\ proposer_tree_level[k] # <<>>
             /\ \A i \in 1 .. Len(proposer_tree_level[k]) :
                  proposer_node[proposer_tree_level[k][i]].level = k
    BY DEF StoreInv, TreeOK
  <1>3. best \in Nat /\ l \in 1 .. best + 1
    <2>1. proposer_node[b.parent].level \in 0 .. best
      BY <1>0, <1>2
    <2> QED
      BY SMTT(30), <1>0, <2>1
  <1>4. /\ DOMAIN proposer_node' = DOMAIN proposer_node \cup {h}
        /\ proposer_node'[h].level = l
        /\ \A g \in DOMAIN proposer_node : proposer_node'[g] = proposer_node[g]
    BY ZenonT(30), <1>1, <1>2 DEF Put
  <1>5. best' \in Nat /\ best <= best' /\ best' = IF l = best + 1 THEN best + 1 ELSE best
    <2>1. best' = IF l > best THEN l ELSE best
      BY Zenon, <1>1 DEF BestLevel
    <2>2. \A k \in 1 .. best + 1 : (k > best => k = best + 1) /\ (~(k > best) => k # best + 1)
      BY <1>3
    <2> HIDE DEF l
    <2> QED
      BY SMTT(30), <1>3, <2>1, <2>2
  <1>6. /\ DOMAIN proposer_tree_level' = DOMAIN proposer_tree_level \cup {l}
        /\ proposer_tree_level'[l] = new
        /\ \A k \in DOMAIN proposer_tree_level : k # l => proposer_tree_level'[k] = proposer_tree_level[k]
    BY Zenon, <1>1 DEF Put
  <1> HIDE DEF l, h
  <1>7. old \in Seq(DOMAIN proposer_node) /\ \A i \in 1 .. Len(old) : proposer_node[old[i]].level = l
    <2>1. CASE l \in DOMAIN proposer_tree_level
      BY <2>1, <1>0
    <2>2. CASE l \notin DOMAIN proposer_tree_level
      <3>1. old = <<>>
        BY <2>2
      <3>2. <<>> \in Seq(DOMAIN proposer_node) /\ Len(<<>>) = 0
        OBVIOUS
      <3> HIDE DEF old
      <3> QED
        BY <3>1, <3>2
    <2> QED
      BY <2>1, <2>2
  <1> HIDE DEF old
  <1>8. h \notin Range(old)
    BY <1>2, <1>7 DEF Range
  <1>9. new = Append(old, h)
    BY <1>8
  <1>10. old \in Seq(DOMAIN proposer_node')
    BY <1>4, <1>7
  <1>11. /\ new \in Seq(DOMAIN proposer_node') /\ new # <<>>
         /\ \A i \in 1 .. Len(new) : proposer_node'[new[i]].level = l
    <2>1. h \in DOMAIN proposer_node'
      BY <1>4
    <2>2. /\ new \in Seq(DOMAIN proposer_node') /\ Len(new) = Len(old) + 1 /\ new # <<>>
          /\ Len(old) \in Nat /\ new[Len(old) + 1] = h /\ \A i \in 1 .. Len(old) : new[i] = old[i]
      <3> HIDE DEF new
      <3>1. PICK D : D = DOMAIN proposer_node'
        OBVIOUS
      <3>2. old \in Seq(D) /\ h \in D
        BY <3>1, <2>1, <1>10
      <3>3. /\ new \in Seq(D) /\ Len(new) = Len(old) + 1 /\ new # <<>>
            /\ Len(old) \in Nat /\ new[Len(old) + 1] = h /\ \A i \in 1 .. Len(old) : new[i] = old[i]
        BY <3>2, <1>9
      <3> QED
        BY <3>1, <3>3
    <2>3. \A i \in 1 .. Len(old) : old[i] \in DOMAIN proposer_node
      BY <1>7
    <2> HIDE DEF new
    <2>4. ASSUME NEW i \in 1 .. Len(new) PROVE proposer_node'[new[i]].level = l
      <3>1. CASE i \in 1 .. Len(old)
        BY <3>1, <2>2, <2>3, <1>4, <1>7
      <3>2. CASE i = Len(old) + 1
        BY <3>2, <2>2, <1>4
      <3> QED
        BY <3>1, <3>2, <2>2
    <2> QED
      BY <2>2, <2>4
  <1> HIDE DEF new
  <1>12. DOMAIN proposer_tree_level' = 0 .. best'
    BY <1>3, <1>5, <1>6 DEF StoreInv, TreeOK
  <1>13. ASSUME NEW k \in 0 .. best'
         PROVE  /\ proposer_tree_level'[k] \in Seq(DOMAIN proposer_node')
                /\ proposer_tree_level'[k] # <<>>
                /\ \A i \in 1 .. Len(proposer_tree_level'[k]) :
                     proposer_node'[proposer_tree_level'[k][i]].level = k
    <2>1. CASE k = l
      BY <2>1, <1>6, <1>11
    <2>2. CASE k # l
      <3>1. k \in 0 .. best /\ proposer_tree_level'[k] = proposer_tree_level[k]
        <4>1. k \in 0 .. best
          BY <2>2, <1>3, <1>5
        <4> QED
          BY Zenon, <4>1, <2>2, <1>0, <1>6
      <3>2. /\ proposer_tree_level[k] \in Seq(DOMAIN proposer_node)
            /\ proposer_tree_level[k] # <<>>
            /\ \A i \in 1 .. Len(proposer_tree_level[k]) :
                 proposer_node[proposer_tree_level[k][i]].level = k
        BY <3>1 DEF StoreInv, TreeOK
      <3> QED
        BY <3>1, <3>2, <1>4
    <2> QED
      BY <2>1, <2>2
  <1>14. ASSUME NEW g \in DOMAIN proposer_node' PROVE proposer_node'[g].level \in 0 .. best'
    <2>1. CASE g = h
      BY <1>3, <1>4, <1>5, <2>1
    <2>2. CASE g \in DOMAIN proposer_node
      <3>1. proposer_node[g].level \in 0 .. best
        BY <1>0, <2>2
      <3> QED
        BY <1>3, <1>4, <1>5, <2>2, <3>1
    <2> QED
      BY <1>4, <2>1, <2>2
  <1>15. TreeOK'
    BY Zenon, <1>2, <1>4, <1>5, <1>12, <1>13, <1>14 DEF StoreInv, TreeOK
  <1> QED
    BY Zenon, <1>1, <1>4, <1>5, <1>15 DEF Grows, h

\* A voter block is committed to the chain of its parent.
LEMMA VoterGrows ==
  ASSUME StoreInv, NEW t \in Thread, StartVoter(t)
  PROVE  /\ ChainsOK' /\ Grows
         /\ UNCHANGED <<proposer_node, proposer_tree_level, proposer_best_level, voter_best>>
         /\ pc[t] = "idle" /\ pc' = [pc EXCEPT ![t] = "voter_best"]
         /\ block'[t].hash \in DOMAIN voter_node' /\ block'[t].chain \in Chain
         /\ voter_node'[block'[t].hash].chain = block'[t].chain
         /\ \A u \in Thread \ {t} : block'[u] = block[u]
         /\ DOMAIN block' = DOMAIN block
         /\ UNCHANGED <<unreferred_transactions, unreferred_proposers>>
  <1>1. PICK h \in VoterHash \ DOMAIN voter_node, vp \in DOMAIN voter_node,
             p \in DOMAIN proposer_node : \E votes : CommitVoter(t, h, vp, p, votes)
    BY DEF StartVoter
  <1>2. PICK votes : CommitVoter(t, h, vp, p, votes)
    BY <1>1
  <1> DEFINE chain == voter_node[vp].chain
             level == voter_node[vp].level + 1
             r == [chain |-> chain, level |-> level, parent |-> vp,
                   votes |-> votes, voted_level |-> proposer_node[p].level]
  <1>3. /\ voter_node' = Put(voter_node, h, r)
        /\ block' = [block EXCEPT ![t] = [hash |-> h, chain |-> chain, level |-> level]]
        /\ pc[t] = "idle" /\ pc' = [pc EXCEPT ![t] = "voter_best"]
        /\ UNCHANGED <<proposer_node, proposer_tree_level, proposer_best_level, voter_best,
                       unreferred_transactions, unreferred_proposers>>
    BY <1>2 DEF CommitVoter, Goto, bestVars, unreferredVars
  <1>4. r.chain = chain /\ r.voted_level = proposer_node[p].level
    OBVIOUS
  <1> HIDE DEF r
  <1>5. /\ DOMAIN voter_node' = DOMAIN voter_node \cup {h} /\ voter_node'[h] = r
        /\ \A v \in DOMAIN voter_node : voter_node'[v] = voter_node[v]
    BY <1>3 DEF Put
  <1>6. IsFiniteSet(DOMAIN voter_node')
    BY <1>5, FS_AddElement DEF StoreInv, ChainsOK
  <1>7. chain \in Chain /\ r.voted_level \in 0 .. proposer_best_level
    BY <1>4 DEF StoreInv, ChainsOK, TreeOK
  <1> HIDE DEF chain
  <1>8. ChainsOK'
    <2>1. \A v \in DOMAIN voter_node' : /\ voter_node'[v].chain \in Chain
                                        /\ voter_node'[v].voted_level \in 0 .. proposer_best_level'
      BY <1>3, <1>4, <1>5, <1>7 DEF StoreInv, ChainsOK
    <2>2. DOMAIN voter_best' = Chain
      BY <1>3 DEF StoreInv, ChainsOK
    <2>3. \A c \in Chain : /\ voter_best'[c].hash \in DOMAIN voter_node'
                           /\ voter_node'[voter_best'[c].hash].chain = c
      BY <1>3, <1>5 DEF StoreInv, ChainsOK
    <2> QED
      BY SMTT(30), <2>1, <2>2, <2>3, <1>6 DEF ChainsOK, Chain
  <1>9. Grows
    BY <1>3, <1>5 DEF Grows, StoreInv, TreeOK
  <1>10. /\ block'[t] = [hash |-> h, chain |-> chain, level |-> level]
         /\ \A u \in Thread \ {t} : block'[u] = block[u]
         /\ DOMAIN block' = DOMAIN block
    BY <1>3 DEF StoreInv, ThreadsOK
  <1> QED
    BY <1>3, <1>4, <1>5, <1>7, <1>8, <1>9, <1>10

\* A step of thread t that leaves the trees alone.
TreesAlone == UNCHANGED <<proposer_node, proposer_tree_level, proposer_best_level, voter_node>>

\* Where thread t goes, and the others stay.
Moves(t, stage) ==
  /\ DOMAIN pc' = Thread /\ DOMAIN block' = Thread
  /\ pc'[t] = stage
  /\ \A u \in Thread \ {t} : pc'[u] = pc[u] /\ block'[u] = block[u]

\* What the steps that leave the trees alone do.
LEMMA OtherSteps ==
  ASSUME StoreInv, NEW t \in Thread
  PROVE  /\ \A b : StartProposer(t, b) =>
              TreesAlone /\ Moves(t, "unconfirmed") /\ block'[t] = b
              /\ UNCHANGED <<voter_best, unreferred_transactions>>
         /\ MarkUnconfirmed(t) =>
              TreesAlone /\ Moves(t, "commit") /\ pc[t] = "unconfirmed" /\ block'[t] = block[t]
              /\ UNCHANGED <<voter_best, unreferred_proposers, unreferred_transactions>>
         /\ UnreferProposers(t) =>
              TreesAlone /\ Moves(t, "unrefer_transactions") /\ pc[t] = "unrefer_proposers"
              /\ UNCHANGED <<voter_best, unreferred_transactions>>
         /\ UnreferTransactions(t) =>
              TreesAlone /\ Moves(t, "idle") /\ pc[t] = "unrefer_transactions"
              /\ unreferred_transactions' \subseteq unreferred_transactions
              /\ UNCHANGED <<voter_best, unreferred_proposers>>
         /\ UpdateVoterBest(t) =>
              TreesAlone /\ Moves(t, "idle") /\ pc[t] = "voter_best"
              /\ voter_best' = [voter_best EXCEPT ![block[t].chain] = Better(block[t], @)]
              /\ UNCHANGED <<unreferred_proposers, unreferred_transactions>>
         /\ InsertTransaction(t) =>
              TreesAlone /\ Moves(t, "tx_commit") /\ pc[t] = "idle"
              /\ (\E h : unreferred_transactions' = unreferred_transactions \cup {h})
              /\ UNCHANGED <<voter_best, unreferred_proposers>>
         /\ CommitTransaction(t) =>
              TreesAlone /\ Moves(t, "idle") /\ pc[t] = "tx_commit"
              /\ UNCHANGED <<voter_best, unreferred_proposers, unreferred_transactions>>
  <1> USE DEF TreesAlone, Moves, Goto, Return, StoreInv, ThreadsOK, dbVars, bestVars, unreferredVars
  <1>1. \A b : StartProposer(t, b) =>
              TreesAlone /\ Moves(t, "unconfirmed") /\ block'[t] = b
              /\ UNCHANGED <<voter_best, unreferred_transactions>>
    BY Zenon DEF StartProposer, MarkUnreferredProposer, After
  <1>2. MarkUnconfirmed(t) =>
              TreesAlone /\ Moves(t, "commit") /\ pc[t] = "unconfirmed" /\ block'[t] = block[t]
              /\ UNCHANGED <<voter_best, unreferred_proposers, unreferred_transactions>>
    BY DEF MarkUnconfirmed, After
  <1>3. UnreferProposers(t) =>
              TreesAlone /\ Moves(t, "unrefer_transactions") /\ pc[t] = "unrefer_proposers"
              /\ UNCHANGED <<voter_best, unreferred_transactions>>
    BY DEF UnreferProposers
  <1>4. UnreferTransactions(t) =>
              TreesAlone /\ Moves(t, "idle") /\ pc[t] = "unrefer_transactions"
              /\ unreferred_transactions' \subseteq unreferred_transactions
              /\ UNCHANGED <<voter_best, unreferred_proposers>>
    BY DEF UnreferTransactions
  <1>5. UpdateVoterBest(t) =>
              TreesAlone /\ Moves(t, "idle") /\ pc[t] = "voter_best"
              /\ voter_best' = [voter_best EXCEPT ![block[t].chain] = Better(block[t], @)]
              /\ UNCHANGED <<unreferred_proposers, unreferred_transactions>>
    BY DEF UpdateVoterBest
  <1>6. InsertTransaction(t) =>
              TreesAlone /\ Moves(t, "tx_commit") /\ pc[t] = "idle"
              /\ (\E h : unreferred_transactions' = unreferred_transactions \cup {h})
              /\ UNCHANGED <<voter_best, unreferred_proposers>>
    BY DEF InsertTransaction
  <1>7. CommitTransaction(t) =>
              TreesAlone /\ Moves(t, "idle") /\ pc[t] = "tx_commit"
              /\ UNCHANGED <<voter_best, unreferred_proposers, unreferred_transactions>>
    BY DEF CommitTransaction
  <1> QED
    BY ZenonT(30), <1>1, <1>2, <1>3, <1>4, <1>5, <1>6, <1>7

\* Their invariants.
LEMMA AloneKeeps ==
  ASSUME StoreInv, TreesAlone
  PROVE  TreeOK' /\ Grows /\ (UNCHANGED voter_best => ChainsOK')
  <1>1. TreeOK'
    BY SMTT(30) DEF StoreInv, TreesAlone, TreeOK
  <1>2. Grows
    BY DEF StoreInv, TreesAlone, TreeOK, Grows
  <1>3. UNCHANGED voter_best => ChainsOK'
    BY DEF StoreInv, TreesAlone, ChainsOK, Chain
  <1> QED
    BY <1>1, <1>2, <1>3

\* A thread that leaves the trees alone and goes where nothing is asked of its block
\* keeps what is known of the threads.
LEMMA AloneThreads ==
  ASSUME ThreadsOK, TreesAlone, NEW t \in Thread, NEW stage, Moves(t, stage),
         stage \in {"idle", "tx_commit"} \cup Committed, IsFiniteSet(unreferred_transactions')
  PROVE  ThreadsOK'
  <1>1. stage \notin Uncommitted /\ stage # "voter_best"
    BY DEF Uncommitted, Committed
  <1>2. \A u \in Thread : pc'[u] \in Uncommitted \/ pc'[u] = "voter_best" =>
          u # t /\ pc'[u] = pc[u] /\ block'[u] = block[u]
    BY <1>1 DEF Moves
  <1>3. \A u \in Thread : pc'[u] \in {"idle", "voter_best", "tx_commit"} \cup Uncommitted \cup Committed
    BY DEF ThreadsOK, Moves
  <1>4. /\ DOMAIN proposer_node' = DOMAIN proposer_node /\ voter_node' = voter_node
        /\ Uncommitted' = Uncommitted /\ Committed' = Committed /\ Chain' = Chain
    BY DEF TreesAlone, Uncommitted, Committed, Chain
  <1>5. ASSUME NEW u \in Thread
        PROVE  /\ pc'[u] \in Uncommitted => /\ block'[u].hash \in ProposerHash \ DOMAIN proposer_node
                                            /\ block'[u].parent \in DOMAIN proposer_node
               /\ pc'[u] = "voter_best" => /\ block'[u].hash \in DOMAIN voter_node
                                           /\ block'[u].chain \in Chain
                                           /\ voter_node[block'[u].hash].chain = block'[u].chain
    BY Zenon, <1>2 DEF ThreadsOK
  <1>6. \A v, u \in Thread : v # u /\ {pc'[v], pc'[u]} \subseteq Uncommitted =>
          block'[v].hash # block'[u].hash
    BY <1>2 DEF ThreadsOK
  <1>7. DOMAIN pc' = Thread /\ DOMAIN block' = Thread
    BY DEF Moves
  <1> QED
    BY Zenon, <1>3, <1>4, <1>5, <1>6, <1>7 DEF ThreadsOK

\* Every step on the block store keeps its invariants and what is committed.
LEMMA StoreNext ==
  ASSUME StoreInv, NEW t \in Thread, StoreStep(t)
  PROVE  StoreInv' /\ Grows
  <1>a. TreeOK /\ ChainsOK /\ ThreadsOK
    BY DEF StoreInv
  <1>b. /\ DOMAIN pc = Thread /\ DOMAIN block = Thread
        /\ IsFiniteSet(unreferred_transactions)
        /\ \A u \in Thread :
             /\ pc[u] \in {"idle", "voter_best", "tx_commit"} \cup Uncommitted \cup Committed
             /\ pc[u] \in Uncommitted => /\ block[u].hash \in ProposerHash \ DOMAIN proposer_node
                                         /\ block[u].parent \in DOMAIN proposer_node
             /\ pc[u] = "voter_best" => /\ block[u].hash \in DOMAIN voter_node
                                        /\ block[u].chain \in Chain
                                        /\ voter_node[block[u].hash].chain = block[u].chain
        /\ \A v, u \in Thread : v # u /\ {pc[v], pc[u]} \subseteq Uncommitted =>
             block[v].hash # block[u].hash
    BY <1>a DEF ThreadsOK
  <1>1. ASSUME NEW b, StartProposer(t, b) PROVE StoreInv' /\ Grows
    <2>1. /\ TreesAlone /\ Moves(t, "unconfirmed") /\ block'[t] = b
          /\ UNCHANGED <<voter_best, unreferred_transactions>>
      BY <1>1, OtherSteps
    <2>2. /\ b.hash \in ProposerHash \ DOMAIN proposer_node /\ b.parent \in DOMAIN proposer_node
          /\ \A u \in Thread : pc[u] \in Uncommitted => block[u].hash # b.hash
      BY <1>1 DEF StartProposer, FreshProposer, Inserting, Uncommitted
    <2>3. ThreadsOK'
      BY <2>1, <2>2, <1>b DEF ThreadsOK, TreesAlone, Moves, Uncommitted, Committed, Chain
    <2> QED
      BY SMTT(30), <2>1, <2>3, AloneKeeps DEF StoreInv
  <1>2. CASE MarkUnconfirmed(t)
    <2>1. /\ TreesAlone /\ Moves(t, "commit") /\ pc[t] = "unconfirmed" /\ block'[t] = block[t]
          /\ UNCHANGED <<voter_best, unreferred_transactions>>
      BY ZenonT(30), <1>2, OtherSteps
    <2>2. ThreadsOK'
      BY <2>1, <1>b DEF ThreadsOK, TreesAlone, Moves, Uncommitted, Committed, Chain
    <2> QED
      BY <2>1, <2>2, AloneKeeps DEF StoreInv
  <1>3. CASE CommitProposer(t)
    <2>1. TreeOK' /\ Grows /\ UNCHANGED <<voter_node, voter_best>>
          /\ DOMAIN proposer_node' = DOMAIN proposer_node \cup {block[t].hash}
      BY <1>3, CommitGrows
    <2>2. /\ pc[t] = "commit" /\ Moves(t, "unrefer_proposers") /\ block' = block
          /\ UNCHANGED unreferred_transactions
      BY Zenon, <1>3, <1>b DEF CommitProposer, Moves, Goto, After, unreferredVars
    <2>3. ChainsOK'
      <3>1. proposer_best_level \in Nat /\ proposer_best_level' \in Nat
            /\ proposer_best_level <= proposer_best_level'
        BY <2>1, <1>a DEF TreeOK, Grows
      <3>2. \A v \in DOMAIN voter_node : voter_node[v].voted_level \in 0 .. proposer_best_level'
        BY <3>1, <1>a DEF ChainsOK
      <3> QED
        BY SMTT(30), <2>1, <3>2, <1>a DEF ChainsOK, Chain
    <2>4. ThreadsOK'
      BY <2>1, <2>2, <1>b DEF ThreadsOK, Moves, Uncommitted, Committed, Chain
    <2> QED
      BY <2>1, <2>3, <2>4 DEF StoreInv
  <1>4. CASE UnreferProposers(t) \/ UnreferTransactions(t) \/ CommitTransaction(t)
    <2>1. /\ TreesAlone /\ (Moves(t, "unrefer_transactions") \/ Moves(t, "idle"))
          /\ unreferred_transactions' \subseteq unreferred_transactions
          /\ UNCHANGED voter_best
      BY Zenon, <1>4, OtherSteps
    <2>2. IsFiniteSet(unreferred_transactions')
      BY <2>1, <1>b, FS_Subset
    <2>3. ThreadsOK'
      <3>1. "unrefer_transactions" \in Committed
        BY DEF Committed
      <3> QED
        BY <2>1, <2>2, <3>1, <1>a, AloneThreads
    <2> QED
      BY <2>1, <2>3, AloneKeeps DEF StoreInv
  <1>5. CASE InsertTransaction(t)
    <2>1. /\ TreesAlone /\ Moves(t, "tx_commit") /\ UNCHANGED voter_best
          /\ \E h : unreferred_transactions' = unreferred_transactions \cup {h}
      BY Zenon, <1>5, OtherSteps
    <2>2. IsFiniteSet(unreferred_transactions')
      BY <2>1, <1>b, FS_AddElement
    <2>3. ThreadsOK'
      BY <2>1, <2>2, <1>a, AloneThreads
    <2> QED
      BY <2>1, <2>3, AloneKeeps DEF StoreInv
  <1>6. CASE StartVoter(t)
    <2>1. /\ ChainsOK' /\ Grows
          /\ UNCHANGED <<proposer_node, proposer_tree_level, proposer_best_level, voter_best>>
          /\ pc' = [pc EXCEPT ![t] = "voter_best"]
          /\ block'[t].hash \in DOMAIN voter_node' /\ block'[t].chain \in Chain
          /\ voter_node'[block'[t].hash].chain = block'[t].chain
          /\ \A u \in Thread \ {t} : block'[u] = block[u]
          /\ DOMAIN block' = DOMAIN block
          /\ UNCHANGED unreferred_transactions
      BY <1>6, VoterGrows
    <2>2. TreeOK'
      BY Zenon, <2>1, <1>a DEF TreeOK
    <2>3. \A v \in DOMAIN voter_node : v \in DOMAIN voter_node' /\ voter_node'[v] = voter_node[v]
      BY <2>1 DEF Grows
    <2>4. Moves(t, "voter_best")
      BY <2>1, <1>b DEF Moves
    <2>5. ThreadsOK'
      BY <2>1, <2>3, <2>4, <1>b DEF ThreadsOK, Moves, Uncommitted, Committed, Chain
    <2> QED
      BY <2>1, <2>2, <2>5 DEF StoreInv
  <1>7. CASE UpdateVoterBest(t)
    <2>1. /\ TreesAlone /\ Moves(t, "idle") /\ pc[t] = "voter_best"
          /\ voter_best' = [voter_best EXCEPT ![block[t].chain] = Better(block[t], @)]
          /\ UNCHANGED unreferred_transactions
      BY ZenonT(30), <1>7, OtherSteps
    <2>2. DOMAIN voter_best = Chain /\ block[t].chain \in Chain
      BY Zenon, <2>1, <1>a, <1>b DEF ChainsOK
    <2>3. DOMAIN voter_best' = Chain
      BY <2>1, <2>2
    <2>4. \A c \in Chain : \/ voter_best'[c] = voter_best[c]
                           \/ c = block[t].chain /\ voter_best'[c].hash = block[t].hash
      BY SMTT(30), <2>1, <2>2 DEF Better
    <2>5. \A c \in Chain : /\ voter_best'[c].hash \in DOMAIN voter_node
                           /\ voter_node[voter_best'[c].hash].chain = c
      BY <2>1, <2>4, <1>a, <1>b DEF ChainsOK
    <2>6. ChainsOK'
      BY ZenonT(30), <2>1, <2>3, <2>5, <1>a DEF ChainsOK, TreesAlone, Chain
    <2>7. ThreadsOK'
      BY Zenon, <2>1, <1>a, <1>b, AloneThreads
    <2> QED
      BY <2>1, <2>6, <2>7, AloneKeeps DEF StoreInv
  <1> QED
    BY <1>1, <1>2, <1>3, <1>4, <1>5, <1>6, <1>7 DEF StoreStep

-----------------------------------------------------------------------------
(* The votes.                                                              *)

\* Each level has a block with the most votes, the smallest one of these.
LEMMA BestVoteExists ==
  ASSUME NEW S \in SUBSET Nat, S # {}, NEW f \in [S -> Nat], NEW N \in Nat,
         \A h \in S : f[h] <= N
  PROVE  \E h \in S : \A g \in S : f[h] > f[g] \/ (f[h] = f[g] /\ h <= g)
  <1> DEFINE A == {N - f[h] : h \in S}
  <1>0. \A h \in S : f[h] \in Nat /\ N - f[h] \in Nat
    OBVIOUS
  <1>1. A \in SUBSET Nat /\ A # {}
    BY Zenon, <1>0
  <1>2. PICK a \in A : \A b \in A : a <= b
    <2> HIDE DEF A
    <2> QED
      BY <1>1, NatMin
  <1>3. PICK k \in S : a = N - f[k]
    BY <1>2
  <1>4. \A g \in S : f[k] >= f[g]
    BY SMTT(30), <1>2, <1>3
  <1> DEFINE B == {h \in S : f[h] = f[k]}
  <1>5. B \in SUBSET Nat /\ B # {}
    BY Zenon
  <1>6. PICK h \in B : \A g \in B : h <= g
    <2> HIDE DEF B
    <2> QED
      BY <1>5, NatMin
  <1>7. h \in S /\ f[h] = f[k]
    BY <1>6
  <1>8. ASSUME NEW g \in S PROVE f[h] > f[g] \/ (f[h] = f[g] /\ h <= g)
    <2>1. CASE f[g] = f[k]
      BY <2>1, <1>6, <1>7
    <2>2. CASE f[g] # f[k]
      BY <2>2, <1>4, <1>7
    <2> QED
      BY <2>1, <2>2
  <1> QED
    BY <1>7, <1>8

\* unvoted_proposer returns a block of every level that is not voted yet.
LEMMA VotesAreValid ==
  ASSUME StoreInv, NEW tip \in DOMAIN voter_node, NEW p \in DOMAIN proposer_node
  PROVE  unvoted_proposer(tip, p) \in VoteLists(tip, p)
  <1> DEFINE first == voter_node[tip].voted_level
             last == proposer_node[p].level
             Beats(h, g) == \/ vote_count(h) > vote_count(g)
                            \/ vote_count(h) = vote_count(g) /\ h <= g
             Best(level) == CHOOSE h \in Range(proposer_tree_level[level]) :
                              \A g \in Range(proposer_tree_level[level]) : Beats(h, g)
  <1>1. /\ first \in 0 .. proposer_best_level /\ last \in 0 .. proposer_best_level
        /\ proposer_best_level \in Nat
    BY DEF StoreInv, ChainsOK, TreeOK
  <1>2. ASSUME NEW i \in 1 .. last - first
        PROVE  /\ Best(first + i) \in DOMAIN proposer_node
               /\ proposer_node[Best(first + i)].level = first + i
    <2> DEFINE l == first + i
               S == Range(proposer_tree_level[l])
    <2>1. l \in 0 .. proposer_best_level
      BY <1>1
    <2>2. /\ proposer_tree_level[l] \in Seq(DOMAIN proposer_node)
          /\ proposer_tree_level[l] # <<>>
          /\ \A k \in 1 .. Len(proposer_tree_level[l]) :
               proposer_node[proposer_tree_level[l][k]].level = l
      BY Zenon, <2>1 DEF StoreInv, TreeOK
    <2> HIDE DEF l, first, last
    <2>3. /\ S \subseteq DOMAIN proposer_node /\ S # {} /\ S \subseteq Nat
          /\ \A h \in S : proposer_node[h].level = l
      <3>1. PICK D, q : D = DOMAIN proposer_node /\ q = proposer_tree_level[l]
        OBVIOUS
      <3>2. q \in Seq(D) /\ q # <<>> /\ DOMAIN q = 1 .. Len(q) /\ 1 \in DOMAIN q
        BY <2>2, <3>1
      <3>3. \A k \in DOMAIN q : q[k] \in D
        BY <3>2
      <3>4. S = {q[k] : k \in DOMAIN q}
        BY <3>1 DEF Range
      <3>5. D \subseteq Nat
        BY <3>1 DEF StoreInv, TreeOK
      <3>6. \A k \in DOMAIN q : proposer_node[q[k]].level = l
        BY <2>2, <3>1, <3>2
      <3> HIDE DEF S
      <3> QED
        BY ZenonT(30), <3>1, <3>2, <3>3, <3>4, <3>5, <3>6
    <2> DEFINE N == Cardinality(DOMAIN voter_node)
               f == [h \in S |-> vote_count(h)]
    <2>4. /\ IsFiniteSet(DOMAIN voter_node) /\ N \in Nat
          /\ \A h : vote_count(h) \in Nat /\ vote_count(h) <= N
      <3>1. IsFiniteSet(DOMAIN voter_node)
        BY DEF StoreInv, ChainsOK
      <3>2. \A h : {v \in DOMAIN voter_node : h \in Range(voter_node[v].votes)} \in SUBSET DOMAIN voter_node
        OBVIOUS
      <3> QED
        BY <3>1, <3>2, FS_Subset, FS_CardinalityType DEF vote_count
    <2> HIDE DEF S
    <2>5. f \in [S -> Nat] /\ \A h \in S : f[h] = vote_count(h) /\ f[h] <= N
      BY <2>4
    <2> HIDE DEF N, f
    <2>6. \E h \in S : \A g \in S : f[h] > f[g] \/ (f[h] = f[g] /\ h <= g)
      BY Zenon, <2>3, <2>4, <2>5, BestVoteExists
    <2>7. \E h \in S : \A g \in S : Beats(h, g)
      BY <2>5, <2>6
    <2> HIDE DEF Beats
    <2>8. Best(l) \in S
      BY <2>7 DEF S
    <2> QED
      BY <2>3, <2>8 DEF l
  <1>3. unvoted_proposer(tip, p) = [i \in 1 .. last - first |-> Best(first + i)]
    BY DEF unvoted_proposer
  <1> HIDE DEF Best
  <1>4. unvoted_proposer(tip, p) \in [1 .. last - first -> DOMAIN proposer_node]
    BY <1>2, <1>3
  <1>5. \A i \in 1 .. last - first :
          proposer_node[unvoted_proposer(tip, p)[i]].level = first + i
    BY SMTT(30), <1>2, <1>3
  <1> QED
    BY <1>4, <1>5 DEF VoteLists

\* A vote that is valid stays so while the block store grows.
LEMMA ValidStays ==
  ASSUME ContentsOK, Grows, UNCHANGED parent,
         NEW c \in Chain, contents'.voter[c] = contents.voter[c]
  PROVE  /\ ValidVote(c) => ValidVote(c)'
         /\ voter_node[contents.voter[c].parent].voted_level <= proposer_node[parent].level
              => (voter_node[contents.voter[c].parent].voted_level <= proposer_node[parent].level)'
  <1> DEFINE v == contents.voter[c]
  <1>1. /\ v.parent \in DOMAIN voter_node /\ voter_node'[v.parent] = voter_node[v.parent]
        /\ parent \in DOMAIN proposer_node /\ proposer_node'[parent] = proposer_node[parent]
        /\ DOMAIN proposer_node \subseteq DOMAIN proposer_node'
    BY Zenon DEF ContentsOK, Grows
  <1>2. VoteLists(v.parent, parent) \subseteq VoteLists(v.parent, parent)'
    <2> DEFINE start == voter_node[v.parent].voted_level
               end == proposer_node[parent].level
    <2>1. VoteLists(v.parent, parent) =
            {x \in [1 .. end - start -> DOMAIN proposer_node] :
               \A i \in 1 .. end - start : proposer_node[x[i]].level = start + i}
      BY DEF VoteLists
    <2>2. VoteLists(v.parent, parent)' =
            {x \in [1 .. end - start -> DOMAIN proposer_node'] :
               \A i \in 1 .. end - start : proposer_node'[x[i]].level = start + i}
      BY <1>1 DEF VoteLists
    <2> HIDE DEF start, end
    <2>3. ASSUME NEW x \in [1 .. end - start -> DOMAIN proposer_node],
                 \A i \in 1 .. end - start : proposer_node[x[i]].level = start + i
          PROVE  /\ x \in [1 .. end - start -> DOMAIN proposer_node']
                 /\ \A i \in 1 .. end - start : proposer_node'[x[i]].level = start + i
      BY <2>3, <1>1 DEF Grows
    <2> QED
      BY SMTT(30), <2>1, <2>2, <2>3
  <1> QED
    BY <1>1, <1>2 DEF ValidVote

\* A step on the block store moves one thread.
LEMMA StepMoves ==
  ASSUME StoreInv, NEW t \in Thread, StoreStep(t)
  PROVE  \E stage : Moves(t, stage)
  <1>1. DOMAIN pc = Thread /\ DOMAIN block = Thread
    BY DEF StoreInv, ThreadsOK
  <1>2. CASE CommitProposer(t)
    <2>1. Moves(t, "unrefer_proposers")
      BY Zenon, <1>1, <1>2 DEF CommitProposer, Moves, Goto, After
    <2> QED
      BY <2>1
  <1>3. CASE StartVoter(t)
    <2>1. /\ pc' = [pc EXCEPT ![t] = "voter_best"] /\ DOMAIN block' = DOMAIN block
          /\ \A u \in Thread \ {t} : block'[u] = block[u]
      BY Zenon, <1>3, VoterGrows
    <2>2. Moves(t, "voter_best")
      BY <1>1, <2>1 DEF Moves
    <2> QED
      BY <2>2
  <1>4. ASSUME ~CommitProposer(t), ~StartVoter(t) PROVE \E stage : Moves(t, stage)
    BY ZenonT(30), <1>4, OtherSteps DEF StoreStep
  <1> QED
    BY <1>2, <1>3, <1>4

\* What a step of the miner does to the contents.
LEMMA ContentsChange ==
  ASSUME ContentsOK
  PROVE  /\ HandleSignals =>
              LET shifted == {c \in Chain : /\ NewVoterBlock(c) \in context_update_chan
                                            /\ voter_best[c].hash # contents.voter[c].parent}
              IN  /\ DOMAIN contents' = {"proposer", "voter"}
                  /\ contents'.proposer = contents.proposer
                  /\ \A c \in Chain : contents'.voter[c] =
                       [parent |-> IF c \in shifted THEN voter_best[c].hash
                                   ELSE contents.voter[c].parent,
                        votes |-> contents.voter[c].votes]
         /\ AppendTransactionRefs \/ RefreshTransactionRefs =>
              /\ DOMAIN contents' = {"proposer", "voter"}
              /\ DOMAIN contents'.proposer = {"refs", "txs"}
              /\ contents'.voter = contents.voter
              /\ contents'.proposer.refs = contents.proposer.refs
              /\ \/ contents'.proposer.txs \in TransactionRefs
                 \/ /\ AppendTransactionRefs
                    /\ contents'.proposer.txs = contents.proposer.txs
                    /\ ~(Cardinality(contents.proposer.txs) < proposer_tx_refs)
         /\ RefreshProposerRefs =>
              /\ DOMAIN contents' = {"proposer", "voter"}
              /\ DOMAIN contents'.proposer = {"refs", "txs"}
              /\ contents'.voter = contents.voter
              /\ contents'.proposer.refs = unreferred_proposers \ {parent}
              /\ contents'.proposer.txs = contents.proposer.txs
         /\ UpdateVotes =>
              /\ DOMAIN contents' = {"proposer", "voter"}
              /\ contents'.proposer = contents.proposer
              /\ \A c \in Chain : contents'.voter[c] =
                   [parent |-> contents.voter[c].parent,
                    votes |-> IF new_proposer_block \/ new_voter_block # {}
                              THEN unvoted_proposer(contents.voter[c].parent, parent)
                              ELSE contents.voter[c].votes]
  <1>a. /\ DOMAIN contents = {"proposer", "voter"} /\ DOMAIN contents.proposer = {"refs", "txs"}
        /\ \A c \in Chain : contents.voter[c] =
             [parent |-> contents.voter[c].parent, votes |-> contents.voter[c].votes]
    BY ZenonT(30) DEF ContentsOK
  <1>1. ASSUME HandleSignals
        PROVE LET shifted == {c \in Chain : /\ NewVoterBlock(c) \in context_update_chan
                                            /\ voter_best[c].hash # contents.voter[c].parent}
              IN  /\ DOMAIN contents' = {"proposer", "voter"}
                  /\ contents'.proposer = contents.proposer
                  /\ \A c \in Chain : contents'.voter[c] =
                       [parent |-> IF c \in shifted THEN voter_best[c].hash
                                   ELSE contents.voter[c].parent,
                        votes |-> contents.voter[c].votes]
    <2> DEFINE shifted == {c \in Chain : /\ NewVoterBlock(c) \in context_update_chan
                                         /\ voter_best[c].hash # contents.voter[c].parent}
               w == [c \in Chain |-> IF c \in shifted
                                     THEN [contents.voter[c] EXCEPT !.parent = voter_best[c].hash]
                                     ELSE contents.voter[c]]
    <2>1. contents' = [contents EXCEPT !.voter = w]
      BY <1>1 DEF HandleSignals
    <2>2. ASSUME NEW c \in Chain
          PROVE  w[c] = [parent |-> IF c \in shifted THEN voter_best[c].hash
                                    ELSE contents.voter[c].parent,
                         votes |-> contents.voter[c].votes]
      <3>1. PICK x, y : contents.voter[c] = [parent |-> x, votes |-> y]
        BY Zenon, <1>a
      <3>2. [contents.voter[c] EXCEPT !.parent = voter_best[c].hash] =
              [parent |-> voter_best[c].hash, votes |-> y]
        BY <3>1
      <3> QED
        BY <3>1, <3>2
    <2> HIDE DEF w, shifted
    <2>3. DOMAIN contents' = {"proposer", "voter"} /\ contents'.proposer = contents.proposer
          /\ contents'.voter = w
      BY <2>1, <1>a
    <2> QED
      BY Zenon, <2>2, <2>3 DEF shifted
  <1>2. ASSUME NEW S, contents' = [contents EXCEPT !.proposer.txs = S]
        PROVE  /\ DOMAIN contents' = {"proposer", "voter"}
               /\ DOMAIN contents'.proposer = {"refs", "txs"}
               /\ contents'.voter = contents.voter
               /\ contents'.proposer.refs = contents.proposer.refs
               /\ contents'.proposer.txs = S
    BY <1>2, <1>a
  <1>3. ASSUME AppendTransactionRefs \/ RefreshTransactionRefs
        PROVE /\ DOMAIN contents' = {"proposer", "voter"}
              /\ DOMAIN contents'.proposer = {"refs", "txs"}
              /\ contents'.voter = contents.voter
              /\ contents'.proposer.refs = contents.proposer.refs
              /\ \/ contents'.proposer.txs \in TransactionRefs
                 \/ /\ AppendTransactionRefs
                    /\ contents'.proposer.txs = contents.proposer.txs
                    /\ ~(Cardinality(contents.proposer.txs) < proposer_tx_refs)
    <2>1. CASE \E S \in TransactionRefs : contents' = [contents EXCEPT !.proposer.txs = S]
      BY <2>1, <1>2
    <2>2. CASE /\ AppendTransactionRefs /\ contents' = contents
               /\ ~(Cardinality(contents.proposer.txs) < proposer_tx_refs)
      BY <2>2, <1>a
    <2> QED
      BY Zenon, <1>3, <2>1, <2>2 DEF AppendTransactionRefs, RefreshTransactionRefs
  <1>4. ASSUME RefreshProposerRefs
        PROVE /\ DOMAIN contents' = {"proposer", "voter"}
              /\ DOMAIN contents'.proposer = {"refs", "txs"}
              /\ contents'.voter = contents.voter
              /\ contents'.proposer.refs = unreferred_proposers \ {parent}
              /\ contents'.proposer.txs = contents.proposer.txs
    <2>1. contents' = [contents EXCEPT !.proposer.refs = unreferred_proposers \ {parent}]
      BY <1>4 DEF RefreshProposerRefs
    <2> QED
      BY <2>1, <1>a
  <1>5. ASSUME UpdateVotes
        PROVE /\ DOMAIN contents' = {"proposer", "voter"}
              /\ contents'.proposer = contents.proposer
              /\ \A c \in Chain : contents'.voter[c] =
                   [parent |-> contents.voter[c].parent,
                    votes |-> IF new_proposer_block \/ new_voter_block # {}
                              THEN unvoted_proposer(contents.voter[c].parent, parent)
                              ELSE contents.voter[c].votes]
    <2> DEFINE w == [c \in Chain |-> [parent |-> contents.voter[c].parent,
                                      votes |-> unvoted_proposer(contents.voter[c].parent, parent)]]
    <2>1. CASE new_proposer_block \/ new_voter_block # {}
      <3>1. contents' = [contents EXCEPT !.voter = w]
        BY <1>5, <2>1 DEF UpdateVotes
      <3>2. \A c \in Chain : w[c] = [parent |-> contents.voter[c].parent,
                                     votes |-> unvoted_proposer(contents.voter[c].parent, parent)]
        BY SMTT(30)
      <3> HIDE DEF w
      <3>3. DOMAIN contents' = {"proposer", "voter"} /\ contents'.proposer = contents.proposer
            /\ contents'.voter = w
        BY <3>1, <1>a
      <3> QED
        BY <2>1, <3>2, <3>3
    <2>2. CASE ~(new_proposer_block \/ new_voter_block # {})
      <3>1. contents' = contents
        BY <1>5, <2>2 DEF UpdateVotes
      <3> QED
        BY <2>2, <3>1, <1>a
    <2> QED
      BY SMTT(30), <2>1, <2>2
  <1> QED
    BY ZenonT(30), <1>1, <1>3, <1>4, <1>5

\* Every step keeps the invariants of the block store.
LEMMA StoreKept ==
  ASSUME StoreInv, ContentsOK, [MinerNext]_vars
  PROVE  StoreInv' /\ Grows
  <1>1. ASSUME UNCHANGED bcVars PROVE StoreInv' /\ Grows
    <2>1. /\ TreesAlone /\ UNCHANGED voter_best
          /\ UNCHANGED <<pc, block, unreferred_transactions>>
      BY <1>1 DEF bcVars, dbVars, bestVars, unreferredVars, TreesAlone
    <2>2. TreeOK' /\ Grows /\ ChainsOK'
      BY <2>1, AloneKeeps
    <2>3. ThreadsOK'
      BY <2>1 DEF TreesAlone, StoreInv, ThreadsOK, Chain
    <2> QED
      BY <2>2, <2>3 DEF StoreInv
  <1> QED
    BY <1>1, StoreSteps, StoreNext

\* best_proposer is a committed block of the best level.
LEMMA BestCommitted ==
  ASSUME StoreInv
  PROVE  /\ best_proposer \in DOMAIN proposer_node
         /\ proposer_node[best_proposer].level = proposer_best_level
  <1>1. PICK D, q : D = DOMAIN proposer_node /\ q = proposer_tree_level[proposer_best_level]
    OBVIOUS
  <1>2. /\ q \in Seq(D) /\ q # <<>>
        /\ \A i \in 1 .. Len(q) : proposer_node[q[i]].level = proposer_best_level
    BY <1>1 DEF StoreInv, TreeOK
  <1>3. 1 \in 1 .. Len(q) /\ q[1] \in D
    BY <1>2
  <1> QED
    BY <1>1, <1>2, <1>3 DEF best_proposer

\* A step of a network worker leaves the miner alone.
LEMMA WorkerStep ==
  ASSUME StoreInv, ContentsOK, NEW t \in Thread \ {miner}, Insert(t) \/ SendSignals(t)
  PROVE  UNCHANGED <<minerVars, pc[miner], block[miner]>>
  <1>m. miner \in Thread
    BY MinerAssumption
  <1>1. CASE Insert(t)
    <2>1. StoreStep(t)
      BY <1>1, InsertIsStep
    <2>2. PICK stage : Moves(t, stage)
      BY SMTT(30), <2>1, StepMoves
    <2> QED
      BY <1>1, <1>m, <2>2 DEF Insert, Moves
  <1>2. CASE SendSignals(t)
    BY Zenon, <1>2 DEF SendSignals, bcVars
  <1> QED
    BY <1>1, <1>2

\* The flag and the places of the loop.
LEMMA LoopNext ==
  ASSUME StoreInv, ContentsOK, [MinerNext]_vars
  PROVE  /\ mpc' \in {"signals", "best", "append_txs", "refresh_txs", "refresh_proposers",
                      "check", "votes", "mine", "insert"}
         /\ new_proposer_block' \in BOOLEAN
         /\ parent' \in DOMAIN proposer_node'
  <1>a. /\ mpc \in {"signals", "best", "append_txs", "refresh_txs", "refresh_proposers",
                    "check", "votes", "mine", "insert"}
        /\ new_proposer_block \in BOOLEAN
        /\ parent \in DOMAIN proposer_node
    BY DEF ContentsOK
  <1>b. \A h \in DOMAIN proposer_node : h \in DOMAIN proposer_node'
    BY StoreKept DEF Grows
  <1>c. best_proposer \in DOMAIN proposer_node
    BY BestCommitted
  <1>1. /\ mpc' \in {"signals", "best", "append_txs", "refresh_txs", "refresh_proposers",
                     "check", "votes", "mine", "insert"}
        /\ new_proposer_block' \in BOOLEAN
        /\ parent' = parent \/ parent' = best_proposer
    <2> USE DEF roundVars
    <2>1. CASE HandleSignals
      BY <2>1, <1>a DEF HandleSignals
    <2>2. CASE AppendTransactionRefs \/ UpdateBestProposer \/ RefreshTransactionRefs
               \/ RefreshProposerRefs \/ UpdateVotes \/ NoLuck \/ SkipEmpty \/ SignalMined
      BY <2>2, <1>a DEF AppendTransactionRefs, UpdateBestProposer, RefreshTransactionRefs,
                        RefreshProposerRefs, UpdateVotes, NoLuck, SkipEmpty, SignalMined, At
    <2>3. CASE CheckBest
      BY <2>3, <1>a DEF CheckBest
    <2>4. CASE MineProposer \/ MineVoter \/ MineTransaction
      BY Zenon, <2>4, <1>a DEF MineProposer, MineVoter, MineTransaction, Mine, At
    <2>5. CASE InsertMined \/ UNCHANGED vars
      BY <2>5, <1>a DEF InsertMined, vars, minerVars
    <2>6. ASSUME NEW t \in Thread \ {miner}, Insert(t) \/ SendSignals(t)
          PROVE  UNCHANGED minerVars
      BY <2>6, WorkerStep
    <2> QED
      BY <2>1, <2>2, <2>3, <2>4, <2>5, <2>6, <1>a DEF MinerNext, miner_loop, minerVars
  <1> QED
    BY <1>1, <1>a, <1>b, <1>c

\* What the miner mines on stays committed.
LEMMA EntriesNext ==
  ASSUME StoreInv, ContentsOK, [MinerNext]_vars
  PROVE  /\ DOMAIN contents' = {"proposer", "voter"}
         /\ DOMAIN contents'.proposer = {"refs", "txs"}
         /\ \A c \in Chain :
              LET v == contents'.voter[c]
              IN  /\ v = [parent |-> v.parent, votes |-> v.votes]
                  /\ v.parent \in DOMAIN voter_node'
                  /\ voter_node'[v.parent].chain = c
  <1>a. /\ DOMAIN contents = {"proposer", "voter"}
        /\ DOMAIN contents.proposer = {"refs", "txs"}
        /\ \A c \in Chain :
              /\ contents.voter[c] = [parent |-> contents.voter[c].parent, votes |-> contents.voter[c].votes]
              /\ contents.voter[c].parent \in DOMAIN voter_node
              /\ voter_node[contents.voter[c].parent].chain = c
    BY DEF ContentsOK
  <1>b. \A v \in DOMAIN voter_node : v \in DOMAIN voter_node' /\ voter_node'[v] = voter_node[v]
    BY StoreKept DEF Grows
  <1>c. \A c \in Chain : /\ voter_best[c].hash \in DOMAIN voter_node
                         /\ voter_node[voter_best[c].hash].chain = c
    BY DEF StoreInv, ChainsOK
  <1>1. /\ DOMAIN contents' = {"proposer", "voter"}
        /\ DOMAIN contents'.proposer = {"refs", "txs"}
        /\ \A c \in Chain : \E y :
             \/ contents'.voter[c] = [parent |-> contents.voter[c].parent, votes |-> y]
             \/ contents'.voter[c] = [parent |-> voter_best[c].hash, votes |-> y]
    <2>1. CASE HandleSignals
      <3> DEFINE shifted == {c \in Chain : /\ NewVoterBlock(c) \in context_update_chan
                                           /\ voter_best[c].hash # contents.voter[c].parent}
      <3>1. /\ DOMAIN contents' = {"proposer", "voter"}
            /\ contents'.proposer = contents.proposer
            /\ \A c \in Chain : contents'.voter[c] =
                 [parent |-> IF c \in shifted THEN voter_best[c].hash
                             ELSE contents.voter[c].parent,
                  votes |-> contents.voter[c].votes]
        BY Zenon, <2>1, ContentsChange
      <3> HIDE DEF shifted
      <3> QED
        BY ZenonT(30), <3>1, <1>a
    <2>2. CASE AppendTransactionRefs \/ RefreshTransactionRefs \/ RefreshProposerRefs
      <3>1. /\ DOMAIN contents' = {"proposer", "voter"}
            /\ DOMAIN contents'.proposer = {"refs", "txs"}
            /\ contents'.voter = contents.voter
        BY Zenon, <2>2, ContentsChange
      <3> QED
        BY ZenonT(30), <3>1, <1>a
    <2>3. CASE UpdateVotes
      <3>1. /\ DOMAIN contents' = {"proposer", "voter"}
            /\ contents'.proposer = contents.proposer
            /\ \A c \in Chain : \E y : contents'.voter[c] =
                 [parent |-> contents.voter[c].parent, votes |-> y]
        BY ZenonT(30), <2>3, ContentsChange
      <3>2. \A c \in Chain : \E y :
              \/ contents'.voter[c] = [parent |-> contents.voter[c].parent, votes |-> y]
              \/ contents'.voter[c] = [parent |-> voter_best[c].hash, votes |-> y]
        BY <3>1, Zenon
      <3> QED
        BY ZenonT(30), <3>1, <3>2, <1>a
    <2>4. CASE contents' = contents
      BY Zenon, <2>4, <1>a
    <2>5. ASSUME NEW t \in Thread \ {miner}, Insert(t) \/ SendSignals(t)
          PROVE  contents' = contents
      BY <2>5, WorkerStep DEF minerVars
    <2>6. CASE UpdateBestProposer \/ CheckBest \/ NoLuck \/ SkipEmpty \/ SignalMined
               \/ MineProposer \/ MineVoter \/ MineTransaction \/ InsertMined \/ UNCHANGED vars
      <3>1. contents' = contents
        BY Zenon, <2>6 DEF UpdateBestProposer, CheckBest, NoLuck, SkipEmpty, SignalMined,
                    MineProposer, MineVoter, MineTransaction, Mine, InsertMined, vars, minerVars
      <3> QED
        BY ZenonT(30), <3>1, <2>4
    <2> QED
      BY ZenonT(30), <2>1, <2>2, <2>3, <2>4, <2>5, <2>6 DEF MinerNext, miner_loop
  <1>2. ASSUME NEW c \in Chain
        PROVE  LET v == contents'.voter[c]
               IN  /\ v = [parent |-> v.parent, votes |-> v.votes]
                   /\ v.parent \in DOMAIN voter_node'
                   /\ voter_node'[v.parent].chain = c
    <2>1. PICK x, y : /\ contents'.voter[c] = [parent |-> x, votes |-> y]
                      /\ x = contents.voter[c].parent \/ x = voter_best[c].hash
      BY Zenon, <1>1
    <2>2. x \in DOMAIN voter_node /\ voter_node[x].chain = c
      <3>1. /\ contents.voter[c].parent \in DOMAIN voter_node
            /\ voter_node[contents.voter[c].parent].chain = c
        BY Zenon, <1>a
      <3>2. voter_best[c].hash \in DOMAIN voter_node /\ voter_node[voter_best[c].hash].chain = c
        BY <1>c
      <3>3. CASE x = contents.voter[c].parent
        BY <3>1, <3>3
      <3>4. CASE x = voter_best[c].hash
        BY <3>2, <3>4
      <3> QED
        BY Zenon, <2>1, <3>3, <3>4
    <2>3. x \in DOMAIN voter_node' /\ voter_node'[x].chain = c
      BY <2>2, <1>b
    <2>4. PICK v : v = contents'.voter[c]
      OBVIOUS
    <2>5. v.parent = x /\ v.votes = y /\ v = [parent |-> v.parent, votes |-> v.votes]
      BY <2>1, <2>4
    <2> QED
      BY Zenon, <2>3, <2>4, <2>5
  <1> QED
    BY <1>1, <1>2

\* The signal of the block that the miner inserts.
LEMMA MinedNext ==
  ASSUME StoreInv, ContentsOK, [MinerNext]_vars
  PROVE  /\ mpc' # "insert" => pc'[miner] = "idle" /\ mined' = <<>>
         /\ mpc' = "insert" =>
              /\ mined' \in Signal
              /\ pc'[miner] \in Uncommitted \cup Committed => mined' = NewProposerBlock
              /\ pc'[miner] = "tx_commit" => mined' = NewTransactionBlock
              /\ pc'[miner] = "voter_best" => mined' = NewVoterBlock(block'[miner].chain)
  <1>m. miner \in Thread
    BY MinerAssumption
  <1>a. /\ mpc # "insert" => pc[miner] = "idle" /\ mined = <<>>
        /\ mpc = "insert" =>
             /\ mined \in Signal
             /\ pc[miner] \in Uncommitted \cup Committed => mined = NewProposerBlock
             /\ pc[miner] = "tx_commit" => mined = NewTransactionBlock
             /\ pc[miner] = "voter_best" => mined = NewVoterBlock(block[miner].chain)
    BY DEF ContentsOK
  <1> DEFINE Goal == /\ mpc' # "insert" => pc'[miner] = "idle" /\ mined' = <<>>
                     /\ mpc' = "insert" =>
                          /\ mined' \in Signal
                          /\ pc'[miner] \in Uncommitted \cup Committed => mined' = NewProposerBlock
                          /\ pc'[miner] = "tx_commit" => mined' = NewTransactionBlock
                          /\ pc'[miner] = "voter_best" => mined' = NewVoterBlock(block'[miner].chain)
  <1>1. CASE UNCHANGED <<mpc, mined, pc[miner], block[miner]>>
    BY <1>1, <1>a
  <1>2. ASSUME NEW t \in Thread \ {miner}, Insert(t) \/ SendSignals(t) PROVE Goal
    <2>1. UNCHANGED <<mpc, mined, pc[miner], block[miner]>>
      BY SMTT(30), <1>2, WorkerStep DEF minerVars
    <2> QED
      BY SMTT(30), <2>1, <1>1
  <1>3. CASE UNCHANGED vars
    BY SMTT(30), <1>1, <1>3 DEF vars, minerVars, bcVars
  <1>4. CASE HandleSignals \/ AppendTransactionRefs \/ UpdateBestProposer
             \/ RefreshTransactionRefs \/ RefreshProposerRefs \/ CheckBest \/ UpdateVotes
             \/ NoLuck \/ SkipEmpty
    <2>1. mpc # "insert" /\ mpc' # "insert" /\ UNCHANGED <<mined, pc>>
      BY <1>4 DEF HandleSignals, AppendTransactionRefs, UpdateBestProposer,
                  RefreshTransactionRefs, RefreshProposerRefs, CheckBest, UpdateVotes,
                  NoLuck, SkipEmpty, At, bcVars
    <2> QED
      BY SMTT(30), <2>1, <1>a
  <1>5. CASE SignalMined
    BY <1>5 DEF SignalMined, At, bcVars
  <1>6. CASE MineProposer
    <2>1. mpc' = "insert" /\ mined' = NewProposerBlock
      BY SMTT(30), <1>6 DEF MineProposer, Mine, At
    <2>2. pc'[miner] = "unconfirmed"
      BY Zenon, <1>6, <1>m DEF MineProposer, MarkUnreferredProposer, Goto, After, StoreInv, ThreadsOK
    <2> QED
      BY SMTT(30), <2>1, <2>2 DEF Signal
  <1>7. CASE MineVoter
    <2>1. PICK h \in VoterHash \ DOMAIN voter_node, c \in Chain :
            /\ Mine(NewVoterBlock(c))
            /\ CommitVoter(miner, h, contents.voter[c].parent, parent, contents.voter[c].votes)
      BY <1>7 DEF MineVoter
    <2>2. mpc' = "insert" /\ mined' = NewVoterBlock(c)
      BY <2>1 DEF Mine, At
    <2>3. pc'[miner] = "voter_best" /\ block'[miner].chain = voter_node[contents.voter[c].parent].chain
      BY ZenonT(30), <2>1, <1>m DEF CommitVoter, Goto, StoreInv, ThreadsOK
    <2>4. block'[miner].chain = c
      BY Zenon, <2>3 DEF ContentsOK
    <2> QED
      BY <2>2, <2>3, <2>4 DEF Signal, Uncommitted, Committed
  <1>8. CASE MineTransaction
    <2>1. mpc' = "insert" /\ mined' = NewTransactionBlock
      BY <1>8 DEF MineTransaction, Mine, At
    <2>2. pc'[miner] = "tx_commit"
      BY ZenonT(30), <1>8, <1>m, OtherSteps DEF MineTransaction, Moves
    <2> QED
      BY <2>1, <2>2 DEF Signal, Uncommitted, Committed
  <1>9. CASE InsertMined
    <2>1. /\ mpc = "insert" /\ mpc' = "insert" /\ mined' = mined
      BY <1>9 DEF InsertMined, minerVars
    <2>2. CASE CommitProposer(miner)
      BY ZenonT(30), <2>1, <2>2, <1>a, <1>m DEF CommitProposer, Goto, After, StoreInv, ThreadsOK,
                                    Uncommitted, Committed
    <2>3. CASE ~CommitProposer(miner)
      <3>1. \/ pc'[miner] = "idle"
            \/ pc'[miner] = "commit" /\ pc[miner] = "unconfirmed"
            \/ pc'[miner] = "unrefer_transactions" /\ pc[miner] = "unrefer_proposers"
        BY Zenon, <1>9, <1>m, <2>3, OtherSteps DEF InsertMined, Moves
      <3> QED
        BY <2>1, <3>1, <1>a DEF Uncommitted, Committed
    <2> QED
      BY Zenon, <2>2, <2>3
  <1> QED
    BY ZenonT(30), <1>2, <1>3, <1>4, <1>5, <1>6, <1>7, <1>8, <1>9 DEF MinerNext, miner_loop

\* Together.
LEMMA ContentsNext ==
  ASSUME StoreInv, ContentsOK, [MinerNext]_vars
  PROVE  ContentsOK'
  <1>1. /\ mpc' \in {"signals", "best", "append_txs", "refresh_txs", "refresh_proposers",
                     "check", "votes", "mine", "insert"}
        /\ new_proposer_block' \in BOOLEAN
        /\ parent' \in DOMAIN proposer_node'
    BY LoopNext
  <1>2. /\ DOMAIN contents' = {"proposer", "voter"}
        /\ DOMAIN contents'.proposer = {"refs", "txs"}
        /\ \A c \in Chain :
             LET v == contents'.voter[c]
             IN  /\ v = [parent |-> v.parent, votes |-> v.votes]
                 /\ v.parent \in DOMAIN voter_node'
                 /\ voter_node'[v.parent].chain = c
    BY Zenon, EntriesNext
  <1>3. /\ mpc' # "insert" => pc'[miner] = "idle" /\ mined' = <<>>
        /\ mpc' = "insert" =>
             /\ mined' \in Signal
             /\ pc'[miner] \in Uncommitted \cup Committed => mined' = NewProposerBlock
             /\ pc'[miner] = "tx_commit" => mined' = NewTransactionBlock
             /\ pc'[miner] = "voter_best" => mined' = NewVoterBlock(block'[miner].chain)
    BY MinedNext
  <1>4. Chain' = Chain /\ Signal' = Signal
    BY DEF Chain, Signal, NewProposerBlock, NewTransactionBlock, NewVoterBlock
  <1>5. \A c \in Chain' :
             LET v == contents'.voter[c]
             IN  /\ v = [parent |-> v.parent, votes |-> v.votes]
                 /\ v.parent \in DOMAIN voter_node'
                 /\ voter_node'[v.parent].chain = c
    BY ZenonT(30), <1>2, <1>4
  <1> QED
    BY <1>1, <1>2, <1>3, <1>5, Zenon DEF ContentsOK

-----------------------------------------------------------------------------
(* The votes of what is mined are valid.                                   *)

\* Every step keeps the votes valid, or sets a flag that makes UpdateVotes renew them.
LEMMA VotesNext ==
  ASSUME StoreInv, ContentsOK, VotesInv, [MinerNext]_vars
  PROVE  VotesInv'
  <1> DEFINE Bound(c) ==
               voter_node[contents.voter[c].parent].voted_level <= proposer_node[parent].level
  <1>g. Grows
    BY StoreKept
  <1>c. Chain' = Chain
    BY DEF Chain
  <1>v. /\ mpc \in {"best", "refresh_txs", "refresh_proposers"} => new_proposer_block
        /\ mpc \notin Between \/ (~new_proposer_block /\ new_voter_block = {}) =>
             \A c \in Chain : ValidVote(c)
        /\ mpc = "votes" => \A c \in Chain : Bound(c)
    BY DEF VotesInv
  <1>s. ASSUME UNCHANGED parent, \A c \in Chain : contents'.voter[c] = contents.voter[c]
        PROVE  /\ \A c \in Chain : ValidVote(c) => ValidVote(c)'
               /\ \A c \in Chain : Bound(c) => Bound(c)'
    BY ZenonT(30), <1>s, <1>g, ValidStays
  <1> HIDE DEF Bound
  <1>w. SUFFICES
          /\ mpc' \in {"best", "refresh_txs", "refresh_proposers"} => new_proposer_block'
          /\ mpc' \notin Between \/ (~new_proposer_block' /\ new_voter_block' = {}) =>
               \A c \in Chain : ValidVote(c)'
          /\ mpc' = "votes" => \A c \in Chain : Bound(c)'
    BY Zenon, <1>c DEF VotesInv, Bound
  <1>1. CASE /\ UNCHANGED <<parent, contents, new_proposer_block, new_voter_block>>
             /\ mpc' = mpc \/ (mpc \notin Between /\ mpc' \notin Between)
    BY <1>1, <1>s, <1>v DEF Between
  <1>2. CASE NoLuck \/ SkipEmpty \/ SignalMined \/ MineProposer \/ MineVoter \/ MineTransaction
             \/ InsertMined \/ UNCHANGED vars
    <2>1. /\ UNCHANGED <<parent, contents, new_proposer_block, new_voter_block>>
          /\ mpc' = mpc \/ (mpc \notin Between /\ mpc' \notin Between)
      BY Zenon, <1>2 DEF NoLuck, SkipEmpty, SignalMined, MineProposer, MineVoter, MineTransaction,
                  Mine, At, InsertMined, vars, minerVars, roundVars, Between
    <2> QED
      BY <1>1, <2>1
  <1>3. CASE \E t \in Thread \ {miner} : Insert(t) \/ SendSignals(t)
    <2>1. UNCHANGED minerVars
      BY <1>3, WorkerStep
    <2> QED
      BY <1>1, <2>1 DEF minerVars, roundVars
  <1>4. CASE HandleSignals
    <2> DEFINE shifted == {c \in Chain : /\ NewVoterBlock(c) \in context_update_chan
                                         /\ voter_best[c].hash # contents.voter[c].parent}
    <2>1. /\ mpc = "signals" /\ UNCHANGED parent
          /\ new_proposer_block' = (NewProposerBlock \in context_update_chan)
          /\ new_voter_block' = {c \in Chain : NewVoterBlock(c) \in context_update_chan}
          /\ mpc' \in {"best", "append_txs", "check"}
          /\ mpc' = "best" => NewProposerBlock \in context_update_chan
      BY <1>4 DEF HandleSignals
    <2>2. \A c \in Chain : contents'.voter[c] =
            [parent |-> IF c \in shifted THEN voter_best[c].hash ELSE contents.voter[c].parent,
             votes |-> contents.voter[c].votes]
      BY Zenon, <1>4, ContentsChange
    <2>3. ASSUME new_voter_block' = {} PROVE \A c \in Chain : ValidVote(c)'
      <3>1. shifted = {}
        BY <2>1, <2>3
      <3> HIDE DEF shifted
      <3>2. \A c \in Chain : contents'.voter[c] = contents.voter[c]
        BY ZenonT(30), <2>2, <3>1 DEF ContentsOK
      <3> QED
        BY Zenon, <2>1, <3>2, <1>s, <1>v DEF Between
    <2> HIDE DEF shifted
    <2> QED
      BY ZenonT(30), <2>1, <2>3 DEF Between
  <1>5. CASE AppendTransactionRefs \/ RefreshTransactionRefs \/ RefreshProposerRefs
    <2>1. contents'.voter = contents.voter
      BY Zenon, <1>5, ContentsChange
    <2>2. /\ UNCHANGED <<parent, new_proposer_block, new_voter_block>>
          /\ \/ mpc = "append_txs" /\ mpc' = "check"
             \/ mpc = "refresh_txs" /\ mpc' = "refresh_proposers"
             \/ mpc = "refresh_proposers" /\ mpc' = "check"
      BY <1>5 DEF AppendTransactionRefs, RefreshTransactionRefs, RefreshProposerRefs, At, roundVars
    <2> QED
      BY <2>1, <2>2, <1>s, <1>v DEF Between
  <1>6. CASE UpdateBestProposer
    BY <1>6, <1>v DEF UpdateBestProposer, At, roundVars, Between
  <1>7. CASE CheckBest
    <2>1. /\ mpc = "check" /\ parent' = best_proposer
          /\ new_proposer_block' = (new_proposer_block \/ parent # best_proposer)
          /\ mpc' = IF parent = best_proposer THEN "votes" ELSE "refresh_txs"
          /\ UNCHANGED <<contents, new_voter_block>>
      BY <1>7 DEF CheckBest
    <2>2. CASE parent = best_proposer
      <3>1. \A c \in Chain : Bound(c)
        <4>1. proposer_node[parent].level = proposer_best_level /\ proposer_best_level \in Nat
          BY SMTT(30), <2>2, BestCommitted DEF StoreInv, TreeOK
        <4>2. \A c \in Chain :
                voter_node[contents.voter[c].parent].voted_level \in 0 .. proposer_best_level
          BY ZenonT(30) DEF ContentsOK, StoreInv, ChainsOK
        <4> QED
          BY <4>1, <4>2 DEF Bound
      <3>2. UNCHANGED parent /\ (new_proposer_block' = new_proposer_block) /\ mpc' = "votes"
        BY <2>1, <2>2 DEF ContentsOK
      <3>3. \A c \in Chain : contents'.voter[c] = contents.voter[c]
        BY <2>1
      <3>4. /\ \A c \in Chain : ValidVote(c) => ValidVote(c)'
            /\ \A c \in Chain : Bound(c) => Bound(c)'
        BY <3>2, <3>3, <1>s
      <3> QED
        BY SMTT(30), <2>1, <3>1, <3>2, <3>4, <1>v DEF Between
    <2>3. CASE parent # best_proposer
      BY ZenonT(30), <2>1, <2>3 DEF Between
    <2> QED
      BY <2>2, <2>3
  <1>8. CASE UpdateVotes
    <2>1. mpc = "votes" /\ mpc' = "mine" /\ UNCHANGED <<parent, bcVars>>
      BY <1>8 DEF UpdateVotes, At
    <2>2. CASE new_proposer_block \/ new_voter_block # {}
      <3>1. \A c \in Chain : contents'.voter[c] =
              [parent |-> contents.voter[c].parent,
               votes |-> unvoted_proposer(contents.voter[c].parent, parent)]
        BY ZenonT(30), <1>8, <2>2, ContentsChange
      <3>2. ASSUME NEW c \in Chain PROVE ValidVote(c)'
        <4>1. /\ contents'.voter[c].parent = contents.voter[c].parent
              /\ contents'.voter[c].votes = unvoted_proposer(contents.voter[c].parent, parent)
          <5>1. PICK x, y : /\ x = contents.voter[c].parent
                            /\ y = unvoted_proposer(contents.voter[c].parent, parent)
            OBVIOUS
          <5>2. contents'.voter[c] = [parent |-> x, votes |-> y]
            BY <3>1, <5>1, Zenon
          <5>3. contents'.voter[c].parent = x /\ contents'.voter[c].votes = y
            BY <5>2
          <5> QED
            BY <5>1, <5>3, Zenon
        <4>2. contents'.voter[c].votes \in VoteLists(contents.voter[c].parent, parent)
          <5>1. contents.voter[c].parent \in DOMAIN voter_node /\ parent \in DOMAIN proposer_node
            BY Zenon DEF ContentsOK
          <5>2. unvoted_proposer(contents.voter[c].parent, parent)
                  \in VoteLists(contents.voter[c].parent, parent)
            BY <5>1, VotesAreValid, Zenon
          <5> QED
            BY <4>1, <5>2, Zenon
        <4>3. VoteLists(contents.voter[c].parent, parent)' = VoteLists(contents'.voter[c].parent, parent)
          BY <2>1 DEF VoteLists, bcVars, dbVars
        <4>4. Bound(c)
          BY <2>1, <1>v
        <4> QED
          BY Zenon, <2>1, <4>1, <4>2, <4>3, <4>4 DEF ValidVote, Bound, bcVars, dbVars
      <3> QED
        BY <2>1, <3>2
    <2>3. CASE ~(new_proposer_block \/ new_voter_block # {})
      <3>1. contents' = contents
        BY <1>8, <2>3 DEF UpdateVotes
      <3> QED
        BY <2>1, <2>3, <3>1, <1>s, <1>v DEF Between
    <2> QED
      BY <2>2, <2>3
  <1> QED
    BY <1>2, <1>3, <1>4, <1>5, <1>6, <1>7, <1>8 DEF MinerNext, miner_loop

\* The genesis blocks.
LEMMA InitStore ==
  ASSUME MinerInit
  PROVE  StoreInv
  <1>1. Init
    BY DEF MinerInit
  <1> DEFINE V == {voter_genesis(c) : c \in Chain}
  <1>2. TreeOK
    <2>1. /\ proposer_best_level = 0 /\ 0 .. 0 = {0}
          /\ DOMAIN proposer_node = {0} /\ proposer_node[0].level = 0
          /\ DOMAIN proposer_tree_level = {0} /\ proposer_tree_level[0] = <<0>>
      BY <1>1 DEF Init, proposer_genesis
    <2>2. <<0>> \in Seq({0}) /\ <<0>> # <<>> /\ Len(<<0>>) = 1 /\ <<0>>[1] = 0
      OBVIOUS
    <2>3. PICK q : q = proposer_tree_level[0]
      OBVIOUS
    <2>4. /\ q \in Seq({0}) /\ q # <<>> /\ \A i \in 1 .. Len(q) : q[i] = 0
      BY SMTT(30), <2>1, <2>2, <2>3
    <2> QED
      BY SMTT(30), <2>1, <2>3, <2>4 DEF TreeOK
  <1>3. ChainsOK
    <2>1. Chain \subseteq Int /\ IsFiniteSet(Chain)
      BY ChainAssumption, FS_Interval DEF Chain
    <2>2. IsFiniteSet(V)
      <3>1. PICK f : f = [c \in Chain |-> voter_genesis(c)]
        BY Zenon
      <3>2. V = {f[c] : c \in Chain}
        BY SMTT(30), <3>1
      <3> HIDE DEF V
      <3> QED
        BY ZenonT(30), <2>1, <3>2, ImageFinite
    <2>3. DOMAIN voter_node = V /\ proposer_best_level = 0
      BY SMTT(30), <1>1 DEF Init
    <2>4. \A c \in Chain : voter_node[voter_genesis(c)].chain = c
                           /\ voter_node[voter_genesis(c)].voted_level = 0
      BY SMTT(30), <1>1, <2>1 DEF Init, voter_genesis
    <2>5. DOMAIN voter_best = Chain /\ \A c \in Chain : voter_best[c].hash = voter_genesis(c)
      BY <1>1 DEF Init
    <2>6. \A v \in DOMAIN voter_node : voter_node[v].chain \in Chain /\ voter_node[v].voted_level \in 0 .. 0
      BY <2>3, <2>4
    <2> QED
      BY <2>2, <2>3, <2>4, <2>5, <2>6 DEF ChainsOK
  <1>4. ThreadsOK
    BY Zenon, <1>1, FS_EmptySet DEF Init, ThreadsOK, Uncommitted
  <1> QED
    BY SMTT(30), <1>2, <1>3, <1>4 DEF StoreInv

\* The miner starts on the genesis blocks, with nothing to vote for.
LEMMA InitContents ==
  ASSUME MinerInit
  PROVE  ContentsOK /\ VotesInv
  <1>1. StoreInv
    BY InitStore
  <1>2. /\ parent = 0 /\ DOMAIN proposer_node = {0} /\ proposer_node[0].level = 0
        /\ mpc = "signals" /\ mined = <<>> /\ new_proposer_block = FALSE
        /\ DOMAIN contents = {"proposer", "voter"}
        /\ DOMAIN contents.proposer = {"refs", "txs"}
        /\ pc[miner] = "idle"
    BY ZenonT(30), MinerAssumption DEF MinerInit, Init, proposer_genesis
  <1>3. \A c \in Chain : /\ contents.voter[c] = [parent |-> voter_genesis(c), votes |-> <<>>]
                         /\ voter_best[c].hash = voter_genesis(c)
    BY Zenon DEF MinerInit, Init
  <1>4. \A c \in Chain :
           /\ voter_genesis(c) \in DOMAIN voter_node
           /\ voter_node[voter_genesis(c)].chain = c
    BY Zenon, <1>1, <1>3 DEF StoreInv, ChainsOK
  <1>5. \A c \in Chain : voter_node[voter_genesis(c)].voted_level = 0
    BY DEF MinerInit, Init
  <1>p. \A c \in Chain : /\ contents.voter[c].parent = voter_genesis(c)
                         /\ contents.voter[c].votes = <<>>
    <2>1. ASSUME NEW c \in Chain
          PROVE  contents.voter[c].parent = voter_genesis(c) /\ contents.voter[c].votes = <<>>
      <3>1. PICK x, y : x = voter_genesis(c) /\ y = <<>>
        OBVIOUS
      <3>2. contents.voter[c] = [parent |-> x, votes |-> y]
        BY <1>3, <3>1, Zenon
      <3> QED
        BY <3>1, <3>2
    <2> QED
      BY ZenonT(30), <2>1
  <1>e. \A c \in Chain : contents.voter[c] =
          [parent |-> contents.voter[c].parent, votes |-> contents.voter[c].votes]
    BY <1>3, <1>p
  <1>6. ContentsOK
    <2>1. \A c \in Chain :
            LET v == contents.voter[c]
            IN  /\ v = [parent |-> v.parent, votes |-> v.votes]
                /\ v.parent \in DOMAIN voter_node
                /\ voter_node[v.parent].chain = c
      BY <1>4, <1>p, <1>e, Zenon
    <2> QED
      BY Zenon, <1>2, <2>1 DEF ContentsOK
  <1>7. ASSUME NEW c \in Chain PROVE ValidVote(c)
    <2>1. contents.voter[c].parent = voter_genesis(c) /\ contents.voter[c].votes = <<>>
      BY <1>p
    <2>2. voter_node[voter_genesis(c)].voted_level = 0
      BY <1>5
    <2>3. VoteLists(voter_genesis(c), parent) =
            {v \in [1 .. 0 -> DOMAIN proposer_node] :
               \A i \in 1 .. 0 : proposer_node[v[i]].level = 0 + i}
      BY <1>2, <2>2 DEF VoteLists
    <2>4. <<>> \in VoteLists(voter_genesis(c), parent)
      BY <2>3
    <2> QED
      BY <2>1, <2>2, <2>4, <1>2 DEF ValidVote
  <1>8. VotesInv
    BY <1>2, <1>7 DEF VotesInv
  <1> QED
    BY <1>6, <1>8

\* Every voter block that the miner may mine passes check_levels_voted at the other
\* nodes, however the insertions of the network workers interleave with its round.
THEOREM MinedVotesAreValid == MinerSpec => []MinedVotesValid
  <1> DEFINE IInv == StoreInv /\ ContentsOK /\ VotesInv
  <1>1. MinerInit => IInv
    BY InitStore, InitContents
  <1>2. IInv /\ [MinerNext]_vars => IInv'
    BY SMTT(30), StoreKept, ContentsNext, VotesNext
  <1>3. IInv => MinedVotesValid
    BY DEF VotesInv, MinedVotesValid, ValidVote, Mining, Between
  <1> QED
    BY <1>1, <1>2, <1>3, PTL DEF MinerSpec

-----------------------------------------------------------------------------
(* No signal is lost.                                                      *)

\* Every thread has its signals.
SignalsOK == DOMAIN unsent = Thread

\* A thread that leaves insert_block has a signal for it on its way.
Signals(t) ==
  /\ pc[t] = "unrefer_transactions" => Awaited(NewProposerBlock)'
  /\ pc[t] = "tx_commit" => Awaited(NewTransactionBlock)'
  /\ \A c \in Chain : pc[t] = "voter_best" /\ block[t].chain = c => Awaited(NewVoterBlock(c))'

\* The signals differ, and none is the empty one.
LEMMA SignalsDiffer ==
  /\ NewProposerBlock # <<>> /\ NewTransactionBlock # <<>>
  /\ NewProposerBlock # NewTransactionBlock
  /\ \A c : NewVoterBlock(c) # <<>> /\ NewVoterBlock(c) # NewProposerBlock
            /\ NewVoterBlock(c) # NewTransactionBlock
  /\ \A c, d : NewVoterBlock(c) = NewVoterBlock(d) => c = d
  /\ <<>> \notin Signal
  BY DEF NewProposerBlock, NewTransactionBlock, NewVoterBlock, Signal

\* Every step on the block store is one of a thread that signals what it inserts.
LEMMA StepSignals ==
  ASSUME StoreInv, ContentsOK, SignalsOK, [MinerNext]_vars
  PROVE  (\E t \in Thread : StoreStep(t) /\ Signals(t)) \/ UNCHANGED bcVars
  <1>m. miner \in Thread
    BY MinerAssumption
  <1>1. ASSUME NEW t \in Thread \ {miner}, Insert(t) PROVE StoreStep(t) /\ Signals(t)
    <2>1. StoreStep(t)
      BY <1>1, InsertIsStep
    <2>2. unsent'[t] = unsent[t] \cup SignalFor(t)
      BY <1>1 DEF Insert, SignalsOK
    <2>3. /\ pc[t] = "unrefer_transactions" => SignalFor(t) = {NewProposerBlock}
          /\ pc[t] = "tx_commit" => SignalFor(t) = {NewTransactionBlock}
          /\ pc[t] = "voter_best" => SignalFor(t) = {NewVoterBlock(block[t].chain)}
      BY DEF SignalFor
    <2>4. ASSUME NEW s, s \in SignalFor(t)
          PROVE  \E u \in Thread : s \in unsent'[u]
      BY SMTT(30), <2>2, <2>4
    <2>5. /\ pc[t] = "unrefer_transactions" => \E u \in Thread : NewProposerBlock \in unsent'[u]
          /\ pc[t] = "tx_commit" => \E u \in Thread : NewTransactionBlock \in unsent'[u]
          /\ \A c \in Chain : pc[t] = "voter_best" /\ block[t].chain = c =>
               \E u \in Thread : NewVoterBlock(c) \in unsent'[u]
      BY <2>3, <2>4
    <2> QED
      BY <2>1, <2>5 DEF Signals, Awaited, NewProposerBlock, NewTransactionBlock, NewVoterBlock
  <1>2. CASE InsertMined
    <2>1. StoreStep(miner)
      BY <1>2 DEF InsertMined, StoreStep
    <2>2. mined' = mined /\ mpc = "insert"
      BY SMTT(30), <1>2 DEF InsertMined, minerVars
    <2>3. Signals(miner)
      BY <2>2 DEF Signals, Awaited, ContentsOK, Committed, NewProposerBlock,
                  NewTransactionBlock, NewVoterBlock
    <2> QED
      BY <1>m, <2>1, <2>3
  <1>3. CASE MineProposer \/ MineVoter \/ MineTransaction
    <2>1. mpc = "mine"
      BY ZenonT(30), <1>3 DEF MineProposer, MineVoter, MineTransaction, Mine, At
    <2>2. pc[miner] = "idle"
      BY Zenon, <2>1 DEF ContentsOK
    <2>3. StoreStep(miner)
      BY <1>3, MineIsStep
    <2>4. Signals(miner)
      BY SMTT(30), <2>2 DEF Signals
    <2> QED
      BY <1>m, <2>3, <2>4
  <1>4. CASE HandleSignals \/ AppendTransactionRefs \/ UpdateBestProposer
             \/ RefreshTransactionRefs \/ RefreshProposerRefs \/ CheckBest \/ UpdateVotes
             \/ NoLuck \/ SkipEmpty \/ SignalMined
    BY <1>4 DEF HandleSignals, AppendTransactionRefs, UpdateBestProposer,
                RefreshTransactionRefs, RefreshProposerRefs, CheckBest, UpdateVotes,
                NoLuck, SkipEmpty, SignalMined
  <1>5. CASE \E t \in Thread : SendSignals(t)
    BY <1>5 DEF SendSignals
  <1>6. CASE UNCHANGED vars
    BY <1>6 DEF vars
  <1> QED
    BY <1>1, <1>2, <1>3, <1>4, <1>5, <1>6 DEF MinerNext, miner_loop

\* A signal stays on its way until the miner takes it out of the channel.
LEMMA AwaitedStays ==
  ASSUME ContentsOK, SignalsOK, [MinerNext]_vars, NEW s \in Signal, Awaited(s),
         ~(HandleSignals /\ s \in context_update_chan)
  PROVE  Awaited(s)'
  <1> DEFINE Goal == \/ s \in context_update_chan' \/ mined' = s
                     \/ \E t \in Thread : s \in unsent'[t]
  <1> SUFFICES Goal
    BY DEF Awaited
  <1>a. \/ s \in context_update_chan \/ mined = s
        \/ \E t \in Thread : s \in unsent[t]
    BY DEF Awaited
  <1>b. s # <<>>
    BY SignalsDiffer
  <1>1. CASE HandleSignals
    BY <1>1, <1>a DEF HandleSignals
  <1>2. CASE \/ AppendTransactionRefs \/ UpdateBestProposer
             \/ RefreshTransactionRefs \/ RefreshProposerRefs \/ CheckBest \/ UpdateVotes
             \/ NoLuck \/ SkipEmpty \/ InsertMined \/ UNCHANGED vars
    <2>1. /\ UNCHANGED <<unsent, mined>> /\ context_update_chan \subseteq context_update_chan'
      BY <1>2 DEF AppendTransactionRefs, UpdateBestProposer,
                  RefreshTransactionRefs, RefreshProposerRefs, CheckBest, UpdateVotes,
                  NoLuck, SkipEmpty, InsertMined, vars, signalVars, minerVars
    <2> QED
      BY SMTT(30), <2>1, <1>a
  <1>3. CASE MineProposer \/ MineVoter \/ MineTransaction
    <2>1. UNCHANGED <<unsent, context_update_chan>> /\ mpc = "mine"
      BY ZenonT(30), <1>3 DEF MineProposer, MineVoter, MineTransaction, Mine, At, signalVars
    <2>2. mined = <<>>
      BY ZenonT(30), <2>1 DEF ContentsOK
    <2> QED
      BY <2>1, <2>2, <1>a, <1>b
  <1>4. CASE SignalMined
    BY <1>4, <1>a DEF SignalMined
  <1>5. ASSUME NEW t \in Thread, Insert(t) PROVE Goal
    <2>1. UNCHANGED <<context_update_chan, mined>> /\ \A u \in Thread : unsent[u] \subseteq unsent'[u]
      BY <1>5 DEF Insert, minerVars, SignalsOK
    <2> QED
      BY Zenon, <2>1, <1>a
  <1>6. ASSUME NEW t \in Thread, SendSignals(t) PROVE Goal
    <2>1. /\ UNCHANGED mined /\ context_update_chan' = context_update_chan \cup unsent[t]
          /\ \A u \in Thread \ {t} : unsent'[u] = unsent[u]
      BY <1>6 DEF SendSignals, minerVars, SignalsOK
    <2> QED
      BY <2>1, <1>a
  <1> QED
    BY ZenonT(30), <1>1, <1>2, <1>3, <1>4, <1>5, <1>6 DEF MinerNext, miner_loop

\* What a step on the block store does to the stage of its thread.
LEMMA StageNext ==
  ASSUME StoreInv, NEW t \in Thread, StoreStep(t)
  PROVE  /\ pc[t] \in Uncommitted \cup Committed =>
              pc[t] = "unrefer_transactions" \/ pc'[t] \in Uncommitted \cup Committed
         /\ \A u \in Thread \ {t} : pc'[u] = pc[u] /\ block'[u] = block[u]
  <1>1. \A u \in Thread \ {t} : pc'[u] = pc[u] /\ block'[u] = block[u]
    BY StepMoves DEF Moves
  <1>2. CASE CommitProposer(t)
    BY ZenonT(30), <1>1, <1>2 DEF CommitProposer, Goto, After, StoreInv, ThreadsOK, Uncommitted, Committed
  <1>3. CASE StartVoter(t)
    <2>1. pc[t] = "idle"
      BY <1>3, VoterGrows
    <2> QED
      BY <1>1, <2>1 DEF Uncommitted, Committed
  <1>4. ASSUME NEW b, StartProposer(t, b) PROVE pc'[t] \in Uncommitted
    BY ZenonT(30), <1>4, OtherSteps DEF Moves, Uncommitted
  <1>5. CASE \/ MarkUnconfirmed(t) \/ UnreferProposers(t) \/ UnreferTransactions(t)
             \/ UpdateVoterBest(t) \/ InsertTransaction(t) \/ CommitTransaction(t)
    <2>1. \/ pc'[t] \in {"commit", "unrefer_transactions"}
          \/ pc[t] \in {"unrefer_transactions", "voter_best", "idle", "tx_commit"}
      BY Zenon, <1>5, OtherSteps DEF Moves
    <2> QED
      BY ZenonT(30), <1>1, <2>1 DEF Uncommitted, Committed
  <1> QED
    BY ZenonT(30), <1>1, <1>2, <1>3, <1>4, <1>5 DEF StoreStep

\* That a block is announced stays so, until the miner takes its signal.
LEMMA AnnouncedStays ==
  ASSUME StoreInv, ContentsOK, SignalsOK, [MinerNext]_vars
  PROVE  /\ ProposerAwaited /\ ~(HandleSignals /\ NewProposerBlock \in context_update_chan) =>
              ProposerAwaited'
         /\ TransactionAwaited /\ ~(HandleSignals /\ NewTransactionBlock \in context_update_chan) =>
              TransactionAwaited'
         /\ \A c \in Chain :
              VoterAwaited(c) /\ ~(HandleSignals /\ NewVoterBlock(c) \in context_update_chan) =>
                VoterAwaited(c)'
  <1>s. /\ NewProposerBlock \in Signal /\ NewTransactionBlock \in Signal
        /\ \A c \in Chain : NewVoterBlock(c) \in Signal
    BY DEF Signal
  <1>u. ASSUME UNCHANGED bcVars PROVE UNCHANGED <<pc, block>>
    BY <1>u DEF bcVars
  <1>1. ASSUME ProposerAwaited, ~(HandleSignals /\ NewProposerBlock \in context_update_chan)
        PROVE  ProposerAwaited'
    <2>1. CASE Awaited(NewProposerBlock)
      <3>1. \A s \in Signal : Awaited(s) /\ ~(HandleSignals /\ s \in context_update_chan) =>
              Awaited(s)'
        BY AwaitedStays
      <3> QED
        BY <1>1, <1>s, <2>1, <3>1 DEF ProposerAwaited, NewProposerBlock
    <2>2. ASSUME NEW u \in Thread, pc[u] \in Uncommitted \cup Committed PROVE ProposerAwaited'
      <3>1. CASE UNCHANGED bcVars
        BY SMTT(30), <1>u, <2>2, <3>1 DEF ProposerAwaited, Uncommitted, Committed
      <3>2. ASSUME NEW t \in Thread, StoreStep(t), Signals(t) PROVE ProposerAwaited'
        <4>1. \/ pc[u] = "unrefer_transactions" /\ u = t
              \/ pc'[u] \in Uncommitted \cup Committed
          BY <2>2, <3>2, StageNext
        <4> QED
          BY SMTT(30), <3>2, <4>1 DEF Signals, ProposerAwaited, Uncommitted, Committed
      <3> QED
        BY <3>1, <3>2, StepSignals
    <2> QED
      BY <1>1, <2>1, <2>2 DEF ProposerAwaited
  <1>2. ASSUME TransactionAwaited, ~(HandleSignals /\ NewTransactionBlock \in context_update_chan)
        PROVE  TransactionAwaited'
    <2>1. CASE Awaited(NewTransactionBlock)
      <3>1. \A s \in Signal : Awaited(s) /\ ~(HandleSignals /\ s \in context_update_chan) =>
              Awaited(s)'
        BY AwaitedStays
      <3> QED
        BY SMTT(30), <1>2, <1>s, <2>1, <3>1 DEF TransactionAwaited, NewTransactionBlock
    <2>2. ASSUME NEW u \in Thread, pc[u] = "tx_commit" PROVE TransactionAwaited'
      <3>1. CASE UNCHANGED bcVars
        BY <1>u, <2>2, <3>1 DEF TransactionAwaited
      <3>2. ASSUME NEW t \in Thread, StoreStep(t), Signals(t) PROVE TransactionAwaited'
        <4>1. u = t \/ pc'[u] = pc[u]
          BY SMTT(30), <3>2, StageNext
        <4> QED
          BY ZenonT(30), <2>2, <3>2, <4>1 DEF Signals, TransactionAwaited
      <3> QED
        BY <3>1, <3>2, StepSignals
    <2> QED
      BY <1>2, <2>1, <2>2 DEF TransactionAwaited
  <1>3. ASSUME NEW c \in Chain, VoterAwaited(c),
               ~(HandleSignals /\ NewVoterBlock(c) \in context_update_chan)
        PROVE  VoterAwaited(c)'
    <2>1. CASE Awaited(NewVoterBlock(c))
      <3>1. \A s \in Signal : Awaited(s) /\ ~(HandleSignals /\ s \in context_update_chan) =>
              Awaited(s)'
        BY AwaitedStays
      <3> QED
        BY <1>3, <1>s, <2>1, <3>1 DEF VoterAwaited, NewVoterBlock
    <2>2. ASSUME NEW u \in Thread, pc[u] = "voter_best", block[u].chain = c PROVE VoterAwaited(c)'
      <3>1. CASE UNCHANGED bcVars
        BY <1>u, <2>2, <3>1 DEF VoterAwaited
      <3>2. ASSUME NEW t \in Thread, StoreStep(t), Signals(t) PROVE VoterAwaited(c)'
        <4>1. u = t \/ (pc'[u] = pc[u] /\ block'[u] = block[u])
          BY <3>2, StageNext
        <4> QED
          BY ZenonT(30), <2>2, <3>2, <4>1 DEF Signals, VoterAwaited
      <3> QED
        BY <3>1, <3>2, StepSignals
    <2> QED
      BY <1>3, <2>1, <2>2 DEF VoterAwaited
  <1> QED
    BY <1>1, <1>2, <1>3

\* Whatever changes in the block store is announced.
LEMMA ChangesAnnounced ==
  ASSUME StoreInv, ContentsOK, SignalsOK, [MinerNext]_vars
  PROVE  /\ \/ UNCHANGED <<proposer_node, proposer_tree_level, proposer_best_level,
                           unreferred_proposers>>
            \/ ProposerAwaited'
         /\ \/ UNCHANGED unreferred_transactions \/ ProposerAwaited'
            \/ TransactionAwaited' /\ unreferred_transactions \subseteq unreferred_transactions'
         /\ \A c \in Chain : voter_best'[c] = voter_best[c] \/ VoterAwaited(c)'
         /\ UNCHANGED voter_node \/ \E c \in Chain : VoterAwaited(c)'
  <1> DEFINE Goal ==
         /\ \/ UNCHANGED <<proposer_node, proposer_tree_level, proposer_best_level,
                           unreferred_proposers>>
            \/ ProposerAwaited'
         /\ \/ UNCHANGED unreferred_transactions \/ ProposerAwaited'
            \/ TransactionAwaited' /\ unreferred_transactions \subseteq unreferred_transactions'
         /\ \A c \in Chain : voter_best'[c] = voter_best[c] \/ VoterAwaited(c)'
         /\ UNCHANGED voter_node \/ \E c \in Chain : VoterAwaited(c)'
  <1>1. CASE UNCHANGED bcVars
    BY <1>1 DEF bcVars, dbVars, bestVars, unreferredVars
  <1>2. ASSUME NEW t \in Thread, StoreStep(t), Signals(t) PROVE Goal
    <2>1. ASSUME pc'[t] \in Uncommitted \cup Committed PROVE ProposerAwaited'
      BY <2>1 DEF ProposerAwaited, Uncommitted, Committed
    <2>2. CASE CommitProposer(t)
      <3>1. pc'[t] = "unrefer_proposers"
        BY ZenonT(30), <2>2 DEF CommitProposer, Goto, After, StoreInv, ThreadsOK
      <3>2. UNCHANGED <<voter_node, voter_best, unreferred_transactions>>
        BY ZenonT(30), <2>2 DEF CommitProposer, unreferredVars
      <3> QED
        BY <2>1, <3>1, <3>2 DEF Committed
    <2>3. CASE StartVoter(t)
      <3>1. /\ UNCHANGED <<proposer_node, proposer_tree_level, proposer_best_level, voter_best,
                           unreferred_transactions, unreferred_proposers>>
            /\ pc' = [pc EXCEPT ![t] = "voter_best"] /\ block'[t].chain \in Chain
        BY SMTT(30), <2>3, VoterGrows
      <3>2. pc'[t] = "voter_best"
        BY <3>1 DEF StoreInv, ThreadsOK
      <3>3. \E c \in Chain : VoterAwaited(c)'
        BY <3>1, <3>2 DEF VoterAwaited
      <3> QED
        BY ZenonT(30), <3>1, <3>3
    <2>4. ASSUME NEW b, StartProposer(t, b) PROVE Goal
      BY ZenonT(30), <2>1, <2>4, OtherSteps DEF Moves, TreesAlone, Uncommitted
    <2>5. CASE MarkUnconfirmed(t) \/ CommitTransaction(t)
      BY ZenonT(30), <2>5, OtherSteps DEF TreesAlone
    <2>6. CASE UnreferProposers(t)
      BY ZenonT(30), <2>1, <2>6, OtherSteps DEF Moves, TreesAlone, Committed
    <2>7. CASE UnreferTransactions(t)
      <3>1. ProposerAwaited'
        BY ZenonT(30), <1>2, <2>7, OtherSteps DEF Signals, ProposerAwaited
      <3> QED
        BY ZenonT(30), <2>7, <3>1, OtherSteps DEF TreesAlone
    <2>8. CASE UpdateVoterBest(t)
      <3>1. /\ TreesAlone /\ pc[t] = "voter_best"
            /\ voter_best' = [voter_best EXCEPT ![block[t].chain] = Better(block[t], @)]
            /\ UNCHANGED <<unreferred_proposers, unreferred_transactions>>
        BY ZenonT(30), <2>8, OtherSteps
      <3>2. \A c \in Chain : c # block[t].chain => voter_best'[c] = voter_best[c]
        BY Zenon, <3>1 DEF StoreInv, ChainsOK
      <3>3. \A c \in Chain : c = block[t].chain => VoterAwaited(c)'
        BY ZenonT(30), <1>2, <3>1 DEF Signals, VoterAwaited
      <3> QED
        BY ZenonT(30), <3>1, <3>2, <3>3 DEF TreesAlone
    <2>9. CASE InsertTransaction(t)
      <3>1. /\ TreesAlone /\ Moves(t, "tx_commit")
            /\ unreferred_transactions \subseteq unreferred_transactions'
            /\ UNCHANGED <<voter_best, unreferred_proposers>>
        BY ZenonT(30), <2>9, OtherSteps
      <3>2. TransactionAwaited'
        BY <3>1 DEF Moves, TransactionAwaited
      <3> QED
        BY <3>1, <3>2 DEF TreesAlone
    <2> QED
      BY ZenonT(30), <1>2, <2>2, <2>3, <2>4, <2>5, <2>6, <2>7, <2>8, <2>9 DEF StoreStep
  <1> QED
    BY ZenonT(30), <1>1, <1>2, StepSignals

\* unvoted_proposer as a function of the block store.
VotesIn(tip, p, voters, proposers, tree) ==
  LET first == voters[tip].voted_level
      last == proposers[p].level
      Count(h) == Cardinality({v \in DOMAIN voters : h \in Range(voters[v].votes)})
      Beats(h, g) == \/ Count(h) > Count(g)
                     \/ Count(h) = Count(g) /\ h <= g
      BestVote(level) == CHOOSE h \in Range(tree[level]) :
                           \A g \in Range(tree[level]) : Beats(h, g)
  IN  [i \in 1 .. last - first |-> BestVote(first + i)]

\* The votes change only with the block store.
LEMMA SameVotes ==
  /\ \A tip, p : unvoted_proposer(tip, p) =
                   VotesIn(tip, p, voter_node, proposer_node, proposer_tree_level)
  /\ \A c \in Chain :
       VoteUpToDate(c)' <=> contents'.voter[c].votes =
         VotesIn(contents'.voter[c].parent, parent', voter_node', proposer_node', proposer_tree_level')
  <1>1. \A tip, p : unvoted_proposer(tip, p) =
                      VotesIn(tip, p, voter_node, proposer_node, proposer_tree_level)
    BY Zenon DEF unvoted_proposer, VotesIn, vote_count
  <1>2. ASSUME NEW c \in Chain
        PROVE  VoteUpToDate(c)' <=> contents'.voter[c].votes =
                 VotesIn(contents'.voter[c].parent, parent', voter_node', proposer_node',
                         proposer_tree_level')
    BY Zenon DEF VoteUpToDate, unvoted_proposer, VotesIn, vote_count
  <1> QED
    BY <1>1, <1>2

\* What a step does not refresh stays fresh, or a signal is on its way.
LEMMA FreshKept ==
  ASSUME StoreInv, ContentsOK, SignalsOK, [MinerNext]_vars
  PROVE  /\ ~(HandleSignals /\ NewProposerBlock \in context_update_chan) =>
              /\ FreshParent /\ parent' = parent => FreshParent'
              /\ FreshRefs /\ parent' = parent
                   /\ contents'.proposer.refs = contents.proposer.refs => FreshRefs'
              /\ FreshSubset /\ contents'.proposer.txs = contents.proposer.txs => FreshSubset'
              /\ FreshAll /\ contents'.proposer.txs = contents.proposer.txs
                   /\ ~(HandleSignals /\ NewTransactionBlock \in context_update_chan) => FreshAll'
              /\ FreshVotes /\ parent' = parent
                   /\ (\A c \in Chain : contents'.voter[c] = contents.voter[c])
                   /\ ~(HandleSignals /\ \E c \in Chain : NewVoterBlock(c) \in context_update_chan)
                   => FreshVotes'
         /\ \A c \in Chain :
              FreshTip(c) /\ contents'.voter[c].parent = contents.voter[c].parent
                /\ ~(HandleSignals /\ NewVoterBlock(c) \in context_update_chan) => FreshTip(c)'
  <1>a. /\ \/ UNCHANGED <<proposer_node, proposer_tree_level, proposer_best_level,
                          unreferred_proposers>>
           \/ ProposerAwaited'
        /\ \/ UNCHANGED unreferred_transactions \/ ProposerAwaited'
           \/ TransactionAwaited' /\ unreferred_transactions \subseteq unreferred_transactions'
        /\ \A c \in Chain : voter_best'[c] = voter_best[c] \/ VoterAwaited(c)'
        /\ UNCHANGED voter_node \/ \E c \in Chain : VoterAwaited(c)'
    BY Zenon, ChangesAnnounced
  <1>b. /\ ProposerAwaited /\ ~(HandleSignals /\ NewProposerBlock \in context_update_chan) =>
             ProposerAwaited'
        /\ TransactionAwaited /\ ~(HandleSignals /\ NewTransactionBlock \in context_update_chan) =>
             TransactionAwaited'
        /\ \A c \in Chain :
             VoterAwaited(c) /\ ~(HandleSignals /\ NewVoterBlock(c) \in context_update_chan) =>
               VoterAwaited(c)'
    BY AnnouncedStays
  <1>1. ASSUME ~(HandleSignals /\ NewProposerBlock \in context_update_chan)
        PROVE  /\ FreshParent /\ parent' = parent => FreshParent'
               /\ FreshRefs /\ parent' = parent
                    /\ contents'.proposer.refs = contents.proposer.refs => FreshRefs'
               /\ FreshSubset /\ contents'.proposer.txs = contents.proposer.txs => FreshSubset'
               /\ FreshAll /\ contents'.proposer.txs = contents.proposer.txs
                    /\ ~(HandleSignals /\ NewTransactionBlock \in context_update_chan) => FreshAll'
    <2>1. FreshParent /\ parent' = parent => FreshParent'
      BY <1>1, <1>a, <1>b DEF FreshParent, best_proposer
    <2>2. FreshRefs /\ parent' = parent
            /\ contents'.proposer.refs = contents.proposer.refs => FreshRefs'
      BY ZenonT(30), <1>1, <1>a, <1>b DEF FreshRefs
    <2>3. FreshSubset /\ contents'.proposer.txs = contents.proposer.txs => FreshSubset'
      BY ZenonT(30), <1>1, <1>a, <1>b DEF FreshSubset
    <2>4. FreshAll /\ contents'.proposer.txs = contents.proposer.txs
            /\ ~(HandleSignals /\ NewTransactionBlock \in context_update_chan) => FreshAll'
      BY Zenon, <1>1, <1>a, <1>b DEF FreshAll
    <2> QED
      BY SMTT(30), <2>1, <2>2, <2>3, <2>4
  <1>2. ASSUME ~(HandleSignals /\ NewProposerBlock \in context_update_chan),
               FreshVotes, parent' = parent,
               \A c \in Chain : contents'.voter[c] = contents.voter[c],
               ~(HandleSignals /\ \E c \in Chain : NewVoterBlock(c) \in context_update_chan)
        PROVE  FreshVotes'
    <2>1. CASE ProposerAwaited \/ \E c \in Chain : VoterAwaited(c)
      <3>1. ProposerAwaited' \/ \E c \in Chain : VoterAwaited(c)'
        BY <1>2, <1>b, <2>1
      <3> QED
        BY SMTT(30), <3>1 DEF FreshVotes, Chain
    <2>2. CASE \A c \in Chain : VoteUpToDate(c)
      <3>1. CASE ~UNCHANGED <<proposer_node, proposer_tree_level, voter_node>>
        <4>1. ProposerAwaited' \/ \E c \in Chain : VoterAwaited(c)'
          BY <1>a, <3>1
        <4> QED
          BY <4>1 DEF FreshVotes, Chain
      <3>2. CASE UNCHANGED <<proposer_node, proposer_tree_level, voter_node>>
        <4>1. ASSUME NEW c \in Chain PROVE VoteUpToDate(c)'
          <5>1. contents.voter[c].votes =
                  VotesIn(contents.voter[c].parent, parent, voter_node, proposer_node, proposer_tree_level)
            BY ZenonT(30), <2>2, SameVotes DEF VoteUpToDate
          <5> QED
            BY ZenonT(30), <5>1, <3>2, <1>2, SameVotes
        <4> QED
          BY <4>1 DEF FreshVotes, Chain
      <3> QED
        BY <3>1, <3>2
    <2> QED
      BY Zenon, <1>2, <2>1, <2>2 DEF FreshVotes
  <1>3. ASSUME NEW c \in Chain, FreshTip(c), contents'.voter[c].parent = contents.voter[c].parent,
               ~(HandleSignals /\ NewVoterBlock(c) \in context_update_chan)
        PROVE  FreshTip(c)'
    BY <1>3, <1>a, <1>b DEF FreshTip
  <1> QED
    BY ZenonT(30), <1>1, <1>2, <1>3

\* The transaction references are unreferred blocks, all of them or a full quota.
LEMMA RefsAreFull ==
  ASSUME StoreInv, NEW S \in TransactionRefs
  PROVE  /\ S \subseteq unreferred_transactions
         /\ S = unreferred_transactions \/ Cardinality(S) = proposer_tx_refs
         /\ Cardinality(S) \in 0 .. proposer_tx_refs
  <1>1. /\ S \in SUBSET unreferred_transactions
        /\ \/ S = unreferred_transactions /\ Cardinality(S) <= proposer_tx_refs
           \/ Cardinality(S) = proposer_tx_refs
    BY DEF TransactionRefs
  <1>2. IsFiniteSet(unreferred_transactions)
    BY DEF StoreInv, ThreadsOK
  <1>3. Cardinality(S) \in Nat
    BY <1>1, <1>2, FS_Subset, FS_CardinalityType
  <1> QED
    BY <1>1, <1>3, MinerAssumption

\* The miner drains the channel: what a signal names it will refresh in this round.
LEMMA HandleFresh ==
  ASSUME StoreInv, ContentsOK, SignalsOK, FreshInv, [MinerNext]_vars, HandleSignals
  PROVE  FreshInv'
  <1> DEFINE shifted == {c \in Chain : /\ NewVoterBlock(c) \in context_update_chan
                                       /\ voter_best[c].hash # contents.voter[c].parent}
  <1>1. /\ mpc = "signals" /\ UNCHANGED <<parent, bcVars>>
        /\ new_proposer_block' = (NewProposerBlock \in context_update_chan)
        /\ new_voter_block' = {c \in Chain : NewVoterBlock(c) \in context_update_chan}
        /\ mpc' = IF NewProposerBlock \in context_update_chan THEN "best"
                  ELSE IF NewTransactionBlock \in context_update_chan THEN "append_txs"
                  ELSE "check"
    BY DEF HandleSignals
  <1>2. /\ contents'.proposer = contents.proposer
        /\ \A c \in Chain : contents'.voter[c] =
             [parent |-> IF c \in shifted THEN voter_best[c].hash ELSE contents.voter[c].parent,
              votes |-> contents.voter[c].votes]
    BY Zenon, ContentsChange
  <1>3. ASSUME NEW c \in Chain
        PROVE  contents'.voter[c].parent = IF c \in shifted THEN voter_best[c].hash
                                           ELSE contents.voter[c].parent
    <2> HIDE DEF shifted
    <2>1. PICK x, y : /\ x = IF c \in shifted THEN voter_best[c].hash ELSE contents.voter[c].parent
                      /\ y = contents.voter[c].votes
      OBVIOUS
    <2>2. contents'.voter[c] = [parent |-> x, votes |-> y]
      BY <1>2, <2>1, Zenon
    <2>3. contents'.voter[c].parent = x
      BY <2>2
    <2> QED
      BY <2>1, <2>3, Zenon
  <1>4. /\ FreshParent /\ FreshRefs /\ FreshSubset /\ FreshAll /\ FreshVotes
        /\ Cardinality(contents.proposer.txs) \in 0 .. proposer_tx_refs
        /\ \A c \in Chain : FreshTip(c)
    BY <1>1 DEF FreshInv, Between
  <1>5. /\ NewProposerBlock \notin context_update_chan => FreshRefs' /\ FreshSubset'
        /\ NewProposerBlock \notin context_update_chan
             /\ NewTransactionBlock \notin context_update_chan => FreshAll'
    BY Zenon, <1>1, <1>2, <1>4, FreshKept
  <1>6. ASSUME NEW c \in Chain PROVE FreshTip(c)'
    <2>1. CASE NewVoterBlock(c) \in context_update_chan
      <3>1. contents'.voter[c].parent = voter_best[c].hash /\ voter_best' = voter_best
        BY ZenonT(30), <1>1, <1>3, <2>1 DEF bcVars, bestVars
      <3> QED
        BY <3>1 DEF FreshTip
    <2>2. CASE NewVoterBlock(c) \notin context_update_chan
      <3>1. contents'.voter[c].parent = contents.voter[c].parent
        BY <1>3, <2>2
      <3> QED
        BY ZenonT(30), <1>4, <2>2, <3>1, FreshKept
    <2> QED
      BY <2>1, <2>2
  <1>7. CASE ~new_proposer_block' /\ new_voter_block' = {}
    <2>1. shifted = {} /\ \A c \in Chain : NewVoterBlock(c) \notin context_update_chan
      BY Zenon, <1>1, <1>7
    <2>2. NewProposerBlock \notin context_update_chan
      BY Zenon, <1>1, <1>7
    <2> HIDE DEF shifted
    <2>3. \A c \in Chain : contents'.voter[c] = contents.voter[c]
      BY ZenonT(30), <1>2, <2>1 DEF ContentsOK
    <2>4. FreshVotes'
      BY ZenonT(30), <1>1, <1>4, <2>1, <2>2, <2>3, FreshKept
    <2> QED
      BY ZenonT(30), <1>1, <1>2, <1>4, <1>5, <1>6, <2>2, <2>4 DEF FreshInv, Chain
  <1>8. CASE new_proposer_block' \/ new_voter_block' # {}
    <2> HIDE DEF shifted
    <2> QED
      BY ZenonT(30), <1>1, <1>2, <1>4, <1>5, <1>6, <1>8 DEF FreshInv, Between, Chain
  <1> QED
    BY <1>7, <1>8

\* The reads of the block store: what a round refreshes is up to date, and what it
\* finds to be out of date makes it refresh more.
LEMMA RefreshFresh ==
  ASSUME StoreInv, ContentsOK, VotesInv, SignalsOK, FreshInv, [MinerNext]_vars, ~HandleSignals,
         \/ AppendTransactionRefs \/ UpdateBestProposer \/ RefreshTransactionRefs
         \/ RefreshProposerRefs \/ CheckBest
  PROVE  FreshInv'
  <1>f. /\ mpc \in {"votes", "mine", "insert", "signals"} => FreshParent
        /\ mpc \notin {"best", "refresh_txs", "refresh_proposers"} => FreshRefs
        /\ mpc \notin {"best", "refresh_txs"} => FreshSubset
        /\ mpc \notin {"best", "refresh_txs", "append_txs"} => FreshAll
        /\ Cardinality(contents.proposer.txs) \in 0 .. proposer_tx_refs
        /\ \A c \in Chain : FreshTip(c)
        /\ \/ mpc \in Between /\ (new_proposer_block \/ new_voter_block # {})
           \/ FreshVotes
    BY DEF FreshInv
  <1>k. /\ FreshParent /\ parent' = parent => FreshParent'
        /\ FreshRefs /\ parent' = parent
             /\ contents'.proposer.refs = contents.proposer.refs => FreshRefs'
        /\ FreshSubset /\ contents'.proposer.txs = contents.proposer.txs => FreshSubset'
        /\ FreshAll /\ contents'.proposer.txs = contents.proposer.txs => FreshAll'
        /\ FreshVotes /\ parent' = parent
             /\ (\A c \in Chain : contents'.voter[c] = contents.voter[c]) => FreshVotes'
        /\ \A c \in Chain : FreshTip(c)
             /\ contents'.voter[c].parent = contents.voter[c].parent => FreshTip(c)'
    BY Zenon, FreshKept
  <1>n. mpc \in {"best", "refresh_txs", "refresh_proposers"} => new_proposer_block
    BY DEF VotesInv
  <1>v. contents'.voter = contents.voter
    BY ZenonT(30), ContentsChange DEF UpdateBestProposer, CheckBest
  <1>t. \A c \in Chain : FreshTip(c)'
    BY Zenon, <1>f, <1>k, <1>v
  <1>s. ASSUME contents'.proposer.txs \in TransactionRefs, UNCHANGED bcVars
        PROVE  /\ FreshSubset' /\ FreshAll'
               /\ Cardinality(contents'.proposer.txs) \in 0 .. proposer_tx_refs
    <2>1. unreferred_transactions' = unreferred_transactions
      BY <1>s DEF bcVars, unreferredVars
    <2> QED
      BY <1>s, <2>1, RefsAreFull DEF FreshSubset, FreshAll
  <1>1. CASE AppendTransactionRefs
    <2>1. /\ mpc = "append_txs" /\ mpc' = "check"
          /\ UNCHANGED <<bcVars, parent, new_proposer_block, new_voter_block>>
      BY <1>1 DEF AppendTransactionRefs, At
    <2>2. /\ contents'.proposer.refs = contents.proposer.refs
          /\ \/ contents'.proposer.txs \in TransactionRefs
             \/ /\ contents'.proposer.txs = contents.proposer.txs
                /\ ~(Cardinality(contents.proposer.txs) < proposer_tx_refs)
      BY ZenonT(30), <1>1, ContentsChange
    <2>3. /\ FreshRefs'
          /\ \/ mpc \in Between /\ (new_proposer_block \/ new_voter_block # {})
             \/ FreshVotes'
      BY ZenonT(30), <1>f, <1>k, <1>v, <2>1, <2>2
    <2>4. /\ FreshSubset' /\ FreshAll'
          /\ Cardinality(contents'.proposer.txs) \in 0 .. proposer_tx_refs
      <3>1. CASE contents'.proposer.txs \in TransactionRefs
        BY <1>s, <2>1, <3>1
      <3>2. CASE /\ contents'.proposer.txs = contents.proposer.txs
                 /\ ~(Cardinality(contents.proposer.txs) < proposer_tx_refs)
        <4>1. Cardinality(contents.proposer.txs) = proposer_tx_refs
          <5>1. PICK k : k = Cardinality(contents.proposer.txs)
            OBVIOUS
          <5>2. k \in 0 .. proposer_tx_refs /\ ~(k < proposer_tx_refs)
            BY Zenon, <1>f, <3>2, <5>1
          <5>3. k = proposer_tx_refs
            BY SMTT(30), <5>2, MinerAssumption
          <5> QED
            BY <5>1, <5>3
        <4> QED
          BY ZenonT(30), <1>f, <1>k, <2>1, <3>2, <4>1 DEF FreshAll
      <3> QED
        BY ZenonT(30), <2>2, <3>1, <3>2
    <2> QED
      BY Zenon, <1>t, <2>1, <2>3, <2>4 DEF FreshInv, Between, Chain
  <1>2. CASE UpdateBestProposer
    <2>1. /\ mpc = "best" /\ mpc' = "refresh_txs" /\ new_proposer_block' = new_proposer_block
          /\ contents' = contents
      BY <1>2 DEF UpdateBestProposer, At, roundVars
    <2> QED
      BY <1>f, <1>n, <1>t, <2>1 DEF FreshInv, Between, Chain
  <1>3. CASE RefreshTransactionRefs
    <2>1. /\ mpc = "refresh_txs" /\ mpc' = "refresh_proposers"
          /\ UNCHANGED <<bcVars, parent, new_proposer_block>>
      BY <1>3 DEF RefreshTransactionRefs, At, roundVars
    <2>2. contents'.proposer.txs \in TransactionRefs
      <3>1. PICK S \in TransactionRefs : contents' = [contents EXCEPT !.proposer.txs = S]
        BY <1>3 DEF RefreshTransactionRefs
      <3>2. contents'.proposer.txs = S
        BY <3>1 DEF ContentsOK
      <3> QED
        BY <3>1, <3>2
    <2> QED
      BY Zenon, <1>n, <1>s, <1>t, <2>1, <2>2 DEF FreshInv, Between, Chain
  <1>4. CASE RefreshProposerRefs
    <2>1. /\ mpc = "refresh_proposers" /\ mpc' = "check"
          /\ UNCHANGED <<bcVars, parent, new_proposer_block>>
      BY <1>4 DEF RefreshProposerRefs, At
    <2>2. /\ contents'.proposer.refs = unreferred_proposers \ {parent}
          /\ contents'.proposer.txs = contents.proposer.txs
      BY ZenonT(30), <1>4, ContentsChange
    <2>3. FreshRefs'
      BY Zenon, <2>1, <2>2 DEF FreshRefs, bcVars, unreferredVars
    <2> QED
      BY Zenon, <1>f, <1>k, <1>n, <1>t, <2>1, <2>2, <2>3 DEF FreshInv, Between, Chain
  <1>5. CASE CheckBest
    <2>1. /\ mpc = "check" /\ parent' = best_proposer
          /\ new_proposer_block' = (new_proposer_block \/ parent # best_proposer)
          /\ mpc' = IF parent = best_proposer THEN "votes" ELSE "refresh_txs"
          /\ UNCHANGED <<bcVars, contents, new_voter_block>>
      BY <1>5 DEF CheckBest
    <2>2. CASE parent = best_proposer
      <3>1. parent' = parent /\ (new_proposer_block' = new_proposer_block) /\ mpc' = "votes"
        BY ZenonT(30), <2>1, <2>2 DEF ContentsOK
      <3>2. FreshParent'
        BY ZenonT(30), <2>1 DEF FreshParent, best_proposer, bcVars, dbVars, bestVars
      <3>3. /\ FreshRefs' /\ FreshSubset' /\ FreshAll'
            /\ \/ mpc \in Between /\ (new_proposer_block \/ new_voter_block # {})
               \/ FreshVotes'
        BY <1>f, <1>k, <2>1, <3>1
      <3> QED
        BY <1>f, <1>t, <2>1, <3>1, <3>2, <3>3 DEF FreshInv, Between, Chain
    <2>3. CASE parent # best_proposer
      BY Zenon, <1>f, <1>t, <2>1, <2>3 DEF FreshInv, Between, Chain
    <2> QED
      BY <2>2, <2>3
  <1> QED
    BY <1>1, <1>2, <1>3, <1>4, <1>5

\* Every step.
LEMMA FreshNext ==
  ASSUME StoreInv, ContentsOK, VotesInv, SignalsOK, FreshInv, [MinerNext]_vars
  PROVE  FreshInv'
  <1>1. CASE HandleSignals
    BY <1>1, HandleFresh
  <1> SUFFICES ASSUME ~HandleSignals PROVE FreshInv'
    BY <1>1
  <1>2. CASE \/ AppendTransactionRefs \/ UpdateBestProposer \/ RefreshTransactionRefs
             \/ RefreshProposerRefs \/ CheckBest
    BY <1>2, RefreshFresh
  <1>f. /\ mpc \in {"votes", "mine", "insert", "signals"} => FreshParent
        /\ mpc \notin {"best", "refresh_txs", "refresh_proposers"} => FreshRefs
        /\ mpc \notin {"best", "refresh_txs"} => FreshSubset
        /\ mpc \notin {"best", "refresh_txs", "append_txs"} => FreshAll
        /\ Cardinality(contents.proposer.txs) \in 0 .. proposer_tx_refs
        /\ \A c \in Chain : FreshTip(c)
        /\ \/ mpc \in Between /\ (new_proposer_block \/ new_voter_block # {})
           \/ FreshVotes
    BY DEF FreshInv
  <1>k. /\ FreshParent /\ parent' = parent => FreshParent'
        /\ FreshRefs /\ parent' = parent
             /\ contents'.proposer.refs = contents.proposer.refs => FreshRefs'
        /\ FreshSubset /\ contents'.proposer.txs = contents.proposer.txs => FreshSubset'
        /\ FreshAll /\ contents'.proposer.txs = contents.proposer.txs => FreshAll'
        /\ FreshVotes /\ parent' = parent
             /\ (\A c \in Chain : contents'.voter[c] = contents.voter[c]) => FreshVotes'
        /\ \A c \in Chain : FreshTip(c)
             /\ contents'.voter[c].parent = contents.voter[c].parent => FreshTip(c)'
    BY ZenonT(30), FreshKept
  <1>3. ASSUME UNCHANGED <<parent, contents, new_proposer_block, new_voter_block>>,
               \/ mpc' = mpc
               \/ {mpc, mpc'} \subseteq {"mine", "insert", "signals"}
        PROVE  FreshInv'
    <2>1. /\ FreshParent => FreshParent'
          /\ FreshRefs => FreshRefs'
          /\ FreshSubset => FreshSubset'
          /\ FreshAll => FreshAll'
          /\ FreshVotes => FreshVotes'
          /\ \A c \in Chain : FreshTip(c)'
      BY <1>f, <1>k, <1>3
    <2> QED
      BY SMTT(30), <1>3, <1>f, <2>1 DEF FreshInv, Between, Chain
  <1>4. CASE NoLuck \/ SkipEmpty \/ SignalMined \/ MineProposer \/ MineVoter \/ MineTransaction
             \/ InsertMined \/ UNCHANGED vars
    <2>1. /\ UNCHANGED <<parent, contents, new_proposer_block, new_voter_block>>
          /\ mpc' = mpc \/ {mpc, mpc'} \subseteq {"mine", "insert", "signals"}
      BY Zenon, <1>4 DEF NoLuck, SkipEmpty, SignalMined, MineProposer, MineVoter, MineTransaction,
                  Mine, At, InsertMined, vars, minerVars, roundVars
    <2> QED
      BY <1>3, <2>1
  <1>5. CASE \E t \in Thread \ {miner} : Insert(t) \/ SendSignals(t)
    <2>1. UNCHANGED minerVars
      BY <1>5, WorkerStep
    <2> QED
      BY SMTT(30), <1>3, <2>1 DEF minerVars, roundVars
  <1>6. CASE UpdateVotes
    <2>1. mpc = "votes" /\ mpc' = "mine" /\ UNCHANGED <<parent, bcVars>>
      BY <1>6 DEF UpdateVotes, At
    <2>2. CASE new_proposer_block \/ new_voter_block # {}
      <3>1. /\ contents'.proposer = contents.proposer
            /\ \A c \in Chain : contents'.voter[c] =
                 [parent |-> contents.voter[c].parent,
                  votes |-> unvoted_proposer(contents.voter[c].parent, parent)]
        BY ZenonT(30), <1>6, <2>2, ContentsChange
      <3>2. ASSUME NEW c \in Chain
            PROVE  /\ contents'.voter[c].parent = contents.voter[c].parent
                   /\ VoteUpToDate(c)'
        <4>1. PICK x, y : /\ x = contents.voter[c].parent
                          /\ y = unvoted_proposer(contents.voter[c].parent, parent)
          OBVIOUS
        <4>2. contents'.voter[c] = [parent |-> x, votes |-> y]
          BY <3>1, <4>1, Zenon
        <4>r. \A r : r = [parent |-> x, votes |-> y] => r.parent = x /\ r.votes = y
          OBVIOUS
        <4>3. contents'.voter[c].parent = x /\ contents'.voter[c].votes = y
          BY Zenon, <4>2, <4>r
        <4>4. y = VotesIn(x, parent, voter_node, proposer_node, proposer_tree_level)
          BY ZenonT(30), <4>1, SameVotes
        <4>5. VoteUpToDate(c)'
          BY <2>1, <4>3, <4>4, SameVotes DEF bcVars, dbVars
        <4> QED
          BY Zenon, <4>1, <4>3, <4>5
      <3>3. FreshVotes'
        BY Zenon, <3>2 DEF FreshVotes, Chain
      <3>4. FreshParent' /\ FreshRefs' /\ FreshSubset' /\ FreshAll' /\ \A c \in Chain : FreshTip(c)'
        BY ZenonT(30), <1>f, <1>k, <2>1, <3>1, <3>2
      <3> QED
        BY ZenonT(30), <1>f, <2>1, <3>1, <3>3, <3>4 DEF FreshInv, Chain
    <2>3. CASE ~(new_proposer_block \/ new_voter_block # {})
      <3>1. contents' = contents
        BY SMTT(30), <1>6, <2>3 DEF UpdateVotes
      <3>2. /\ FreshParent' /\ FreshRefs' /\ FreshSubset' /\ FreshAll' /\ FreshVotes'
            /\ \A c \in Chain : FreshTip(c)'
        BY <1>f, <1>k, <2>1, <2>3, <3>1
      <3> QED
        BY <1>f, <2>1, <3>1, <3>2 DEF FreshInv, Chain
    <2> QED
      BY <2>2, <2>3
  <1> QED
    BY <1>2, <1>4, <1>5, <1>6 DEF MinerNext, miner_loop

\* The signals that the miner sends to itself at the start.
LEMMA InitFresh ==
  ASSUME MinerInit
  PROVE  SignalsOK /\ FreshInv
  <1>1. SignalsOK
    BY DEF MinerInit, SignalsOK
  <1>2. /\ context_update_chan = Signal
        /\ contents.proposer.txs = {}
    BY SMTT(30) DEF MinerInit
  <1>3. ProposerAwaited /\ TransactionAwaited /\ \A c \in Chain : VoterAwaited(c)
    BY <1>2 DEF ProposerAwaited, TransactionAwaited, VoterAwaited, Awaited, Signal
  <1>4. Cardinality(contents.proposer.txs) \in 0 .. proposer_tx_refs
    BY <1>2, FS_EmptySet, MinerAssumption
  <1> QED
    BY ZenonT(30), <1>1, <1>3, <1>4 DEF FreshInv, FreshParent, FreshRefs, FreshSubset, FreshAll,
                            FreshTip, FreshVotes

\* No signal is lost: when all signals are handled and no insertion is under way, the
\* miner mines on the best blocks and its contents are up to date, although it reads
\* the block store piece by piece while the network workers change it.
THEOREM NoSignalIsLost == MinerSpec => []MinerUpToDate
  <1> DEFINE IInv == StoreInv /\ ContentsOK /\ VotesInv /\ SignalsOK /\ FreshInv
  <1>1. MinerInit => IInv
    BY InitStore, InitContents, InitFresh
  <1>2. IInv /\ [MinerNext]_vars => IInv'
    <2> SUFFICES ASSUME IInv, [MinerNext]_vars PROVE IInv'
      OBVIOUS
    <2>1. SignalsOK'
      BY ZenonT(30) DEF SignalsOK, MinerNext, miner_loop, vars, signalVars, HandleSignals,
             AppendTransactionRefs, UpdateBestProposer, RefreshTransactionRefs,
             RefreshProposerRefs, CheckBest, UpdateVotes, NoLuck, SkipEmpty, MineProposer,
             MineVoter, MineTransaction, Mine, InsertMined, SignalMined, Insert, SendSignals
    <2> QED
      BY <2>1, StoreKept, ContentsNext, VotesNext, FreshNext
  <1>3. IInv => MinerUpToDate
    <2> SUFFICES ASSUME IInv, mpc = "mine", Quiet
                 PROVE  /\ parent = best_proposer
                        /\ contents.proposer.refs = unreferred_proposers \ {parent}
                        /\ contents.proposer.txs \in TransactionRefs
                        /\ \A c \in Chain : contents.voter[c] =
                             [parent |-> voter_best[c].hash,
                              votes |-> unvoted_proposer(voter_best[c].hash, parent)]
      BY ZenonT(30) DEF MinerUpToDate, Mining
    <2>1. mined = <<>>
      BY ZenonT(30) DEF ContentsOK
    <2>2. ~ProposerAwaited /\ ~TransactionAwaited /\ \A c \in Chain : ~VoterAwaited(c)
      BY ZenonT(30), <2>1, SignalsDiffer DEF Quiet, ProposerAwaited, TransactionAwaited, VoterAwaited, Awaited,
                                 Uncommitted, Committed
    <2>3. /\ parent = best_proposer
          /\ contents.proposer.refs = unreferred_proposers \ {parent}
          /\ contents.proposer.txs \subseteq unreferred_transactions
          /\ \/ contents.proposer.txs = unreferred_transactions
             \/ Cardinality(contents.proposer.txs) = proposer_tx_refs
          /\ Cardinality(contents.proposer.txs) \in 0 .. proposer_tx_refs
      BY Zenon, <2>2 DEF FreshInv, FreshParent, FreshRefs, FreshSubset, FreshAll
    <2>4. contents.proposer.txs \in TransactionRefs
      BY <2>3, MinerAssumption DEF TransactionRefs
    <2>5. ASSUME NEW c \in Chain
          PROVE  contents.voter[c] = [parent |-> voter_best[c].hash,
                                      votes |-> unvoted_proposer(voter_best[c].hash, parent)]
      <3>1. contents.voter[c].parent = voter_best[c].hash
        BY <2>2 DEF FreshInv, FreshTip
      <3>2. contents.voter[c].votes = unvoted_proposer(contents.voter[c].parent, parent)
        BY SMTT(30), <2>2 DEF FreshInv, FreshVotes, Between, VoteUpToDate
      <3>3. contents.voter[c] = [parent |-> contents.voter[c].parent, votes |-> contents.voter[c].votes]
        BY Zenon DEF ContentsOK
      <3> QED
        BY <3>1, <3>2, <3>3, Zenon
    <2> QED
      BY ZenonT(30), <2>3, <2>4, <2>5
  <1> QED
    BY <1>1, <1>2, <1>3, PTL DEF MinerSpec
=============================================================================
