-------------------------- MODULE BlockChainProofs --------------------------
(***************************************************************************)
(* Proofs about concurrent insert_block, for any number of threads, blocks *)
(* and voter chains, and about the rule by which proposer_leader confirms  *)
(* a level: its leader is never taken back while votes become certain, and *)
(* there is one when all are.                                              *)
(***************************************************************************)
EXTENDS BlockChain, Voting, WellFoundedInduction, TLAPS

-----------------------------------------------------------------------------
(* Facts about lists of references and about puts.                         *)

\* The range of a list of elements of S lies in S.
LEMMA RangeType ==
  ASSUME NEW S, NEW s \in Seq(S)
  PROVE  Range(s) \subseteq S
BY DEF Range

\* The parent is the first reference: a list with p in front ranges over p and
\* the list.
LEMMA RangeCons ==
  ASSUME NEW S, NEW p \in S, NEW s \in Seq(S)
  PROVE  /\ <<p>> \o s \in Seq(S)
         /\ Range(<<p>> \o s) = {p} \cup Range(s)
<1> DEFINE c == <<p>> \o s
<1>1. c \in Seq(S) /\ Len(c) = Len(s) + 1
  OBVIOUS
<1>2. c[1] = p /\ \A i \in 1 .. Len(s) : c[i + 1] = s[i]
  OBVIOUS
<1>3. DOMAIN c = 1 .. Len(s) + 1 /\ DOMAIN s = 1 .. Len(s)
  BY <1>1
<1>4. ASSUME NEW x PROVE x \in Range(c) <=> x = p \/ x \in Range(s)
  <2>1. ASSUME x \in Range(c) PROVE x = p \/ x \in Range(s)
    <3>1. PICK i \in 1 .. Len(s) + 1 : x = c[i]
      BY <2>1, <1>3 DEF Range
    <3>2. CASE i = 1
      BY <3>1, <3>2, <1>2
    <3>3. CASE i # 1
      <4>1. i - 1 \in 1 .. Len(s) /\ (i - 1) + 1 = i
        BY <3>3
      <4>2. x = s[i - 1]
        BY <4>1, <3>1, <1>2
      <4> QED BY <4>1, <4>2, <1>3 DEF Range
    <3> QED BY <3>2, <3>3
  <2>2. x = p => x \in Range(c)
    BY <1>2, <1>3 DEF Range
  <2>3. ASSUME x \in Range(s) PROVE x \in Range(c)
    <3>1. PICK i \in 1 .. Len(s) : x = s[i]
      BY <2>3, <1>3 DEF Range
    <3>2. x = c[i + 1] /\ i + 1 \in 1 .. Len(s) + 1
      BY <3>1, <1>2
    <3> QED BY Zenon, <3>2, <1>3 DEF Range
  <2> QED BY <2>1, <2>2, <2>3
<1> QED BY <1>1, <1>4

\* The references of a well-formed block are a list of committed blocks.
LEMMA RefListsType ==
  ASSUME NEW S, NEW s \in RefLists(S)
  PROVE  s \in Seq(S) /\ Range(s) \subseteq S
<1>1. PICK n \in 0 .. MaxRefs : s \in [1 .. n -> S]
  BY DEF RefLists
<1>2. s \in Seq(S)
  BY <1>1, RefsAssumption
<1> QED BY <1>2, RangeType

-----------------------------------------------------------------------------
(* Type correctness.                                                       *)

\* h256_vec_append_merge leaves a list of hashes, with the new one in it.
LEMMA AppendContains ==
  ASSUME NEW S, NEW s \in Seq(S), NEW h \in S
  PROVE  LET new == IF h \in Range(s) THEN s ELSE Append(s, h)
         IN  new \in Seq(S) /\ \E i \in DOMAIN new : new[i] = h
<1>1. CASE h \in Range(s)
  BY <1>1 DEF Range
<1>2. CASE h \notin Range(s)
  <2> DEFINE new == Append(s, h)
  <2>1. new \in Seq(S) /\ Len(s) + 1 \in DOMAIN new /\ new[Len(s) + 1] = h
    OBVIOUS
  <2> HIDE DEF new
  <2>2. new \in Seq(S) /\ \E i \in DOMAIN new : new[i] = h
    BY <2>1
  <2> QED BY <1>2, <2>2 DEF new
<1> QED BY <1>1, <1>2

\* The genesis blocks are blocks, and a voter genesis knows its chain.
LEMMA GenesisFacts ==
  /\ proposer_genesis \in Proposer
  /\ \A c \in Chain : voter_genesis(c) \in Voter /\ -1 - voter_genesis(c) = c
BY ChainAssumption DEF Proposer, Voter, voter_genesis, Chain

\* BlockChain::new establishes the type invariant.
LEMMA InitTypeOK == Init => TypeOK
<1> SUFFICES ASSUME Init PROVE TypeOK
  OBVIOUS
<1> USE DEF Init
<1>1. /\ DOMAIN proposer_node \subseteq Proposer
      /\ proposer_node \in [DOMAIN proposer_node -> ProposerRecord]
      /\ DOMAIN proposer_tree_level \subseteq Nat
      /\ proposer_tree_level \in [DOMAIN proposer_tree_level -> Seq(Proposer)]
  BY GenesisFacts DEF ProposerRecord
<1>2. /\ DOMAIN voter_node \subseteq Voter
      /\ voter_node \in [DOMAIN voter_node -> VoterRecord]
      /\ voter_best \in [Chain -> [hash : Voter, level : Nat]]
  BY GenesisFacts DEF VoterRecord
<1> QED BY <1>1, <1>2, GenesisFacts DEF TypeOK, Proposer, Uncommitted, Committed

\* A put of a well-typed value keeps a column family well typed.
LEMMA PutType ==
  ASSUME NEW K, NEW V, NEW f, f \in [DOMAIN f -> V], DOMAIN f \subseteq K,
         NEW k \in K, NEW v \in V
  PROVE  /\ DOMAIN Put(f, k, v) \subseteq K
         /\ Put(f, k, v) \in [DOMAIN Put(f, k, v) -> V]
BY DEF Put

\* insert_block of a proposer block starts with a well-formed block in flight.
LEMMA InsertProposerType ==
  ASSUME TypeOK, NEW t \in Thread, InsertProposer(t)
  PROVE  TypeOK'
<1>1. PICK h \in ProposerHash, p \in DOMAIN proposer_node :
        \E r \in ProposerRefs(p), x \in RefLists(transaction_node) :
          MarkUnreferredProposer(t, [hash |-> h, parent |-> p, refs |-> r, txs |-> x])
  BY DEF InsertProposer
<1>2. PICK r \in ProposerRefs(p), x \in RefLists(transaction_node) :
        MarkUnreferredProposer(t, [hash |-> h, parent |-> p, refs |-> r, txs |-> x])
  BY <1>1
<1> DEFINE b == [hash |-> h, parent |-> p, refs |-> r, txs |-> x]
<1>3. r \in Seq(Proposer)
  <2> DEFINE D == {q \in DOMAIN proposer_node :
                    proposer_node[q].level <= proposer_node[p].level}
  <2>1. r \in Seq(D) /\ D \subseteq Proposer
    BY RefListsType DEF ProposerRefs, TypeOK
  <2> QED BY <2>1
<1>4. x \in Seq(TransactionHash)
  <2>1. x \in Seq(transaction_node) /\ transaction_node \subseteq TransactionHash
    BY RefListsType DEF TypeOK
  <2> QED BY <2>1
<1>5. b \in ProposerBlock
  BY <1>3, <1>4 DEF ProposerBlock, TypeOK
<1> HIDE DEF b
<1>6. b.hash \in Proposer
  BY <1>5 DEF ProposerBlock, Proposer
<1>7. MarkUnreferredProposer(t, b)
  BY <1>2 DEF b
<1> QED
  BY <1>5, <1>6, <1>7
  DEF TypeOK, MarkUnreferredProposer, Goto, After, dbVars, bestVars,
      Uncommitted, Committed

\* The commit of a proposer block writes a record at a level above its parent;
\* that the parent is committed is what the type invariant needs from outside.
LEMMA CommitProposerType ==
  ASSUME TypeOK, NEW t \in Thread, CommitProposer(t),
         block[t].parent \in DOMAIN proposer_node
  PROVE  TypeOK'
<1> DEFINE b == block[t]
           level == proposer_node[b.parent].level + 1
           rec == [level |-> level, refs |-> <<b.parent>> \o b.refs, txs |-> b.txs]
<1>1. b \in ProposerBlock /\ b.hash \in Proposer
  BY DEF TypeOK, CommitProposer, Uncommitted, ProposerBlock, Proposer
<1>2. level \in Nat
  BY DEF TypeOK, ProposerRecord
<1>3. rec \in ProposerRecord
  <2>1. <<b.parent>> \o b.refs \in Seq(Proposer)
    BY <1>1, RangeCons DEF ProposerBlock
  <2> QED BY <2>1, <1>1, <1>2 DEF ProposerRecord, ProposerBlock
<1>5. /\ proposer_node' = Put(proposer_node, b.hash, rec)
      /\ proposer_tree_level' = AppendHash(proposer_tree_level, level, b.hash)
      /\ proposer_best_level' = BestLevel(level, proposer_best_level)
      /\ pc' = [pc EXCEPT ![t] = "unrefer_proposers"]
      /\ pc[t] = "commit"
      /\ UNCHANGED <<voter_node, transaction_node, voter_best, unreferred_proposers,
                     unreferred_transactions, unconfirmed_proposers, block>>
  BY DEF CommitProposer, After, Goto, unreferredVars
<1> HIDE DEF rec, level
<1>6. /\ DOMAIN proposer_node' \subseteq Proposer
      /\ proposer_node' \in [DOMAIN proposer_node' -> ProposerRecord]
  BY <1>1, <1>3, <1>5 DEF TypeOK, Put
<1>7. /\ DOMAIN proposer_tree_level' \subseteq Nat
      /\ proposer_tree_level' \in [DOMAIN proposer_tree_level' -> Seq(Proposer)]
  BY <1>1, <1>2, <1>5, AppendContains DEF TypeOK, AppendHash, Put
<1>8. proposer_best_level' \in Nat
  BY <1>2, <1>5 DEF TypeOK, BestLevel
<1> QED
  BY <1>1, <1>5, <1>6, <1>7, <1>8 DEF TypeOK, Uncommitted, Committed

\* The write batch of a voter block writes a well-typed record.
LEMMA InsertVoterType ==
  ASSUME TypeOK, NEW t \in Thread, InsertVoter(t)
  PROVE  TypeOK'
<1>1. PICK h \in VoterHash \ DOMAIN voter_node, vp \in DOMAIN voter_node,
           p \in DOMAIN proposer_node :
        \E v \in VoteLists(vp, p) : CommitVoter(t, h, vp, p, v)
  BY DEF InsertVoter
<1>2. PICK v \in VoteLists(vp, p) : CommitVoter(t, h, vp, p, v)
  BY <1>1
<1> DEFINE chain == voter_node[vp].chain
           level == voter_node[vp].level + 1
           rec == [chain |-> chain, level |-> level, parent |-> vp,
                   votes |-> v, voted_level |-> proposer_node[p].level]
<1>3. chain \in Chain /\ level \in Nat
  BY DEF TypeOK, VoterRecord
<1>4. v \in Seq(Proposer)
  <2> DEFINE n == proposer_node[p].level - voter_node[vp].voted_level
  <2>1. v \in [1 .. n -> DOMAIN proposer_node] /\ n \in Int
    BY DEF VoteLists, TypeOK, ProposerRecord, VoterRecord
  <2>2. v \in [1 .. n -> Proposer]
    BY <2>1 DEF TypeOK
  <2> HIDE DEF n
  <2>3. CASE n >= 0
    BY <2>1, <2>2, <2>3
  <2>4. CASE n < 0
    <3>1. 1 .. n = 1 .. 0
      BY <2>4, <2>1
    <3>2. v \in [1 .. 0 -> Proposer]
      BY Zenon, <3>1, <2>2
    <3> QED BY <3>2
  <2> QED BY <2>1, <2>3, <2>4
<1>5. rec \in VoterRecord /\ h \in Voter
  BY <1>3, <1>4 DEF VoterRecord, TypeOK, ProposerRecord, Voter
<1>6. /\ voter_node' = Put(voter_node, h, rec)
      /\ block' = [block EXCEPT ![t] = [hash |-> h, chain |-> chain, level |-> level]]
      /\ pc' = [pc EXCEPT ![t] = "voter_best"]
      /\ UNCHANGED <<proposer_node, proposer_tree_level, transaction_node,
                     proposer_best_level, voter_best, unreferred_proposers,
                     unreferred_transactions, unconfirmed_proposers>>
  BY <1>2 DEF CommitVoter, Goto, bestVars, unreferredVars
<1> HIDE DEF rec, chain, level
<1>7. /\ DOMAIN voter_node' \subseteq Voter
      /\ voter_node' \in [DOMAIN voter_node' -> VoterRecord]
  BY Zenon, <1>5, <1>6, PutType DEF TypeOK
<1> QED
  BY <1>3, <1>6, <1>7 DEF TypeOK, Uncommitted, Committed

\* Every step of insert_block keeps the type invariant.
LEMMA TypeStep ==
  ASSUME TypeOK, StoreConsistent, [Next]_bcVars
  PROVE  TypeOK'
<1>1. ASSUME NEW t \in Thread, insert_block(t) PROVE TypeOK'
  <2>1. CASE InsertProposer(t)
    BY <2>1, InsertProposerType
  <2>2. CASE MarkUnconfirmed(t)
    BY <2>2 DEF MarkUnconfirmed, TypeOK, Goto, After, dbVars, bestVars,
                unreferredVars, Uncommitted, Committed, ProposerBlock
  <2>3. CASE CommitProposer(t)
    <3>1. block[t].parent \in DOMAIN proposer_node
      BY <2>3 DEF StoreConsistent, InsertionsAgree, Agrees, CommitProposer,
                  Uncommitted, Referred
    <3> QED BY SMTT(30), <2>3, <3>1, CommitProposerType
  <2>4. CASE UnreferProposers(t)
    BY <2>4 DEF UnreferProposers, TypeOK, Goto, dbVars, bestVars,
                Uncommitted, Committed
  <2>5. CASE UnreferTransactions(t)
    BY <2>5 DEF UnreferTransactions, TypeOK, Return, Goto, dbVars, bestVars,
                Uncommitted, Committed
  <2>6. CASE InsertVoter(t)
    BY <2>6, InsertVoterType
  <2>7. CASE UpdateVoterBest(t)
    <3>1. block[t] \in [hash : VoterHash, chain : Chain, level : Nat]
      BY <2>7 DEF UpdateVoterBest, TypeOK
    <3>2. voter_best' \in [Chain -> [hash : Voter, level : Nat]]
      BY <2>7, <3>1 DEF UpdateVoterBest, TypeOK, Better, Voter
    <3> QED BY <2>7, <3>2 DEF UpdateVoterBest, TypeOK, Return, Goto, dbVars,
                              unreferredVars, Uncommitted, Committed
  <2>8. CASE InsertTransaction(t)
    BY <2>8 DEF InsertTransaction, TypeOK, Goto, dbVars, bestVars,
                Uncommitted, Committed
  <2>9. CASE CommitTransaction(t)
    BY <2>9 DEF CommitTransaction, TypeOK, Return, Goto, bestVars,
                unreferredVars, Uncommitted, Committed
  <2> QED BY <1>1, <2>1, <2>2, <2>3, <2>4, <2>5, <2>6, <2>7, <2>8, <2>9
          DEF insert_block
<1>2. CASE UNCHANGED bcVars
  BY <1>2 DEF bcVars, dbVars, bestVars, unreferredVars, TypeOK
<1> QED BY <1>1, <1>2 DEF Next

-----------------------------------------------------------------------------
(* The store stays consistent.                                             *)

\* BlockChain::new establishes a consistent store.
LEMMA InitConsistent == Init => StoreConsistent
<1> SUFFICES ASSUME Init PROVE StoreConsistent
  OBVIOUS
<1>1. StoreClosed
  BY DEF Init, StoreClosed, Range
<1>2. InsertionsAgree /\ InsertionsDistinct
  BY DEF Init, InsertionsAgree, Agrees, InsertionsDistinct, Uncommitted, Committed
<1> QED BY <1>1, <1>2 DEF StoreConsistent

\* A fresh proposer block enters flight pointing only to committed blocks.
LEMMA InsertProposerConsistent ==
  ASSUME TypeOK, StoreConsistent, NEW t \in Thread, InsertProposer(t)
  PROVE  StoreConsistent'
<1>1. PICK h \in ProposerHash, p \in DOMAIN proposer_node :
        /\ FreshProposer(h)
        /\ \E r \in ProposerRefs(p), x \in RefLists(transaction_node) :
             MarkUnreferredProposer(t, [hash |-> h, parent |-> p, refs |-> r, txs |-> x])
  BY DEF InsertProposer
<1>2. PICK r \in ProposerRefs(p), x \in RefLists(transaction_node) :
        MarkUnreferredProposer(t, [hash |-> h, parent |-> p, refs |-> r, txs |-> x])
  BY <1>1
<1>3. Range(r) \subseteq DOMAIN proposer_node /\ Range(x) \subseteq transaction_node
  BY RefListsType DEF ProposerRefs
<1>4. /\ pc[t] = "idle"
      /\ pc' = [pc EXCEPT ![t] = "unconfirmed"]
      /\ block' = [block EXCEPT ![t] = [hash |-> h, parent |-> p, refs |-> r, txs |-> x]]
      /\ UNCHANGED <<proposer_node, proposer_tree_level, voter_node, transaction_node>>
  BY <1>2 DEF MarkUnreferredProposer, Goto, After, dbVars
<1>5. h \notin DOMAIN proposer_node
  BY <1>1 DEF FreshProposer
<1>6. \A u \in Thread : pc[u] \in Uncommitted \cup Committed => block[u].hash # h
  BY Zenon, <1>1, <1>5 DEF FreshProposer, Inserting, StoreConsistent, InsertionsAgree,
                    Agrees, Uncommitted, Committed
<1>7. StoreClosed'
  BY <1>4 DEF StoreConsistent, StoreClosed
<1>8. InsertionsAgree'
  <2>1. Agrees(t)'
    BY <1>3, <1>4, <1>5 DEF Agrees, TypeOK, Uncommitted, Committed, Referred
  <2>2. ASSUME NEW u \in Thread \ {t} PROVE Agrees(u)'
    BY Zenon, <1>4 DEF StoreConsistent, InsertionsAgree, Agrees, TypeOK
  <2> QED BY <2>1, <2>2 DEF InsertionsAgree
<1>9. InsertionsDistinct'
  BY <1>4, <1>6 DEF StoreConsistent, InsertionsDistinct, TypeOK, Uncommitted, Committed
<1> QED BY <1>7, <1>8, <1>9 DEF StoreConsistent

\* The commit of a proposer block keeps the store closed, and no other thread
\* holds the same block.
LEMMA CommitProposerConsistent ==
  ASSUME TypeOK, StoreConsistent, NEW t \in Thread, CommitProposer(t)
  PROVE  StoreConsistent'
<1> DEFINE b == block[t]
           level == proposer_node[b.parent].level + 1
           rec == [level |-> level, refs |-> <<b.parent>> \o b.refs, txs |-> b.txs]
<1>1. /\ pc[t] = "commit"
      /\ proposer_node' = Put(proposer_node, b.hash, rec)
      /\ proposer_tree_level' = AppendHash(proposer_tree_level, level, b.hash)
      /\ pc' = [pc EXCEPT ![t] = "unrefer_proposers"]
      /\ UNCHANGED <<voter_node, transaction_node, block>>
  BY ZenonT(30) DEF CommitProposer, After, Goto
<1>2. /\ b \in ProposerBlock
      /\ b.hash \notin DOMAIN proposer_node
      /\ Referred(b) \subseteq DOMAIN proposer_node
      /\ Range(b.txs) \subseteq transaction_node
  BY <1>1 DEF StoreConsistent, InsertionsAgree, Agrees, TypeOK, Uncommitted
<1>3. Range(rec.refs) = Referred(b)
  BY <1>2, RangeCons DEF ProposerBlock, Referred
<1>4. level \in Nat
  BY <1>2 DEF TypeOK, ProposerRecord, Referred
<1>rec. rec.level = level /\ rec.refs = <<b.parent>> \o b.refs /\ rec.txs = b.txs
  OBVIOUS
<1> HIDE DEF level, rec
<1>5. /\ DOMAIN proposer_node' = DOMAIN proposer_node \cup {b.hash}
      /\ proposer_node'[b.hash] = rec
      /\ \A q \in DOMAIN proposer_node : proposer_node'[q] = proposer_node[q]
  BY <1>1, <1>2 DEF Put
<1>6. StoreClosed'
  <2>1. ASSUME NEW q \in DOMAIN proposer_node'
        PROVE  /\ Range(proposer_node'[q].refs) \subseteq DOMAIN proposer_node'
               /\ Range(proposer_node'[q].txs) \subseteq transaction_node'
    <3>1. CASE q = b.hash
      BY Zenon, <3>1, <1>1, <1>2, <1>3, <1>rec, <1>5
    <3>2. CASE q # b.hash
      BY <3>2, <1>1, <1>5 DEF StoreConsistent, StoreClosed
    <3> QED BY <3>1, <3>2
  <2>2. ASSUME NEW l \in DOMAIN proposer_tree_level'
        PROVE  \E i \in DOMAIN proposer_tree_level'[l] :
                 /\ proposer_tree_level'[l][i] \in DOMAIN proposer_node'
                 /\ proposer_node'[proposer_tree_level'[l][i]].level = l
    <3>1. CASE l = level
      <4>1. \E i \in DOMAIN proposer_tree_level'[l] : proposer_tree_level'[l][i] = b.hash
        <5>1. /\ proposer_tree_level \in [DOMAIN proposer_tree_level -> Seq(Proposer)]
              /\ b.hash \in Proposer
          BY <1>2 DEF TypeOK, ProposerBlock, Proposer
        <5> DEFINE old == IF level \in DOMAIN proposer_tree_level
                          THEN proposer_tree_level[level] ELSE <<>>
        <5>2. old \in Seq(Proposer)
          BY <5>1
        <5>3. proposer_tree_level'[l] = IF b.hash \in Range(old) THEN old
                                        ELSE Append(old, b.hash)
          BY <3>1, <1>1 DEF AppendHash, Put
        <5> HIDE DEF old
        <5> QED BY <5>1, <5>2, <5>3, AppendContains
      <4> QED BY <4>1, <3>1, <1>rec, <1>5
    <3>2. CASE l # level
      <4>1. /\ l \in DOMAIN proposer_tree_level
            /\ proposer_tree_level'[l] = proposer_tree_level[l]
        BY <3>2, <1>1 DEF AppendHash, Put
      <4> QED BY <4>1, <1>5 DEF StoreConsistent, StoreClosed
    <3> QED BY <3>1, <3>2
  <2> QED BY <2>1, <2>2 DEF StoreClosed
<1>7. InsertionsAgree'
  <2>1. Agrees(t)'
    <3>1. pc'[t] = "unrefer_proposers"
      BY SMTT(30), <1>1 DEF TypeOK
    <3> QED BY <3>1, <1>1, <1>rec, <1>5 DEF Agrees, Uncommitted, Committed
  <2>2. ASSUME NEW u \in Thread \ {t} PROVE Agrees(u)'
    <3>1. pc'[u] = pc[u] /\ Agrees(u)
      BY <1>1 DEF TypeOK, StoreConsistent, InsertionsAgree
    <3>2. pc[u] \in Uncommitted => block[u].hash # b.hash
      BY <1>1 DEF StoreConsistent, InsertionsDistinct, Uncommitted
    <3> QED BY Zenon, <3>1, <3>2, <1>1, <1>5 DEF Agrees, Referred
  <2> QED BY <2>1, <2>2 DEF InsertionsAgree
<1>8. InsertionsDistinct'
  BY <1>1 DEF StoreConsistent, InsertionsDistinct, TypeOK, Uncommitted, Committed
<1> QED BY SMTT(30), <1>6, <1>7, <1>8 DEF StoreConsistent

\* The write batch of a voter block precedes the thread that will announce it.
LEMMA InsertVoterConsistent ==
  ASSUME TypeOK, StoreConsistent, NEW t \in Thread, InsertVoter(t)
  PROVE  StoreConsistent'
<1>1. PICK h \in VoterHash \ DOMAIN voter_node, vp \in DOMAIN voter_node,
           p \in DOMAIN proposer_node :
        \E v \in VoteLists(vp, p) : CommitVoter(t, h, vp, p, v)
  BY DEF InsertVoter
<1>2. PICK v \in VoteLists(vp, p) : CommitVoter(t, h, vp, p, v)
  BY <1>1
<1> DEFINE chain == voter_node[vp].chain
           level == voter_node[vp].level + 1
           rec == [chain |-> chain, level |-> level, parent |-> vp,
                   votes |-> v, voted_level |-> proposer_node[p].level]
<1>3. /\ pc[t] = "idle"
      /\ voter_node' = Put(voter_node, h, rec)
      /\ block' = [block EXCEPT ![t] = [hash |-> h, chain |-> chain, level |-> level]]
      /\ pc' = [pc EXCEPT ![t] = "voter_best"]
      /\ UNCHANGED <<proposer_node, proposer_tree_level, transaction_node>>
  BY <1>2 DEF CommitVoter, Goto
<1>rec. rec.chain = chain /\ rec.level = level
  OBVIOUS
<1> HIDE DEF rec, chain, level
<1>4. /\ DOMAIN voter_node' = DOMAIN voter_node \cup {h}
      /\ voter_node'[h] = rec
      /\ \A q \in DOMAIN voter_node : voter_node'[q] = voter_node[q]
  BY <1>3 DEF Put
<1>5. StoreClosed'
  BY <1>3 DEF StoreConsistent, StoreClosed
<1>6. /\ pc'[t] = "voter_best"
      /\ block'[t] = [hash |-> h, chain |-> chain, level |-> level]
      /\ \A u \in Thread \ {t} : pc'[u] = pc[u] /\ block'[u] = block[u]
  BY <1>3 DEF TypeOK
<1>7. InsertionsAgree'
  <2>1. Agrees(t)'
    BY SMTT(30), <1>4, <1>6, <1>rec DEF Agrees, Uncommitted, Committed
  <2>2. ASSUME NEW u \in Thread \ {t} PROVE Agrees(u)'
    <3>1. pc'[u] = pc[u] /\ block'[u] = block[u] /\ Agrees(u)
      BY <1>6 DEF StoreConsistent, InsertionsAgree
    <3>2. UNCHANGED <<proposer_node, transaction_node>>
      BY <1>3
    <3>3. /\ DOMAIN voter_node \subseteq DOMAIN voter_node'
          /\ \A q \in DOMAIN voter_node : voter_node'[q] = voter_node[q]
      BY <1>4
    <3> QED BY Zenon, <3>1, <3>2, <3>3 DEF Agrees, Referred
  <2> QED BY <2>1, <2>2 DEF InsertionsAgree
<1>8. \A u \in Thread : pc[u] = "voter_best" => block[u].hash # h
  BY Zenon DEF StoreConsistent, InsertionsAgree, Agrees
<1>9. InsertionsDistinct'
  <2>1. pc'[t] = "voter_best" /\ block'[t].hash = h
    BY <1>6
  <2>2. \A u \in Thread \ {t} : pc'[u] = pc[u] /\ block'[u].hash = block[u].hash
    BY <1>6
  <2>3. "voter_best" \notin Uncommitted \cup Committed
    BY DEF Uncommitted, Committed
  <2> QED BY <2>1, <2>2, <2>3, <1>8 DEF StoreConsistent, InsertionsDistinct
<1> QED BY <1>5, <1>7, <1>9 DEF StoreConsistent

\* A fresh transaction block enters flight.
LEMMA InsertTransactionConsistent ==
  ASSUME TypeOK, StoreConsistent, NEW t \in Thread, InsertTransaction(t)
  PROVE  StoreConsistent'
<1>1. PICK h \in TransactionHash :
        /\ pc[t] = "idle"
        /\ FreshTransaction(h)
        /\ block' = [block EXCEPT ![t] = [hash |-> h]]
        /\ pc' = [pc EXCEPT ![t] = "tx_commit"]
        /\ UNCHANGED <<proposer_node, proposer_tree_level, voter_node, transaction_node>>
  BY Zenon DEF InsertTransaction, Goto, dbVars
<1>2. /\ h \notin transaction_node
      /\ \A u \in Thread : pc[u] = "tx_commit" => block[u].hash # h
  BY <1>1 DEF FreshTransaction, Inserting
<1>3. StoreClosed'
  BY <1>1 DEF StoreConsistent, StoreClosed
<1>4. InsertionsAgree'
  <2>1. Agrees(t)'
    BY <1>1, <1>2 DEF Agrees, TypeOK, Uncommitted, Committed
  <2>2. ASSUME NEW u \in Thread \ {t} PROVE Agrees(u)'
    BY <1>1 DEF StoreConsistent, InsertionsAgree, Agrees, TypeOK, Referred
  <2> QED BY <2>1, <2>2 DEF InsertionsAgree
<1>5. InsertionsDistinct'
  BY <1>1, <1>2 DEF StoreConsistent, InsertionsDistinct, TypeOK, Uncommitted, Committed
<1> QED BY <1>3, <1>4, <1>5 DEF StoreConsistent

\* The commit of a transaction block does not collide with another in flight.
LEMMA CommitTransactionConsistent ==
  ASSUME TypeOK, StoreConsistent, NEW t \in Thread, CommitTransaction(t)
  PROVE  StoreConsistent'
<1>1. /\ pc[t] = "tx_commit"
      /\ transaction_node' = transaction_node \cup {block[t].hash}
      /\ pc' = [pc EXCEPT ![t] = "idle"]
      /\ block' = [block EXCEPT ![t] = NoBlock]
      /\ UNCHANGED <<proposer_node, proposer_tree_level, voter_node>>
  BY DEF CommitTransaction, Return, Goto
<1>2. \A u \in Thread : pc'[u] # "idle" => u # t /\ pc'[u] = pc[u] /\ block'[u] = block[u]
  BY <1>1 DEF TypeOK
<1>3. "idle" \notin Uncommitted \cup Committed
  BY DEF Uncommitted, Committed
<1>4. StoreClosed'
  BY <1>1 DEF StoreConsistent, StoreClosed
<1>5. InsertionsAgree'
  <2>1. Agrees(t)'
    BY SMTT(30), <1>1, <1>3 DEF Agrees, TypeOK
  <2>2. ASSUME NEW u \in Thread \ {t} PROVE Agrees(u)'
    <3>1. pc'[u] = pc[u] /\ block'[u] = block[u] /\ Agrees(u)
      BY <1>1 DEF TypeOK, StoreConsistent, InsertionsAgree
    <3>2. pc[u] = "tx_commit" => block[u].hash # block[t].hash
      BY <1>1 DEF StoreConsistent, InsertionsDistinct
    <3>3. /\ UNCHANGED <<proposer_node, voter_node>>
          /\ transaction_node' = transaction_node \cup {block[t].hash}
      BY <1>1
    <3> QED BY Zenon, <3>1, <3>2, <3>3 DEF Agrees, Referred
  <2> QED BY <2>1, <2>2 DEF InsertionsAgree
<1>6. InsertionsDistinct'
  BY <1>2, <1>3 DEF StoreConsistent, InsertionsDistinct
<1> QED BY <1>4, <1>5, <1>6 DEF StoreConsistent

\* Every step of insert_block keeps the store consistent.
LEMMA ConsistentStep ==
  ASSUME TypeOK, StoreConsistent, [Next]_bcVars
  PROVE  StoreConsistent'
<1> USE DEF StoreConsistent
<1>1. ASSUME NEW t \in Thread, insert_block(t) PROVE StoreConsistent'
  <2>1. CASE InsertProposer(t)
    BY <2>1, InsertProposerConsistent
  <2>2. CASE CommitProposer(t)
    BY <2>2, CommitProposerConsistent
  <2>3. CASE InsertVoter(t)
    BY <2>3, InsertVoterConsistent
  <2>4. CASE InsertTransaction(t)
    BY <2>4, InsertTransactionConsistent
  <2>5. CASE CommitTransaction(t)
    BY <2>5, CommitTransactionConsistent
  <2>6. CASE MarkUnconfirmed(t) \/ UnreferProposers(t)
    <3>1. /\ UNCHANGED <<proposer_node, proposer_tree_level, voter_node,
                         transaction_node, block>>
          /\ \/ pc[t] = "unconfirmed" /\ pc' = [pc EXCEPT ![t] = "commit"]
             \/ /\ pc[t] = "unrefer_proposers"
                /\ pc' = [pc EXCEPT ![t] = "unrefer_transactions"]
      BY <2>6 DEF MarkUnconfirmed, UnreferProposers, After, Goto, dbVars
    <3>2. StoreClosed'
      BY <3>1 DEF StoreClosed
    <3>3. \A u \in Thread :
            /\ pc'[u] \in Uncommitted <=> pc[u] \in Uncommitted
            /\ pc'[u] \in Committed <=> pc[u] \in Committed
            /\ pc'[u] = "tx_commit" <=> pc[u] = "tx_commit"
            /\ pc'[u] = "voter_best" <=> pc[u] = "voter_best"
      BY SMTT(30), <3>1 DEF TypeOK, Uncommitted, Committed
    <3>4. InsertionsAgree'
      <4> SUFFICES ASSUME NEW u \in Thread PROVE Agrees(u)'
        BY DEF InsertionsAgree
      <4> QED BY Zenon, <3>1, <3>3 DEF InsertionsAgree, Agrees, Referred
    <3>5. InsertionsDistinct'
      BY <3>1, <3>3 DEF InsertionsDistinct
    <3> QED BY <3>2, <3>4, <3>5
  <2>7. CASE UnreferTransactions(t) \/ UpdateVoterBest(t)
    <3>1. /\ UNCHANGED <<proposer_node, proposer_tree_level, voter_node, transaction_node>>
          /\ pc' = [pc EXCEPT ![t] = "idle"]
          /\ block' = [block EXCEPT ![t] = NoBlock]
      BY <2>7 DEF UnreferTransactions, UpdateVoterBest, Return, Goto, dbVars
    <3>2. StoreClosed'
      BY <3>1 DEF StoreClosed
    <3>3. \A u \in Thread : pc'[u] # "idle" => pc'[u] = pc[u] /\ block'[u] = block[u]
      BY <3>1 DEF TypeOK
    <3>4. "idle" \notin Uncommitted \cup Committed
      BY DEF Uncommitted, Committed
    <3>5. InsertionsAgree'
      <4>1. Agrees(t)'
        BY SMTT(30), <3>1, <3>4 DEF Agrees, TypeOK
      <4>2. ASSUME NEW u \in Thread \ {t} PROVE Agrees(u)'
        <5>1. pc'[u] = pc[u] /\ block'[u] = block[u] /\ Agrees(u)
          BY <3>1 DEF TypeOK, InsertionsAgree
        <5>2. UNCHANGED <<proposer_node, voter_node, transaction_node>>
          BY <3>1
        <5> QED BY Zenon, <5>1, <5>2 DEF Agrees, Referred
      <4> QED BY <4>1, <4>2 DEF InsertionsAgree
    <3>6. InsertionsDistinct'
      BY <3>3, <3>4 DEF InsertionsDistinct
    <3> QED BY <3>2, <3>5, <3>6
  <2> QED BY <1>1, <2>1, <2>2, <2>3, <2>4, <2>5, <2>6, <2>7 DEF insert_block
<1>2. CASE UNCHANGED bcVars
  <2>1. UNCHANGED <<proposer_node, proposer_tree_level, voter_node, transaction_node,
                    pc, block>>
    BY <1>2 DEF bcVars, dbVars
  <2>2. StoreClosed' /\ InsertionsDistinct'
    BY SMTT(30), <2>1 DEF StoreClosed, InsertionsDistinct
  <2>3. ASSUME NEW u \in Thread PROVE Agrees(u)'
    <3>1. Agrees(u)
      BY DEF InsertionsAgree
    <3> QED BY <2>1, <3>1 DEF Agrees, Referred
  <2> QED BY <2>2, <2>3 DEF InsertionsAgree
<1> QED BY <1>1, <1>2 DEF Next

\* Whatever threads insert blocks at the same time, what a block points to is
\* always committed, and no two threads insert the same block.
THEOREM StoreIsConsistent == Spec => [](TypeOK /\ StoreConsistent)
<1>1. Init => TypeOK /\ StoreConsistent
  BY InitTypeOK, InitConsistent
<1>2. TypeOK /\ StoreConsistent /\ [Next]_bcVars => (TypeOK /\ StoreConsistent)'
  BY TypeStep, ConsistentStep
<1> QED BY <1>1, <1>2, PTL DEF Spec

-----------------------------------------------------------------------------
(* The unreferred sets.  Each one is compared member by member with its    *)
(* definition.  The sets of blocks in flight are the only part that every  *)
(* step touches, so they are worked out first.                             *)

\* Every step of insert_block keeps unreferred_proposers exact.
LEMMA UnreferredProposersStep ==
  ASSUME TypeOK, StoreConsistent, UnreferredProposersExact, [Next]_bcVars
  PROVE  UnreferredProposersExact'
<1> DEFINE W == {"unrefer_proposers"}
<1>1. ASSUME NEW t \in Thread, InsertProposer(t) PROVE UnreferredProposersExact'
  <2>1. PICK h, b :
          /\ h \in ProposerHash
          /\ FreshProposer(h)
          /\ b.hash = h
          /\ MarkUnreferredProposer(t, b)
    BY <1>1 DEF InsertProposer
  <2>2. /\ pc[t] = "idle" /\ pc' = [pc EXCEPT ![t] = "unconfirmed"]
        /\ block' = [block EXCEPT ![t] = b]
        /\ unreferred_proposers' = unreferred_proposers \cup {h}
        /\ proposer_node' = proposer_node
    BY <2>1 DEF MarkUnreferredProposer, Goto, After, dbVars
  <2>3. InFlight(W)' = InFlight(W)
    BY <2>2 DEF TypeOK, InFlight, Inserting
  <2>4. InFlight(Uncommitted)' = InFlight(Uncommitted) \cup {h}
    BY <2>1, <2>2 DEF TypeOK, InFlight, Inserting, Uncommitted
  <2>5. \A q \in DOMAIN proposer_node : h \notin Range(proposer_node[q].refs)
    BY <2>1 DEF FreshProposer, StoreConsistent, StoreClosed
  <2> QED BY <2>2, <2>3, <2>4, <2>5 DEF UnreferredProposersExact
<1>2. ASSUME NEW t \in Thread, CommitProposer(t) PROVE UnreferredProposersExact'
  <2> DEFINE h == block[t].hash
  <2>1. /\ pc[t] = "commit" /\ pc' = [pc EXCEPT ![t] = "unrefer_proposers"]
        /\ block' = block
        /\ unreferred_proposers' = unreferred_proposers
    BY SMTT(30), <1>2 DEF CommitProposer, Goto, After, unreferredVars
  <2>2. h \notin DOMAIN proposer_node
    BY Zenon, <2>1 DEF StoreConsistent, InsertionsAgree, Agrees, Uncommitted
  <2>3. /\ DOMAIN proposer_node' = DOMAIN proposer_node \cup {h}
        /\ \A q \in DOMAIN proposer_node : proposer_node'[q] = proposer_node[q]
    BY Zenon, <1>2, <2>2 DEF CommitProposer, Put
  <2>4. InFlight(W)' = InFlight(W) \cup {h}
    BY <2>1 DEF TypeOK, InFlight, Inserting
  <2>5. InFlight(Uncommitted)' \cup {h} = InFlight(Uncommitted)
    BY <2>1 DEF TypeOK, InFlight, Inserting, Uncommitted
  <2> HIDE DEF W, h
  <2>6. DOMAIN proposer_node' \ InFlight(W)' = DOMAIN proposer_node \ InFlight(W)
    BY <2>2, <2>3, <2>4
  <2> QED BY SMTT(30), <2>1, <2>3, <2>5, <2>6 DEF UnreferredProposersExact, W
<1>3. ASSUME NEW t \in Thread, UnreferProposers(t) PROVE UnreferredProposersExact'
  <2> DEFINE h == block[t].hash
  <2>1. /\ pc[t] = "unrefer_proposers" /\ pc' = [pc EXCEPT ![t] = "unrefer_transactions"]
        /\ block' = block /\ proposer_node' = proposer_node
        /\ unreferred_proposers' = unreferred_proposers \ Referred(block[t])
    BY <1>3 DEF UnreferProposers, Goto, dbVars
  <2>2. h \in DOMAIN proposer_node /\ Range(proposer_node[h].refs) = Referred(block[t])
    <3>1. /\ h \in DOMAIN proposer_node /\ block[t] \in ProposerBlock
          /\ proposer_node[h].refs = <<block[t].parent>> \o block[t].refs
      BY <2>1 DEF StoreConsistent, InsertionsAgree, Agrees, Committed, TypeOK
    <3> QED BY SMTT(30), <3>1, RangeCons DEF ProposerBlock, Referred
  <2>3. InFlight(Uncommitted)' = InFlight(Uncommitted)
    BY <2>1 DEF TypeOK, InFlight, Inserting, Uncommitted
  <2>4. InFlight(W)' = InFlight(W) \ {h}
    <3>1. \A u \in Thread : u # t /\ pc[u] = "unrefer_proposers" => block[u].hash # h
      BY <2>1 DEF StoreConsistent, InsertionsDistinct, Committed
    <3> QED BY <3>1, <2>1 DEF TypeOK, InFlight, Inserting
  <2>5. h \in InFlight(W)
    BY <2>1 DEF InFlight, Inserting
  <2> HIDE DEF W, h
  <2>6. DOMAIN proposer_node \ InFlight(W)' = (DOMAIN proposer_node \ InFlight(W)) \cup {h}
    BY <2>2, <2>4, <2>5
  <2> QED BY <2>1, <2>2, <2>3, <2>6 DEF UnreferredProposersExact, W
<1>4. ASSUME NEW t \in Thread,
             \/ MarkUnconfirmed(t) \/ UnreferTransactions(t) \/ InsertVoter(t)
             \/ UpdateVoterBest(t) \/ InsertTransaction(t) \/ CommitTransaction(t)
      PROVE  UnreferredProposersExact'
  <2>1. /\ proposer_node' = proposer_node
        /\ unreferred_proposers' = unreferred_proposers
    BY Zenon, <1>4 DEF MarkUnconfirmed, UnreferTransactions, InsertVoter, CommitVoter,
                UpdateVoterBest, InsertTransaction, CommitTransaction, dbVars,
                unreferredVars
  <2>2. \/ pc[t] = "unconfirmed" /\ pc' = [pc EXCEPT ![t] = "commit"] /\ block' = block
        \/ /\ pc[t] \in {"idle", "unrefer_transactions", "voter_best", "tx_commit"}
           /\ pc'[t] \in {"idle", "voter_best", "tx_commit"}
           /\ \A u \in Thread \ {t} : pc'[u] = pc[u] /\ block'[u] = block[u]
    <3>1. CASE MarkUnconfirmed(t)
      BY SMTT(30), <3>1 DEF MarkUnconfirmed, Goto, After
    <3>2. CASE InsertVoter(t) \/ InsertTransaction(t)
      BY Zenon, <3>2 DEF InsertVoter, CommitVoter, InsertTransaction, Goto, TypeOK
    <3>3. CASE UnreferTransactions(t) \/ UpdateVoterBest(t) \/ CommitTransaction(t)
      BY <3>3 DEF UnreferTransactions, UpdateVoterBest, CommitTransaction, Return,
                  Goto, TypeOK
    <3> QED BY SMTT(30), <1>4, <3>1, <3>2, <3>3
  <2>3. Inserting(W)' = Inserting(W) /\ Inserting(Uncommitted)' = Inserting(Uncommitted)
    BY <2>2 DEF TypeOK, Inserting, Uncommitted
  <2>4. \A u \in Inserting(W) \cup Inserting(Uncommitted) : block'[u] = block[u]
    BY <2>2 DEF Inserting, Uncommitted
  <2>5. /\ InFlight(W)' = InFlight(W)
        /\ InFlight(Uncommitted)' = InFlight(Uncommitted)
    BY <2>3, <2>4 DEF InFlight
  <2> QED BY SMTT(30), <2>1, <2>5 DEF UnreferredProposersExact
<1>5. CASE UNCHANGED bcVars
  BY <1>5 DEF bcVars, dbVars, bestVars, unreferredVars, UnreferredProposersExact,
              InFlight, Inserting
<1> QED BY <1>1, <1>2, <1>3, <1>4, <1>5 DEF Next, insert_block

\* Every step of insert_block keeps unreferred_transactions exact.
LEMMA UnreferredTransactionsStep ==
  ASSUME TypeOK, StoreConsistent, UnreferredTransactionsExact, [Next]_bcVars
  PROVE  UnreferredTransactionsExact'
<1> DEFINE W == {"tx_commit"}
<1>1. ASSUME NEW t \in Thread, InsertTransaction(t) PROVE UnreferredTransactionsExact'
  <2>1. PICK h \in TransactionHash :
          /\ pc[t] = "idle" /\ pc' = [pc EXCEPT ![t] = "tx_commit"]
          /\ FreshTransaction(h)
          /\ unreferred_transactions' = unreferred_transactions \cup {h}
          /\ block' = [block EXCEPT ![t] = [hash |-> h]]
          /\ UNCHANGED <<proposer_node, transaction_node>>
    BY Zenon, <1>1 DEF InsertTransaction, Goto, dbVars
  <2>2. InFlight(W)' = InFlight(W) \cup {h}
    BY <2>1 DEF TypeOK, InFlight, Inserting
  <2>3. InFlight(Committed)' = InFlight(Committed)
    BY <2>1 DEF TypeOK, InFlight, Inserting, Committed
  <2>4. \A q \in DOMAIN proposer_node : h \notin Range(proposer_node[q].txs)
    BY <2>1 DEF FreshTransaction, StoreConsistent, StoreClosed
  <2> QED BY <2>1, <2>2, <2>3, <2>4 DEF UnreferredTransactionsExact
<1>2. ASSUME NEW t \in Thread, CommitTransaction(t) PROVE UnreferredTransactionsExact'
  <2> DEFINE h == block[t].hash
  <2>1. /\ pc[t] = "tx_commit" /\ pc' = [pc EXCEPT ![t] = "idle"]
        /\ block' = [block EXCEPT ![t] = NoBlock]
        /\ transaction_node' = transaction_node \cup {h}
        /\ UNCHANGED <<proposer_node, unreferred_transactions>>
    BY <1>2 DEF CommitTransaction, Return, Goto, unreferredVars
  <2>2. InFlight(W)' \cup {h} = InFlight(W)
    BY <2>1 DEF TypeOK, InFlight, Inserting
  <2>3. InFlight(Committed)' = InFlight(Committed)
    BY <2>1 DEF TypeOK, InFlight, Inserting, Committed
  <2> HIDE DEF h, W
  <2> QED BY <2>1, <2>2, <2>3 DEF UnreferredTransactionsExact, W
<1>3. ASSUME NEW t \in Thread, CommitProposer(t) PROVE UnreferredTransactionsExact'
  <2> DEFINE h == block[t].hash
  <2>1. /\ pc[t] = "commit" /\ pc' = [pc EXCEPT ![t] = "unrefer_proposers"]
        /\ UNCHANGED <<block, transaction_node, unreferred_transactions>>
    BY SMTT(30), <1>3 DEF CommitProposer, Goto, After, unreferredVars
  <2>2. h \notin DOMAIN proposer_node
    BY Zenon, <2>1 DEF StoreConsistent, InsertionsAgree, Agrees, Uncommitted
  <2>3. /\ DOMAIN proposer_node' = DOMAIN proposer_node \cup {h}
        /\ \A q \in DOMAIN proposer_node : proposer_node'[q] = proposer_node[q]
    BY Zenon, <1>3, <2>2 DEF CommitProposer, Put
  <2>4. InFlight(Committed)' = InFlight(Committed) \cup {h}
    BY <2>1 DEF TypeOK, InFlight, Inserting, Committed
  <2>5. InFlight(W)' = InFlight(W)
    BY <2>1 DEF TypeOK, InFlight, Inserting
  <2> HIDE DEF W, h
  <2>6. DOMAIN proposer_node' \ InFlight(Committed)' = DOMAIN proposer_node \ InFlight(Committed)
    BY <2>2, <2>3, <2>4
  <2> QED BY SMTT(30), <2>1, <2>3, <2>5, <2>6 DEF UnreferredTransactionsExact, W
<1>4. ASSUME NEW t \in Thread, UnreferTransactions(t) PROVE UnreferredTransactionsExact'
  <2> DEFINE h == block[t].hash
  <2>1. /\ pc[t] = "unrefer_transactions" /\ pc' = [pc EXCEPT ![t] = "idle"]
        /\ block' = [block EXCEPT ![t] = NoBlock]
        /\ unreferred_transactions' = unreferred_transactions \ Range(block[t].txs)
        /\ UNCHANGED <<proposer_node, transaction_node>>
    BY SMTT(30), <1>4 DEF UnreferTransactions, Return, Goto, dbVars
  <2>2. h \in DOMAIN proposer_node /\ proposer_node[h].txs = block[t].txs
    BY Zenon, <2>1 DEF StoreConsistent, InsertionsAgree, Agrees, Committed
  <2>3. InFlight(W)' = InFlight(W)
    BY <2>1 DEF TypeOK, InFlight, Inserting
  <2>4. InFlight(Committed)' = InFlight(Committed) \ {h}
    <3>1. \A u \in Thread : u # t /\ pc[u] \in Committed => block[u].hash # h
      BY <2>1 DEF StoreConsistent, InsertionsDistinct, Committed
    <3> QED BY <3>1, <2>1 DEF TypeOK, InFlight, Inserting, Committed
  <2>5. h \in InFlight(Committed)
    BY <2>1 DEF InFlight, Inserting, Committed
  <2> HIDE DEF W, h
  <2>6. DOMAIN proposer_node \ InFlight(Committed)'
          = (DOMAIN proposer_node \ InFlight(Committed)) \cup {h}
    BY <2>2, <2>4, <2>5
  <2> QED BY <2>1, <2>2, <2>3, <2>6 DEF UnreferredTransactionsExact, W
<1>5. ASSUME NEW t \in Thread,
             \/ InsertProposer(t) \/ MarkUnconfirmed(t) \/ UnreferProposers(t)
             \/ InsertVoter(t) \/ UpdateVoterBest(t)
      PROVE  UnreferredTransactionsExact'
  <2>1. UNCHANGED <<proposer_node, transaction_node, unreferred_transactions>>
    BY Zenon, <1>5 DEF InsertProposer, MarkUnreferredProposer, MarkUnconfirmed,
                UnreferProposers, InsertVoter, CommitVoter, UpdateVoterBest, dbVars,
                unreferredVars
  <2>2. \/ /\ pc[t] = "unrefer_proposers" /\ block' = block
           /\ pc' = [pc EXCEPT ![t] = "unrefer_transactions"]
        \/ pc[t] = "unconfirmed" /\ pc' = [pc EXCEPT ![t] = "commit"] /\ block' = block
        \/ /\ pc[t] \in {"idle", "voter_best"}
           /\ pc'[t] \in {"unconfirmed", "idle", "voter_best"}
           /\ \A u \in Thread \ {t} : pc'[u] = pc[u] /\ block'[u] = block[u]
    <3>1. CASE InsertProposer(t)
      BY SMTT(30), <3>1 DEF InsertProposer, MarkUnreferredProposer, Goto, After, TypeOK
    <3>2. CASE MarkUnconfirmed(t) \/ UnreferProposers(t)
      BY SMTT(30), <3>2 DEF MarkUnconfirmed, UnreferProposers, Goto, After
    <3>3. CASE InsertVoter(t) \/ UpdateVoterBest(t)
      BY ZenonT(30), <3>3 DEF InsertVoter, CommitVoter, UpdateVoterBest, Return, Goto, TypeOK
    <3> QED BY SMTT(30), <1>5, <3>1, <3>2, <3>3
  <2>3. Inserting(W)' = Inserting(W) /\ Inserting(Committed)' = Inserting(Committed)
    BY <2>2 DEF TypeOK, Inserting, Committed
  <2>4. \A u \in Inserting(W) \cup Inserting(Committed) : block'[u] = block[u]
    BY <2>2 DEF Inserting, Committed
  <2>5. /\ InFlight(W)' = InFlight(W)
        /\ InFlight(Committed)' = InFlight(Committed)
    BY <2>3, <2>4 DEF InFlight
  <2> QED BY SMTT(30), <2>1, <2>5 DEF UnreferredTransactionsExact
<1>6. CASE UNCHANGED bcVars
  BY <1>6 DEF bcVars, dbVars, bestVars, unreferredVars, UnreferredTransactionsExact,
              InFlight, Inserting
<1> QED BY <1>1, <1>2, <1>3, <1>4, <1>5, <1>6 DEF Next, insert_block

\* insert_block never forgets a block that the miner has to refer to, and never
\* keeps one that a completed insertion has referred to, for any interleaving.
THEOREM UnreferredExact ==
  Spec => [](UnreferredProposersExact /\ UnreferredTransactionsExact)
<1> DEFINE Inv == UnreferredProposersExact /\ UnreferredTransactionsExact
<1>1. Init => Inv
  <2> SUFFICES ASSUME Init PROVE Inv
    BY SMTT(30)
  <2>1. \A S : "idle" \notin S => InFlight(S) = {}
    BY DEF Init, InFlight, Inserting
  <2>2. /\ InFlight(Uncommitted) = {} /\ InFlight({"unrefer_proposers"}) = {}
        /\ InFlight({"tx_commit"}) = {} /\ InFlight(Committed) = {}
    BY <2>1 DEF Uncommitted, Committed
  <2> QED BY <2>2 DEF Init, Range, UnreferredProposersExact, UnreferredTransactionsExact
<1>2. TypeOK /\ StoreConsistent /\ Inv /\ [Next]_bcVars => Inv'
  BY UnreferredProposersStep, UnreferredTransactionsStep
<1> QED BY <1>1, <1>2, StoreIsConsistent, PTL DEF Spec

\* In particular the transaction blocks that the miner is offered for a proposer block
\* (unreferred_transactions) are the committed ones that no proposer block whose
\* insertion has come that far refers to.
COROLLARY TransactionsAreExact == Spec => []UnreferredTransactionsExact
  BY UnreferredExact, PTL

-----------------------------------------------------------------------------
(* The best blocks.                                                        *)

\* Every step of insert_block keeps proposer_best_level the deepest level.
LEMMA ProposerBestStep ==
  ASSUME TypeOK, StoreConsistent, TypeOK', StoreConsistent',
         ProposerBestIsDeepest, [Next]_bcVars
  PROVE  ProposerBestIsDeepest'
<1>1. ASSUME NEW t \in Thread, CommitProposer(t) PROVE ProposerBestIsDeepest'
  <2> DEFINE b == block[t]
             level == proposer_node[b.parent].level + 1
             rec == [level |-> level, refs |-> <<b.parent>> \o b.refs, txs |-> b.txs]
  <2>1. /\ proposer_node' = Put(proposer_node, b.hash, rec)
        /\ proposer_tree_level' = AppendHash(proposer_tree_level, level, b.hash)
        /\ proposer_best_level' = BestLevel(level, proposer_best_level)
    BY Zenon, <1>1 DEF CommitProposer
  <2>2. level \in Nat /\ rec.level = level
    <3>1. b.parent \in DOMAIN proposer_node
      BY Zenon, <1>1 DEF CommitProposer, StoreConsistent, InsertionsAgree, Agrees,
                  Uncommitted, Referred
    <3> QED BY SMTT(30), <3>1 DEF TypeOK, ProposerRecord
  <2> HIDE DEF level, rec
  <2>3. \A h \in DOMAIN proposer_node' : proposer_node'[h].level <= proposer_best_level'
    BY SMTT(30), <2>1, <2>2 DEF Put, BestLevel, ProposerBestIsDeepest, TypeOK, ProposerRecord
  <2>4. proposer_best_level' \in DOMAIN proposer_tree_level'
    BY SMTT(30), <2>1 DEF AppendHash, Put, BestLevel, ProposerBestIsDeepest
  <2> QED BY SMTT(30), <2>3, <2>4 DEF ProposerBestIsDeepest, StoreConsistent, StoreClosed
<1>2. CASE UNCHANGED <<proposer_node, proposer_tree_level, proposer_best_level>>
  BY SMTT(30), <1>2 DEF ProposerBestIsDeepest
<1>3. ASSUME NEW t \in Thread, insert_block(t), ~CommitProposer(t)
      PROVE  UNCHANGED <<proposer_node, proposer_tree_level, proposer_best_level>>
  BY Zenon, <1>3 DEF insert_block, InsertProposer, MarkUnreferredProposer, MarkUnconfirmed,
              UnreferProposers, UnreferTransactions, InsertVoter, CommitVoter,
              UpdateVoterBest, InsertTransaction, CommitTransaction, dbVars, bestVars
<1> QED BY <1>1, <1>2, <1>3 DEF Next, bcVars, dbVars, bestVars

\* Every step of insert_block keeps voter_best the longest announced block.
LEMMA VoterBestStep ==
  ASSUME TypeOK, StoreConsistent, VoterBestIsLongest, [Next]_bcVars
  PROVE  VoterBestIsLongest'
<1> DEFINE W == {"voter_best"}
<1>1. ASSUME NEW t \in Thread, InsertVoter(t) PROVE VoterBestIsLongest'
  <2>1. PICK h, rec, b :
          /\ h \in VoterHash \ DOMAIN voter_node
          /\ pc[t] = "idle" /\ pc' = [pc EXCEPT ![t] = "voter_best"]
          /\ voter_node' = Put(voter_node, h, rec)
          /\ block' = [block EXCEPT ![t] = b] /\ b.hash = h
          /\ voter_best' = voter_best
    <3>1. PICK h \in VoterHash \ DOMAIN voter_node, vp \in DOMAIN voter_node,
               p \in DOMAIN proposer_node :
            \E v \in VoteLists(vp, p) : CommitVoter(t, h, vp, p, v)
      BY Zenon, <1>1 DEF InsertVoter
    <3>2. PICK v \in VoteLists(vp, p) : CommitVoter(t, h, vp, p, v)
      BY SMTT(30), <3>1
    <3> DEFINE b == [hash |-> h, chain |-> voter_node[vp].chain,
                     level |-> voter_node[vp].level + 1]
    <3>3. \E rec : /\ pc[t] = "idle" /\ pc' = [pc EXCEPT ![t] = "voter_best"]
                   /\ voter_node' = Put(voter_node, h, rec)
                   /\ block' = [block EXCEPT ![t] = b] /\ b.hash = h
                   /\ voter_best' = voter_best
      BY Zenon, <3>2 DEF CommitVoter, Goto, bestVars
    <3> QED BY ZenonT(30), <3>3
  <2>2. /\ DOMAIN voter_node' = DOMAIN voter_node \cup {h}
        /\ \A q \in DOMAIN voter_node : voter_node'[q] = voter_node[q]
    BY <2>1 DEF Put
  <2>3. InFlight(W)' = InFlight(W) \cup {h}
    BY SMTT(30), <2>1 DEF TypeOK, InFlight, Inserting
  <2>4. voter_best' = voter_best
    BY SMTT(30), <2>1
  <2>5. ASSUME NEW c \in Chain
        PROVE  /\ voter_best'[c].hash \in DOMAIN voter_node'
               /\ voter_node'[voter_best'[c].hash].chain = c
               /\ voter_node'[voter_best'[c].hash].level = voter_best'[c].level
    BY SMTT(30), <2>2, <2>4 DEF VoterBestIsLongest
  <2>6. ASSUME NEW q \in DOMAIN voter_node' \ InFlight(W)'
        PROVE  voter_node'[q].level <= voter_best'[voter_node'[q].chain].level
    <3>1. q \in DOMAIN voter_node \ InFlight(W) /\ voter_node'[q] = voter_node[q]
      BY Zenon, <2>2, <2>3
    <3> QED BY SMTT(30), <3>1, <2>4 DEF VoterBestIsLongest
  <2> QED BY SMTT(30), <2>5, <2>6 DEF VoterBestIsLongest
<1>2. ASSUME NEW t \in Thread, UpdateVoterBest(t) PROVE VoterBestIsLongest'
  <2> DEFINE b == block[t]
  <2>1. /\ pc[t] = "voter_best" /\ pc' = [pc EXCEPT ![t] = "idle"]
        /\ voter_best' = [voter_best EXCEPT ![b.chain] = Better(b, @)]
        /\ block' = [block EXCEPT ![t] = NoBlock]
        /\ voter_node' = voter_node
    BY SMTT(30), <1>2 DEF UpdateVoterBest, Return, Goto, dbVars
  <2>2. /\ b.hash \in DOMAIN voter_node /\ b.chain \in Chain /\ b.level \in Nat
        /\ voter_node[b.hash].chain = b.chain /\ voter_node[b.hash].level = b.level
    BY Zenon, <2>1 DEF StoreConsistent, InsertionsAgree, Agrees, TypeOK
  <2>3. InFlight(W) \ {b.hash} \subseteq InFlight(W)'
    BY <2>1 DEF TypeOK, InFlight, Inserting
  <2> HIDE DEF b, W
  <2>4. /\ voter_best'[b.chain] = Better(b, voter_best[b.chain])
        /\ \A c \in Chain \ {b.chain} : voter_best'[c] = voter_best[c]
    BY <2>1, <2>2 DEF TypeOK
  <2>5. /\ voter_best'[b.chain].level >= b.level
        /\ \A c \in Chain : voter_best'[c].level >= voter_best[c].level
        /\ \A c \in Chain : voter_best'[c].level \in Nat
    <3>1. \A c \in Chain : voter_best[c].level \in Nat
      BY DEF TypeOK
    <3>2. /\ voter_best'[b.chain].level \in Nat
          /\ voter_best'[b.chain].level >= b.level
          /\ voter_best'[b.chain].level >= voter_best[b.chain].level
      <4>1. b.level \in Nat /\ voter_best[b.chain].level \in Nat
        BY <3>1, <2>2
      <4>2. CASE b.level > voter_best[b.chain].level
        <5>1. voter_best'[b.chain].level = b.level
          BY <4>2, <2>4 DEF Better
        <5> QED BY <4>1, <4>2, <5>1
      <4>3. CASE ~(b.level > voter_best[b.chain].level)
        <5>1. voter_best'[b.chain] = voter_best[b.chain]
          BY SMTT(30), <4>3, <2>4 DEF Better
        <5> QED BY <4>1, <4>3, <5>1
      <4> QED BY <4>2, <4>3
    <3> QED BY <3>1, <3>2, <2>4
  <2>6. ASSUME NEW c \in Chain
        PROVE  /\ voter_best'[c].hash \in DOMAIN voter_node
               /\ voter_node[voter_best'[c].hash].chain = c
               /\ voter_node[voter_best'[c].hash].level = voter_best'[c].level
    BY <2>2, <2>4 DEF Better, VoterBestIsLongest
  <2>7. ASSUME NEW h \in DOMAIN voter_node \ InFlight(W)'
        PROVE  voter_node[h].level <= voter_best'[voter_node[h].chain].level
    <3>1. CASE h = b.hash
      BY <3>1, <2>2, <2>5
    <3>2. CASE h # b.hash
      <4>1. h \in DOMAIN voter_node \ InFlight(W)
        BY <3>2, <2>3
      <4>2. /\ voter_node[h].level <= voter_best[voter_node[h].chain].level
            /\ voter_node[h].level \in Nat /\ voter_node[h].chain \in Chain
        BY <4>1 DEF VoterBestIsLongest, TypeOK, VoterRecord, W
      <4>3. voter_best[voter_node[h].chain].level \in Nat
        BY <4>2 DEF TypeOK
      <4> QED BY <4>2, <4>3, <2>5
    <3> QED BY SMTT(30), <3>1, <3>2
  <2> QED BY <2>1, <2>6, <2>7 DEF VoterBestIsLongest, W
<1>3. ASSUME NEW t \in Thread, insert_block(t), ~InsertVoter(t), ~UpdateVoterBest(t)
      PROVE  VoterBestIsLongest'
  <2>1. UNCHANGED <<voter_node, voter_best>>
    BY ZenonT(30), <1>3 DEF insert_block, InsertProposer, MarkUnreferredProposer, MarkUnconfirmed,
                CommitProposer, UnreferProposers, UnreferTransactions,
                InsertTransaction, CommitTransaction, dbVars, bestVars
  <2>2. /\ pc[t] # "voter_best" /\ pc'[t] # "voter_best"
        /\ \A u \in Thread \ {t} : pc'[u] = pc[u] /\ block'[u] = block[u]
    <3>1. CASE InsertProposer(t)
      BY <3>1 DEF InsertProposer, MarkUnreferredProposer, Goto, After, TypeOK
    <3>2. CASE InsertTransaction(t)
      BY SMTT(30), <3>2 DEF InsertTransaction, Goto, TypeOK
    <3>3. CASE \/ MarkUnconfirmed(t) \/ CommitProposer(t) \/ UnreferProposers(t)
               \/ UnreferTransactions(t) \/ CommitTransaction(t)
      BY <3>3 DEF MarkUnconfirmed, CommitProposer, UnreferProposers,
                  UnreferTransactions, CommitTransaction, Return, Goto, After, TypeOK
    <3> QED BY ZenonT(30), <1>3, <3>1, <3>2, <3>3 DEF insert_block
  <2>3. InFlight(W)' = InFlight(W)
    BY SMTT(30), <2>2 DEF InFlight, Inserting
  <2> QED BY SMTT(30), <2>1, <2>3 DEF VoterBestIsLongest
<1>4. CASE UNCHANGED bcVars
  <2>1. UNCHANGED <<voter_node, voter_best, pc, block>>
    BY Zenon, <1>4 DEF bcVars, dbVars, bestVars
  <2>2. InFlight(W)' = InFlight(W)
    BY SMTT(30), <2>1 DEF InFlight, Inserting
  <2> QED BY SMTT(30), <2>1, <2>2 DEF VoterBestIsLongest
<1> QED BY SMTT(30), <1>1, <1>2, <1>3, <1>4 DEF Next

\* Two insertions that race never leave a shallower level or a shorter voter
\* block as the best one.
THEOREM BestIsLongest == Spec => [](ProposerBestIsDeepest /\ VoterBestIsLongest)
<1> DEFINE Inv == ProposerBestIsDeepest /\ VoterBestIsLongest
<1>1. Init => Inv
  <2> SUFFICES ASSUME Init PROVE Inv
    OBVIOUS
  <2>1. ProposerBestIsDeepest
    BY DEF Init, ProposerBestIsDeepest
  <2>2. VoterBestIsLongest
    BY GenesisFacts DEF Init, VoterBestIsLongest
  <2> QED BY <2>1, <2>2
<1>2. /\ TypeOK /\ StoreConsistent /\ (TypeOK /\ StoreConsistent)'
      /\ Inv /\ [Next]_bcVars
      => Inv'
  BY ProposerBestStep, VoterBestStep
<1> QED BY <1>1, <1>2, StoreIsConsistent, PTL DEF Spec

\* In particular proposer_best_level, which the miner extends and the ledger walks up
\* to, is the deepest level with a proposer block.
COROLLARY ProposerBestIsTop == Spec => []ProposerBestIsDeepest
  BY BestIsLongest, PTL

-----------------------------------------------------------------------------
(* The leader of a level.                                                  *)

\* What is left of the votes is an integer, and counting one leaves one less.
LEMMA RemainingFacts ==
  ASSUME NEW n \in Int
  PROVE  /\ Remaining(n) \in Int
         /\ Remaining(n + 1) = Remaining(n) - 1
<1> DEFINE all == voter_chains * VoteUnit
<1>1. all \in Int
  BY VoteAssumption, ChainAssumption
<1> HIDE DEF all
<1>2. Remaining(n) = all - n /\ Remaining(n + 1) = all - (n + 1)
  BY DEF Remaining, all
<1> QED BY <1>1, <1>2

\* The two checks of proposer_leader single out at most one block: the tie-break
\* on the hash makes the block with the highest bound unique.
LEMMA WinnerUnique ==
  ASSUME VotingTypeOK, NEW g \in DOMAIN lcb, NEW h \in DOMAIN lcb,
         Leads(lcb, g), Leads(lcb, h)
  PROVE  g = h
<1>1. g \in Nat /\ h \in Nat /\ lcb[g] \in Nat /\ lcb[h] \in Nat
  BY VotingAssumption DEF VotingTypeOK
<1> QED BY <1>1 DEF Leads

\* So the leader is the block that passes the checks, whenever there is one.
LEMMA DecideIsWinner ==
  ASSUME VotingTypeOK, NEW h
  PROVE  /\ h \in DOMAIN lcb /\ Winner(lcb, total, h) => Decide(lcb, total) = h
         /\ h = Decide(lcb, total) /\ h # None => h \in DOMAIN lcb /\ Winner(lcb, total, h)
<1>1. \A g \in DOMAIN lcb : h \in DOMAIN lcb /\ Winner(lcb, total, g) /\ Winner(lcb, total, h) => g = h
  BY WinnerUnique DEF Winner
<1> QED BY <1>1 DEF Decide

\* A step keeps the bounds within the votes there are.
LEMMA VotingTypeStep ==
  ASSUME VotingTypeOK, [VotingNext]_votingVars
  PROVE  VotingTypeOK'
<1>1. ASSUME NEW h \in Hash, Publish(h) PROVE VotingTypeOK'
  BY <1>1 DEF Publish, VotingTypeOK
<1>2. ASSUME NEW h \in Hash, Count(h) PROVE VotingTypeOK'
  <2> DEFINE all == voter_chains * VoteUnit
  <2>1. all \in Nat
    BY VoteAssumption, ChainAssumption
  <2>2. total < all
    BY <1>2, <2>1 DEF Count, Remaining, VotingTypeOK
  <2> HIDE DEF all
  <2>3. total \in 0 .. all /\ total' = total + 1
    BY <1>2 DEF Count, VotingTypeOK, all
  <2>4. total' \in 0 .. all
    BY <2>1, <2>2, <2>3
  <2>5. /\ DOMAIN lcb' \subseteq Hash
        /\ lcb' \in [DOMAIN lcb' -> Nat]
        /\ \A p \in DOMAIN lcb' : lcb'[p] <= total'
    BY <1>2, <2>1, <2>3 DEF Count, VotingTypeOK
  <2> QED BY <2>4, <2>5 DEF VotingTypeOK, all
<1>3. CASE UNCHANGED votingVars
  BY <1>3 DEF votingVars, VotingTypeOK
<1> QED BY <1>1, <1>2, <1>3 DEF VotingNext

\* The block that passes the checks still passes them after a step: publishing a
\* private block adds one without votes, and a vote counted for another block is
\* one of the remaining votes that the checks already granted it.
LEMMA WinnerStays ==
  ASSUME VotingTypeOK, VotingNext, NEW h \in DOMAIN lcb, Winner(lcb, total, h)
  PROVE  h \in DOMAIN lcb' /\ Winner(lcb', total', h)
<1> DEFINE R == Remaining(total)
<1>1. /\ R \in Int /\ Remaining(total + 1) = R - 1
      /\ \A p \in DOMAIN lcb : p \in Nat /\ lcb[p] \in Nat
  <2>1. voter_chains * VoteUnit \in Nat
    BY VoteAssumption, ChainAssumption
  <2>2. total \in Int
    BY <2>1 DEF VotingTypeOK
  <2> QED BY <2>2, RemainingFacts, VotingAssumption DEF VotingTypeOK
<1>2. ASSUME NEW q \in Hash, Publish(q)
      PROVE  h \in DOMAIN lcb' /\ Winner(lcb', total', h)
  <2>1. Remaining(total') = R /\ R >= 0
    <3>1. voter_chains * VoteUnit \in Nat
      BY VoteAssumption, ChainAssumption
    <3> QED BY <1>2, <3>1 DEF Publish, VotingTypeOK, Remaining
  <2> HIDE DEF R
  <2>2. /\ DOMAIN lcb' = DOMAIN lcb \cup {q} /\ q \notin DOMAIN lcb
        /\ lcb'[q] = 0 /\ \A p \in DOMAIN lcb : lcb'[p] = lcb[p]
    BY <1>2 DEF Publish
  <2> QED BY <1>1, <2>1, <2>2 DEF Winner, Leads, Safe, R
<1>3. ASSUME NEW q \in Hash, Count(q)
      PROVE  h \in DOMAIN lcb' /\ Winner(lcb', total', h)
  <2>1. Remaining(total') = R - 1 /\ R > 0
    BY <1>1, <1>3 DEF Count
  <2>2. /\ DOMAIN lcb' = DOMAIN lcb /\ q \in DOMAIN lcb
        /\ lcb'[q] = lcb[q] + 1 /\ \A p \in DOMAIN lcb \ {q} : lcb'[p] = lcb[p]
    BY <1>3 DEF Count, VotingTypeOK
  <2>3. /\ lcb[h] > 0 /\ lcb[h] > R
        /\ \A p \in DOMAIN lcb : lcb[p] < lcb[h] \/ (lcb[p] = lcb[h] /\ h <= p)
        /\ \A p \in DOMAIN lcb \ {h} :
             lcb[h] > lcb[p] + R \/ (lcb[h] = lcb[p] + R /\ h < p)
    BY DEF Winner, Leads, Safe
  <2> HIDE DEF R
  <2>4. lcb'[h] > 0 /\ Leads(lcb', h)
    BY <1>1, <2>1, <2>2, <2>3 DEF Leads
  <2>5. Safe(lcb', total', h)
    BY <1>1, <2>1, <2>2, <2>3 DEF Safe
  <2> QED BY <2>2, <2>4, <2>5 DEF Winner
<1> QED BY <1>2, <1>3 DEF VotingNext

\* The bounds of a level never add up to more than its votes allow.
THEOREM VotingTypeCorrect == VotingSpec => []VotingTypeOK
<1>1. VotingInit => VotingTypeOK
  <2>1. voter_chains * VoteUnit \in Nat
    BY VoteAssumption, ChainAssumption
  <2> QED BY <2>1 DEF VotingInit, VotingTypeOK
<1>2. VotingTypeOK /\ [VotingNext]_votingVars => VotingTypeOK'
  BY VotingTypeStep
<1> QED BY <1>1, <1>2, PTL DEF VotingSpec

\* proposer_leader is stable: whatever becomes of the votes that are not certain
\* yet, and whatever private block appears, a level that has a leader keeps it.
THEOREM LeaderIsStable == VotingSpec => LeaderStable
<1>1. VotingTypeOK /\ VotingTypeOK' /\ [VotingNext]_votingVars
        => [Decide(lcb, total) # None => Decide(lcb, total)' = Decide(lcb, total)]_votingVars
  <2> SUFFICES ASSUME VotingTypeOK, VotingTypeOK', VotingNext, Decide(lcb, total) # None
               PROVE  Decide(lcb, total)' = Decide(lcb, total)
    OBVIOUS
  <2> DEFINE h == Decide(lcb, total)
  <2>1. h \in DOMAIN lcb /\ Winner(lcb, total, h)
    BY DecideIsWinner
  <2> HIDE DEF h
  <2>2. h \in DOMAIN lcb' /\ Winner(lcb', total', h)
    BY <2>1, WinnerStays
  <2>3. \A g \in DOMAIN lcb' : Winner(lcb', total', g) => g = h
    <3> SUFFICES ASSUME NEW g \in DOMAIN lcb', Winner(lcb', total', g) PROVE g = h
      OBVIOUS
    <3>1. g \in Nat /\ h \in Nat /\ lcb'[g] \in Nat /\ lcb'[h] \in Nat
      BY SMTT(30), <2>2, VotingAssumption DEF VotingTypeOK
    <3> QED BY <2>2, <3>1 DEF Winner, Leads
  <2>4. Decide(lcb, total)' = h
    BY <2>2, <2>3 DEF Decide, Winner, Leads, Safe, Remaining
  <2> QED BY <2>4 DEF h
<1> QED BY <1>1, VotingTypeCorrect, PTL DEF VotingSpec, LeaderStable

\* Of the blocks of a level one leads: the one with the lowest hash among those with
\* the highest bound.
LEMMA SomeoneLeads ==
  ASSUME VotingTypeOK, NEW g \in DOMAIN lcb
  PROVE  \E h \in DOMAIN lcb : Leads(lcb, h)
<1>1. \A p \in DOMAIN lcb : p \in Nat /\ lcb[p] \in Nat /\ lcb[p] <= total
  BY VotingAssumption DEF VotingTypeOK
<1>2. total \in Nat
  <2>1. voter_chains * VoteUnit \in Nat
    BY VoteAssumption, ChainAssumption
  <2> QED BY <2>1 DEF VotingTypeOK
<1>m. ASSUME NEW S \in SUBSET Nat, S # {}
      PROVE  \E n \in S : \A k \in S : n <= k
  <2> DEFINE R == OpToRel(<, Nat)
  <2>1. \E n \in S : \A k \in S : ~ (<<k, n>> \in R)
    BY Zenon, <1>m, NatLessThanWellFounded, WFMin
  <2>2. \A k, n \in Nat : <<k, n>> \in R <=> k < n
    BY DEF OpToRel
  <2> HIDE DEF R
  <2>3. PICK n \in S : \A k \in S : ~ (<<k, n>> \in R)
    BY Zenon, <2>1
  <2>4. \A k \in S : k \in Nat /\ n \in Nat /\ ~ (k < n)
    BY Zenon, <1>m, <2>2, <2>3
  <2>5. \A k \in S : n <= k
    BY <2>4
  <2> QED BY Zenon, <2>5
<1> DEFINE Rest == {total - lcb[p] : p \in DOMAIN lcb}
<1>3. PICK m \in Rest : \A n \in Rest : m <= n
  <2>1. Rest \in SUBSET Nat /\ Rest # {}
    BY <1>1, <1>2
  <2> QED BY Zenon, <2>1, <1>m
<1>4. PICK q \in DOMAIN lcb : \A p \in DOMAIN lcb : lcb[p] <= lcb[q]
  <2>1. PICK q \in DOMAIN lcb : m = total - lcb[q]
    BY <1>3
  <2>2. \A p \in DOMAIN lcb : total - lcb[q] <= total - lcb[p]
    BY <1>3, <2>1
  <2>3. \A p \in DOMAIN lcb : lcb[p] <= lcb[q]
    BY <1>1, <1>2, <2>2
  <2> QED BY <2>3
<1> DEFINE Top == {p \in DOMAIN lcb : lcb[p] = lcb[q]}
<1>5. PICK h \in Top : \A p \in Top : h <= p
  <2>1. Top \in SUBSET Nat /\ Top # {}
    BY <1>1
  <2> QED BY Zenon, <2>1, <1>m
<1>6. Leads(lcb, h)
  BY <1>1, <1>4, <1>5 DEF Leads
<1> QED BY <1>6

\* Some block has a vote once a vote is counted.
SomeVote == total > 0 => \E h \in DOMAIN lcb : lcb[h] > 0

\* The rule is not too strict (LeaderWhenAllCertain): when no vote remains, the block
\* that leads passes both checks of proposer_leader, so the level has a leader.
THEOREM AllCertainHasLeader == VotingSpec => []LeaderWhenAllCertain
<1>1. VotingInit => SomeVote
  BY DEF VotingInit, SomeVote
<1>2. VotingTypeOK /\ SomeVote /\ [VotingNext]_votingVars => SomeVote'
  <2> SUFFICES ASSUME VotingTypeOK, SomeVote, [VotingNext]_votingVars, total' > 0
               PROVE  \E h \in DOMAIN lcb' : lcb'[h] > 0
    BY DEF SomeVote
  <2>1. ASSUME NEW h \in Hash, Publish(h) PROVE \E g \in DOMAIN lcb' : lcb'[g] > 0
    BY <2>1 DEF Publish, SomeVote
  <2>2. ASSUME NEW h \in Hash, Count(h) PROVE \E g \in DOMAIN lcb' : lcb'[g] > 0
    <3>1. h \in DOMAIN lcb' /\ lcb'[h] = lcb[h] + 1 /\ lcb[h] \in Nat
      BY <2>2 DEF Count, VotingTypeOK
    <3> QED BY <3>1
  <2>3. CASE UNCHANGED votingVars
    BY <2>3 DEF votingVars, SomeVote
  <2> QED BY <2>1, <2>2, <2>3 DEF VotingNext
<1>3. VotingTypeOK /\ SomeVote => LeaderWhenAllCertain
  <2> SUFFICES ASSUME VotingTypeOK, SomeVote, Remaining(total) = 0
               PROVE  Decide(lcb, total) # None
    BY DEF LeaderWhenAllCertain
  <2>1. total > 0
    <3> DEFINE all == voter_chains * VoteUnit
    <3>1. all \in Nat /\ all > 0
      BY VoteAssumption, ChainAssumption
    <3>2. all - total = 0 /\ total \in 0 .. all
      BY DEF Remaining, VotingTypeOK
    <3> HIDE DEF all
    <3> QED BY <3>1, <3>2
  <2>2. PICK g \in DOMAIN lcb : lcb[g] > 0
    BY <2>1 DEF SomeVote
  <2>3. PICK h \in DOMAIN lcb : Leads(lcb, h)
    BY SomeoneLeads
  <2>4. \A p \in DOMAIN lcb : p \in Nat /\ lcb[p] \in Nat
    BY VotingAssumption DEF VotingTypeOK
  <2>5. Winner(lcb, total, h)
    BY <2>2, <2>3, <2>4 DEF Winner, Leads, Safe
  <2> QED BY <2>5, DecideIsWinner, VotingAssumption DEF VotingTypeOK
<1> QED BY <1>1, <1>2, <1>3, VotingTypeCorrect, PTL DEF VotingSpec
=============================================================================
