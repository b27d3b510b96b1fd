---------------------------- MODULE Visualization ----------------------------
(***************************************************************************)
(* The blockchain page of a node: visualization/server.rs answers          *)
(* /blockchain.json with BlockChain::dump, and blockchain_vis.js draws the *)
(* answer with cytoscape and lays it out with cytoscape-dagre.js.  Every   *)
(* request has a server thread of its own, which runs beside the threads   *)
(* that insert blocks and the one that runs update_ledger.                 *)
(*                                                                         *)
(* dump holds the lock of proposer_ledger_tip while it reads the best      *)
(* block of each voter chain, one lock at a time, and takes a snapshot;    *)
(* the rest of dump is a function of what it has then.  The labels, and    *)
(* the parts of the dump that the page does not read, are left out.        *)
(***************************************************************************)
EXTENDS Ledger, TLC

CONSTANTS
  DEFAULT,       \* the limit of a request that names none (server.rs)
  Limit,         \* limits that are typed into the page
  Fork,          \* settings of its checkbox that are chosen
  MaxRequests    \* bound on the requests of a page

ASSUME LimitAssumption ==
  /\ DEFAULT \in Nat
  /\ Limit \subseteq Nat
  /\ Fork \subseteq BOOLEAN
  /\ MaxRequests \in Nat \ {0}

VARIABLES
  requests,   \* the requests of the page, in the order they were sent:
              \*   [stage, limit, fork, ledger_tip, voter_longest, reply, body],
              \* where reply is "json" if there is a body to parse
  cy          \* the graph on the canvas: [nodes, edges, rank]

visVars == <<requests, cy>>
allVars == <<vars, visVars>>

-----------------------------------------------------------------------------
(* BlockChain::dump after the snapshot.                                    *)

ledger_bottom(tip, limit) == IF tip > limit THEN tip - limit ELSE 0

\* The levels shown: from the bottom of the ledger to the first absent level.
ShownLevels(tip, limit) ==
  {l \in DOMAIN proposer_tree_level :
     /\ l >= ledger_bottom(tip, limit)
     /\ ledger_bottom(tip, limit) .. l \subseteq DOMAIN proposer_tree_level}

\* vote_cache: the shown proposer blocks that voter chain c votes for at a level.
vote_cacheByChain(shown, c, level) ==
  {p \in shown : \E v \in VotesFor(p) : v[1] = c}
vote_cache(shown, c, level) == {p \in shown : <<c, level>> \in VotesFor(p)}

\* voter_lowest: the level of the oldest vote of chain c for a shown block, or
\* of the best block if there is none.
voter_lowestIsTip(shown, c, longest) == longest.level
voter_lowest(shown, c, longest) ==
  Min({longest.level} \cup
        {v[2] : v \in {v \in UNION {VotesFor(p) : p \in shown} : v[1] = c}})

\* The walk from the best block of a chain down to the lowest level.
MainChain(h, lowest) ==
  LET walk[v \in DOMAIN voter_node] ==
        IF voter_node[v].level < lowest THEN {}
        ELSE {v} \cup IF voter_node[v].level = 0 THEN {} ELSE walk[voter_node[v].parent]
  IN  walk[h]

\* With display_fork, the other voter blocks from the lowest level on.
Forks(main, lowest) ==
  {v \in DOMAIN voter_node : voter_node[v].level >= lowest[voter_node[v].chain]} \ main

Edge(from, to, edgetype) == [from |-> from, to |-> to, edgetype |-> edgetype]

\* Only edges between blocks that are shown are part of the dump.
nodes_to_show(edges, nodes) == {e \in edges : e.from \in nodes /\ e.to \in nodes}

dump(tip, voter_longest, limit, fork) ==
  LET levels  == ShownLevels(tip, limit)
      shown   == UNION {Range(proposer_tree_level[l]) : l \in levels}
      longest == [c \in Chain |-> voter_longest[c + 1]]
      lowest  == [c \in Chain |-> voter_lowest(shown, c, longest[c])]
      main    == UNION {MainChain(longest[c].hash, lowest[c]) : c \in Chain}
      orphans == IF fork THEN Forks(main, lowest) ELSE {}
      leaders == {proposer_leader_sequence[l] :
                    l \in levels \cap DOMAIN proposer_leader_sequence}
      proposer_parents ==
        {Edge(p, proposer_node[p].refs[1], "ProposerToProposerParent") :
           p \in shown \ {proposer_genesis}}
      voter_parents ==
        {Edge(v, voter_node[v].parent, "VoterToVoterParent") :
           v \in {v \in main \cup orphans : voter_node[v].level > 0}}
      main_votes ==
        UNION {{Edge(v, p, "VoterToProposerVote") :
                  p \in vote_cache(shown, voter_node[v].chain, voter_node[v].level)} :
                 v \in main}
      orphan_votes ==
        UNION {{Edge(v, p, "VoterToProposerVote") : p \in Range(voter_node[v].votes)} :
                 v \in orphans}
  IN  [proposer_nodes |->
         [p \in shown |-> [level  |-> proposer_node[p].level,
                           status |-> IF p \in leaders THEN "Leader" ELSE "Others"]],
       voter_nodes |->
         [v \in main \cup orphans |->
            [chain  |-> voter_node[v].chain, level |-> voter_node[v].level,
             status |-> IF v \in orphans THEN "Orphan" ELSE "OnMainChain"]],
       voter_longest |-> voter_longest,
       edges |-> nodes_to_show(proposer_parents \cup voter_parents
                                 \cup main_votes \cup orphan_votes,
                               shown \cup main \cup orphans)]

\* Where dump says unreachable!: the walk of a voter chain starts at a block that
\* the snapshot does not hold, or a level up to the ledger tip is not ordered.
Unreachable(tip, voter_longest, limit) ==
  \/ \E c \in Chain : voter_longest[c + 1].hash \notin DOMAIN voter_node
  \/ ~(ledger_bottom(tip, limit) .. tip \subseteq DOMAIN proposer_ledger_order)

-----------------------------------------------------------------------------
(* Cytoscape: the canvas and what it accepts.                              *)

\* The stylesheet, from general to special rules: of those that match an element
\* the last one counts.  A rule without a type matches every element of its group.
style ==
  << [group |-> "node", type |-> None,              color |-> "#AAA"],
     [group |-> "node", type |-> "Voter",           color |-> "#4CECED"],
     [group |-> "node", type |-> "OrphanVoter",     color |-> "#E1E1E1"],
     [group |-> "node", type |-> "LeaderProposer",  color |-> "#69D979"],
     [group |-> "node", type |-> "Proposer",        color |-> "#E1E1E1"],
     [group |-> "edge", type |-> None,              color |-> "#ccc"],
     [group |-> "edge", type |-> "ToParent",        color |-> "#C4282C"],
     [group |-> "edge", type |-> "VoteForProposer", color |-> "#E65026"] >>

Color(group, type) ==
  LET matching == SelectSeq(style, LAMBDA s : s.group = group /\ s.type \in {type, None})
  IN  Last(matching).color

\* cy.add refuses an edge whose ends are not on the canvas.
AddEdges(nodes, edges) ==
  {e \in edges : e.source \in DOMAIN nodes /\ e.target \in DOMAIN nodes}

\* dagre.layout: an edge leads at least minLen rows down, and rows are as close
\* as that allows.  Rows are counted from the top of a tree.
minLen(edge) == 1
dagre_layout(nodes, edges) ==
  LET row[n \in nodes] ==
        Max({0} \cup {row[e.source] + minLen(e) : e \in {e \in edges : e.target = n}})
  IN  row

\* DagreLayout.run gives dagre every node and edge on the canvas (no node of the
\* page is a compound node, and it sets no bounding box to scale to), and moves
\* each node to the position dagre has found.
run(nodes, edges) == dagre_layout(DOMAIN nodes, edges)

EmptyGraph == [nodes |-> <<>>, edges |-> {}, rank |-> <<>>]

-----------------------------------------------------------------------------
(* blockchain_vis.js: handle_data.                                         *)

\* cy.elements().remove()
clearNothing(graph) == graph
clear(graph) == EmptyGraph

proposer_type(v) == IF v.status = "Leader" THEN "LeaderProposer" ELSE "Proposer"
voter_type(v) == IF v.status = "Orphan" THEN "OrphanVoter" ELSE "Voter"

NewNodes(data) ==
  [h \in DOMAIN data.proposer_nodes |-> [type |-> proposer_type(data.proposer_nodes[h])]]
    @@ [h \in {h \in DOMAIN data.voter_nodes :
                 data.voter_nodes[h].chain < Len(data.voter_longest)} |->
          [type |-> voter_type(data.voter_nodes[h])]]

\* Edges to the immediate parent, reversed so that they start at the parent.
ParentEdges(data) ==
  {[source |-> e.to, target |-> e.from, type |-> "ToParent"] :
     e \in {e \in data.edges : e.edgetype \in {"VoterToVoterParent",
                                              "ProposerToProposerParent"}}}

VoteEdges(data) ==
  {[source |-> e.from, target |-> e.to, type |-> "VoteForProposer"] :
     e \in {e \in data.edges : e.edgetype \in {"VoterToProposerParentAndVote",
                                              "VoterToProposerVote"}}}

\* Nodes and parent edges are added, then laid out; the votes come after that.
handle_dataVotesFirst(graph, data) ==
  LET old   == clear(graph)
      nodes == old.nodes @@ NewNodes(data)
      all   == AddEdges(nodes, old.edges \cup ParentEdges(data) \cup VoteEdges(data))
  IN  [nodes |-> nodes, edges |-> all, rank |-> run(nodes, all)]
handle_data(graph, data) ==
  LET old     == clear(graph)
      nodes   == old.nodes @@ NewNodes(data)
      parents == AddEdges(nodes, old.edges \cup ParentEdges(data))
  IN  [nodes |-> nodes,
       edges |-> parents \cup AddEdges(nodes, VoteEdges(data)),
       rank  |-> run(nodes, parents)]

-----------------------------------------------------------------------------
(* Requests.                                                               *)

Request == DOMAIN requests

\* proposer_ledger_tip is locked by no server thread.
TipUnlockedAlways == TRUE
TipUnlocked == \A r \in Request : requests[r].stage # "tips"

VisInit == LedgerInit /\ requests = <<>> /\ cy = EmptyGraph

NewRequest(stage, limit, fork) ==
  [stage |-> stage, limit |-> limit, fork |-> fork, ledger_tip |-> 0,
   voter_longest |-> <<>>, reply |-> None, body |-> None]

\* loadJSON: xhr.send, when the page loads and on every click of its button.
loadJSON(limit, fork) ==
  /\ Len(requests) < MaxRequests
  /\ requests' = Append(requests, NewRequest("sent", limit, fork))
  /\ UNCHANGED <<vars, cy>>

PageLoaded == requests = <<>> /\ loadJSON(DEFAULT, FALSE)
limitChanged == requests # <<>> /\ \E limit \in Limit, fork \in Fork : loadJSON(limit, fork)

\* dump locks proposer_ledger_tip.
LockTip(r) ==
  /\ requests[r].stage = "sent"
  /\ TipUnlocked
  /\ requests' = [requests EXCEPT ![r].stage = "tips",
                                  ![r].ledger_tip = proposer_ledger_tip]
  /\ UNCHANGED <<vars, cy>>

\* It reads the best block of the next voter chain.
ReadBest(r) ==
  LET c == Len(requests[r].voter_longest)
  IN  /\ requests[r].stage = "tips"
      /\ c < voter_chains
      /\ requests' = [requests EXCEPT ![r].voter_longest = Append(@, voter_best[c])]
      /\ UNCHANGED <<vars, cy>>

TipsRead(r) ==
  requests[r].stage = "tips" /\ Len(requests[r].voter_longest) = voter_chains

Answer(r, reply, body) ==
  /\ requests' = [requests EXCEPT ![r].stage = "answered",
                                  ![r].reply = reply, ![r].body = body]
  /\ UNCHANGED <<vars, cy>>

\* It takes the snapshot, releases the lock and answers from the snapshot.
Dump(r) ==
  LET q == requests[r]
  IN  /\ TipsRead(r)
      /\ IF Unreachable(q.ledger_tip, q.voter_longest, q.limit)
         THEN Answer(r, "panic", None)
         ELSE Answer(r, "json", dump(q.ledger_tip, q.voter_longest, q.limit, q.fork))

\* The database fails: the body is a text that is not JSON, with status 200.
DumpFails(r) == TipsRead(r) /\ Answer(r, "error", None)

Finish(r) == requests' = [requests EXCEPT ![r] = NewRequest("done", 0, FALSE)]

\* onreadystatechange with status 200 and a body that JSON.parse accepts.
Success(r) ==
  /\ requests[r].stage = "answered"
  /\ requests[r].reply = "json"
  /\ cy' = handle_data(cy, requests[r].body)
  /\ Finish(r)
  /\ UNCHANGED vars

\* JSON.parse throws, or the response is lost and handle_error logs it.
Failure(r) ==
  /\ requests[r].stage = "answered"
  /\ Finish(r)
  /\ UNCHANGED <<vars, cy>>

VisNext ==
  \/ Next /\ UNCHANGED <<ledgerVars, updateVars, visVars>>
  \/ (UpdateVotes \/ WriteVotes \/ RecomputeLeader \/ WriteLeaders) /\ UNCHANGED visVars
  \/ TipUnlocked /\ RecomputeLedger /\ UNCHANGED visVars
  \/ PageLoaded
  \/ limitChanged
  \/ \E r \in Request : LockTip(r) \/ ReadBest(r) \/ Dump(r) \/ DumpFails(r)
                          \/ Success(r) \/ Failure(r)

VisSpec == VisInit /\ [][VisNext]_allVars

-----------------------------------------------------------------------------
(* Properties.                                                             *)

Drawn == DOMAIN cy.nodes
DrawnProposers == Drawn \cap DOMAIN proposer_node
DrawnVoters(c) == {v \in Drawn \ DrawnProposers : voter_node[v].chain = c}
LevelOf(n) == IF n \in DrawnProposers THEN proposer_node[n].level ELSE voter_node[n].level
Lowest(S) == Min({LevelOf(n) : n \in S})

Grey == "#E1E1E1"
Coloured(S) == {n \in S : Color("node", cy.nodes[n].type) # Grey}
DrawnVotes == {e \in cy.edges : e.type = "VoteForProposer"}

\* What dump calls unreachable is: although the best voter blocks are read
\* before the snapshot and without a common lock, the snapshot holds them, and
\* because the tip stays locked until the snapshot is taken, it holds the order
\* of every level up to that tip, whatever update_ledger deconfirms meanwhile.
DumpNeverPanics == \A r \in Request : requests[r].reply # "panic"

\* The row of a block on the page is its level, counted from the lowest level
\* shown of its tree or chain: every other block is drawn under its parent, forks
\* and a bottom cut off by the limit included, and the votes, which point from one
\* tree into another, do not take part in the layout.
RowsAreLevels ==
  \A S \in {DrawnProposers} \cup {DrawnVoters(c) : c \in Chain} :
    \A n \in S : cy.rank[n] = LevelOf(n) - Lowest(S)

\* The voter blocks of a chain that are not grey are one path, from the lowest
\* level shown to a single tip, and at most one block of a proposer level stands
\* out as its leader, even if the page showed another fork before, or update_ledger
\* and insert_block were running while the dump was made.
MainChainColoured ==
  /\ Drawn # {} =>
       \A c \in Chain : LET S == Coloured(DrawnVoters(c)) IN
         \E tip \in S : S = {v \in VoterPath(tip) :
                              LevelOf(v) >= Lowest(DrawnVoters(c))}
  /\ \A p, q \in Coloured(DrawnProposers) : LevelOf(p) = LevelOf(q) => p = q

\* A vote on the page is one that some voter block of that chain and level has
\* cast, and a chain is never shown to vote twice on a proposer level, although
\* the votes come from the database and the main chain from memory, which
\* update_ledger brings in line only later.
VotesDrawnWereCast ==
  /\ \A e \in DrawnVotes : \E v \in DOMAIN voter_node :
       /\ voter_node[v].chain = voter_node[e.source].chain
       /\ voter_node[v].level = voter_node[e.source].level
       /\ e.target \in Range(voter_node[v].votes)
  /\ \A c \in Chain, e, f \in DrawnVotes :
       /\ {e.source, f.source} \subseteq Coloured(DrawnVoters(c))
       /\ LevelOf(e.target) = LevelOf(f.target)
       => e = f

\* update_ledger has counted the votes of the best blocks that request r has read.
Settled(r) ==
  /\ upc \in {"leaders", "ledger"} \/ (upc = "votes" /\ chain_num = 0)
  /\ \A c \in Chain : requests[r].voter_longest[c + 1].hash = voter_ledger_tips[c]

\* Once update_ledger has caught up with the best blocks that dump has read, the
\* votes of the main chains in the dump are exactly the votes that their blocks
\* cast for the shown proposer blocks: the chains are followed far enough down to
\* show them all.
SettledVotesExact ==
  [][\A r \in Request :
       /\ requests[r].stage = "tips"
       /\ requests'[r].reply = "json"
       /\ Settled(r)
       => LET body == requests'[r].body
              main == UNION {VoterPath(voter_ledger_tips[c]) : c \in Chain}
          IN  {<<e.from, e.to>> : e \in {e \in body.edges :
                 e.edgetype = "VoterToProposerVote" /\ e.from \in main}}
                = {<<v, p>> \in main \X DOMAIN body.proposer_nodes :
                     p \in Range(voter_node[v].votes)}]_allVars
=============================================================================
