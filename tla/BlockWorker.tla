---------------------------- MODULE BlockWorker ----------------------------
(***************************************************************************)
(* How blocks from peers reach the blockchain (network/worker.rs,          *)
(* network/buffer.rs): worker threads take messages, request the blocks    *)
(* that are announced, store the ones that arrive, hold back in a buffer   *)
(* the ones whose parent or references are missing, and process the rest.  *)
(*                                                                         *)
(* A step is what a worker does between two lookups of shared state or     *)
(* under one lock.  The lock of the buffer spans two steps, the check of   *)
(* data availability and the insertion into the buffer.                    *)
(***************************************************************************)
EXTENDS SeqOps

CONSTANTS
  Block,        \* block hashes
  deps,         \* block -> its parent and references
  Worthy,       \* blocks that pass check_pow_sortition_id
  Valid,        \* blocks that pass check_sortition_proof, check_content_semantic
  Worker,       \* worker threads
  None,
  MaxAnnounce,  \* bound on the announcements of peers
  MaxLost       \* bound on the answers with blocks lacking, or never sent

ASSUME BlockAssumption ==
  /\ deps \in [Block -> SUBSET Block]
  /\ Worthy \subseteq Block /\ Valid \subseteq Block
  /\ None \notin Block \cup Worker

VARIABLES
  announced,         \* how many announcements the peers have made
  lost,              \* how many answers lacked blocks or were never sent
  announcements,     \* NewBlockHashes messages that wait for a worker
  requests,          \* GetBlocks messages on their way to peers
  answers,           \* Blocks messages that wait for a worker
  requested_blocks, recent_blocks, blockdb,
  chain,             \* blocks in the blockchain
  blocks,            \* BlockBuffer: the blocks that are held back,
  dependency,        \*   block -> what it waits for,
  dependent,         \*   block -> what waits for it
  buffer_lock,       \* the worker that holds the lock of the buffer, or None
  pc,                \* worker -> what it does next
  todo,              \* worker -> blocks of its message not yet looked at
  block,             \* worker -> the block it works on
  to_process,        \* worker -> stack of blocks to process
  missing,           \* worker -> what check_data_availability found missing
  to_request         \* worker -> blocks to ask the peer for

network == <<announced, lost, announcements, requests, answers>>
buffer == <<blocks, dependency, dependent>>
stored == <<requested_blocks, recent_blocks, blockdb, chain>>
local == <<pc, todo, block, to_process, missing, to_request>>
vars == <<network, buffer, buffer_lock, stored, local>>

Init ==
  /\ announced = 0 /\ lost = 0 /\ announcements = <<>> /\ requests = <<>> /\ answers = <<>>
  /\ requested_blocks = {} /\ recent_blocks = {} /\ blockdb = {} /\ chain = {}
  /\ blocks = {}
  /\ dependency = [b \in {} |-> {}] /\ dependent = [b \in {} |-> {}]
  /\ buffer_lock = None
  /\ pc = [w \in Worker |-> "recv"]
  /\ todo = [w \in Worker |-> {}]
  /\ block = [w \in Worker |-> None]
  /\ to_process = [w \in Worker |-> <<>>]
  /\ missing = [w \in Worker |-> {}]
  /\ to_request = [w \in Worker |-> {}]

-----------------------------------------------------------------------------
(* The peers: they announce blocks and answer requests, in any order.      *)

Announce ==
  /\ announced < MaxAnnounce
  /\ \E hashes \in SUBSET Block \ {{}} : announcements' = Append(announcements, hashes)
  /\ announced' = announced + 1
  /\ UNCHANGED <<lost, requests, answers, buffer, buffer_lock, stored, local>>

\* Message::GetBlocks at the peer: the blocks that it has.
Answer(found, i) ==
  /\ answers' = Append(answers, found)
  /\ requests' = RemoveAt(requests, i)
  /\ UNCHANGED <<announced, announcements, buffer, buffer_lock, stored, local>>

AnswerAll == \E i \in DOMAIN requests : Answer(requests[i], i) /\ UNCHANGED lost

AnswerSome ==
  \E i \in DOMAIN requests : \E found \in SUBSET requests[i] \ {requests[i]} :
    lost < MaxLost /\ lost' = lost + 1 /\ Answer(found, i)

Disconnect ==
  \E i \in DOMAIN requests :
    /\ lost < MaxLost /\ lost' = lost + 1
    /\ requests' = RemoveAt(requests, i)
    /\ UNCHANGED <<announced, announcements, answers, buffer, buffer_lock, stored, local>>

-----------------------------------------------------------------------------
Goto(w, label) == pc' = [pc EXCEPT ![w] = label]
Request(hashes) == requests' = IF hashes = {} THEN requests ELSE Append(requests, hashes)

(* Message::NewBlockHashes.                                                *)

\* The lookups of a hash in blockdb and then in requested_blocks are one step: a hash
\* missed by both is, between the two, in neither.
TakeHashes(w) ==
  /\ pc[w] = "recv" /\ announcements # <<>>
  /\ announcements' = Tail(announcements)
  /\ to_request' = [to_request EXCEPT
       ![w] = Head(announcements) \ (blockdb \cup requested_blocks)]
  /\ Goto(w, "request")
  /\ UNCHANGED <<announced, lost, requests, answers, buffer, buffer_lock, stored,
                 todo, block, to_process, missing>>

SendRequest(w) ==
  /\ pc[w] = "request"
  /\ requested_blocks' = requested_blocks \cup to_request[w]
  /\ Request(to_request[w])
  /\ to_request' = [to_request EXCEPT ![w] = {}]
  /\ Goto(w, "recv")
  /\ UNCHANGED <<announced, lost, announcements, answers, buffer, buffer_lock,
                 recent_blocks, blockdb, chain, todo, block, to_process, missing>>

(* Message::Blocks, first part: store each block that is new.              *)

TakeBlocks(w) ==
  /\ pc[w] = "recv" /\ answers # <<>>
  /\ answers' = Tail(answers)
  /\ todo' = [todo EXCEPT ![w] = Head(answers)]
  /\ Goto(w, "decode")
  /\ UNCHANGED <<announced, lost, announcements, requests, buffer, buffer_lock, stored,
                 block, to_process, missing, to_request>>

\* The next block of the message (which a peer puts in any order).
Register(w) ==
  /\ pc[w] = "decode"
  /\ \E b \in todo[w] :
       /\ todo' = [todo EXCEPT ![w] = @ \ {b}]
       /\ requested_blocks' = requested_blocks \ {b}
       /\ IF b \in Worthy /\ b \notin recent_blocks
          THEN /\ recent_blocks' = recent_blocks \cup {b}
               /\ block' = [block EXCEPT ![w] = b]
               /\ Goto(w, "lookup")
          ELSE UNCHANGED <<recent_blocks, block, pc>>
  /\ UNCHANGED <<network, buffer, buffer_lock, blockdb, chain, to_process, missing,
                 to_request>>

\* No longer registered once it is looked up, before it is stored.
LookupUnregisters(w) ==
  /\ pc[w] = "lookup"
  /\ recent_blocks' = recent_blocks \ {block[w]}
  /\ Goto(w, IF block[w] \in blockdb THEN "decode" ELSE "store")
  /\ UNCHANGED <<network, buffer, buffer_lock, requested_blocks, blockdb, chain,
                 todo, block, to_process, missing, to_request>>

Lookup(w) ==
  /\ pc[w] = "lookup"
  /\ IF block[w] \in blockdb
     THEN recent_blocks' = recent_blocks \ {block[w]} /\ Goto(w, "decode")
     ELSE UNCHANGED recent_blocks /\ Goto(w, "store")
  /\ UNCHANGED <<network, buffer, buffer_lock, requested_blocks, blockdb, chain,
                 todo, block, to_process, missing, to_request>>

Store(w) ==
  /\ pc[w] = "store"
  /\ blockdb' = blockdb \cup {block[w]}
  /\ Goto(w, "unregister")
  /\ UNCHANGED <<network, buffer, buffer_lock, requested_blocks, recent_blocks, chain,
                 todo, block, to_process, missing, to_request>>

Unregister(w) ==
  /\ pc[w] = "unregister"
  /\ recent_blocks' = recent_blocks \ {block[w]}
  /\ to_process' = [to_process EXCEPT ![w] = Append(@, block[w])]
  /\ Goto(w, "decode")
  /\ UNCHANGED <<network, buffer, buffer_lock, requested_blocks, blockdb, chain,
                 todo, block, missing, to_request>>

\* The end of the message; the announcement of what was new is not modelled.
Decoded(w) ==
  /\ pc[w] = "decode" /\ todo[w] = {}
  /\ Goto(w, IF to_process[w] = <<>> THEN "recv" ELSE "process")
  /\ UNCHANGED <<network, buffer, buffer_lock, stored, todo, block, to_process,
                 missing, to_request>>

-----------------------------------------------------------------------------
(* Second part: process the blocks, with what they resolve.                *)

\* Against the blocks that are stored, processed or not.
MissingStored(b) == deps[b] \ blockdb

\* check_data_availability.
Missing(b) == deps[b] \ chain

\* Without keeping the lock until the block is in the buffer.
CheckUnlocked(w) ==
  LET b == Last(to_process[w])
  IN  /\ pc[w] = "process" /\ to_process[w] # <<>>
      /\ buffer_lock = None
      /\ block' = [block EXCEPT ![w] = b]
      /\ to_process' = [to_process EXCEPT ![w] = Front(@)]
      /\ missing' = [missing EXCEPT ![w] = Missing(b)]
      /\ Goto(w, IF Missing(b) = {} THEN "validate" ELSE "hold")
      /\ UNCHANGED <<network, buffer, buffer_lock, stored, todo, to_request>>

Check(w) ==
  LET b == Last(to_process[w])
  IN  /\ pc[w] = "process" /\ to_process[w] # <<>>
      /\ buffer_lock = None
      /\ block' = [block EXCEPT ![w] = b]
      /\ to_process' = [to_process EXCEPT ![w] = Front(@)]
      /\ missing' = [missing EXCEPT ![w] = Missing(b)]
      /\ IF Missing(b) = {}
         THEN UNCHANGED buffer_lock /\ Goto(w, "validate")
         ELSE buffer_lock' = w /\ Goto(w, "hold")
      /\ UNCHANGED <<network, buffer, stored, todo, to_request>>

Dependents(d) == IF d \in DOMAIN dependent THEN dependent[d] ELSE {}

\* With a new set of dependents in the place of the one that is there.
BufferInsertReplaces(b, r) ==
  /\ blocks' = blocks \cup {b}
  /\ dependency' = [c \in DOMAIN dependency \cup {b} |->
                      IF c = b THEN r ELSE dependency[c]]
  /\ dependent' = [d \in DOMAIN dependent \cup r |->
                     IF d \in r THEN {b} ELSE dependent[d]]

\* BlockBuffer::insert: block b waits for the blocks of r.
BufferInsert(b, r) ==
  /\ blocks' = blocks \cup {b}
  /\ dependency' = [c \in DOMAIN dependency \cup {b} |->
                      IF c = b THEN r ELSE dependency[c]]
  /\ dependent' = [d \in DOMAIN dependent \cup r |->
                     IF d \in r THEN Dependents(d) \cup {b} ELSE dependent[d]]

Hold(w) ==
  /\ pc[w] = "hold"
  /\ BufferInsert(block[w], missing[w])
  /\ to_request' = [to_request EXCEPT ![w] = @ \cup missing[w]]
  /\ missing' = [missing EXCEPT ![w] = {}]
  /\ buffer_lock' = None
  /\ Goto(w, "process")
  /\ UNCHANGED <<network, stored, todo, block, to_process>>

\* check_sortition_proof, check_content_semantic and new_validated_block.
Validate(w) ==
  /\ pc[w] = "validate"
  /\ IF block[w] \in Valid
     THEN chain' = chain \cup {block[w]} /\ Goto(w, "satisfy")
     ELSE UNCHANGED chain /\ Goto(w, "process")
  /\ UNCHANGED <<network, buffer, buffer_lock, requested_blocks, recent_blocks, blockdb,
                 todo, block, to_process, missing, to_request>>

\* BlockBuffer::satisfy; the blocks that are now complete go on the stack.
Satisfy(w) ==
  LET h == block[w]
      nodes == Dependents(h)
      resolved == {n \in nodes : dependency[n] \subseteq {h}}
  IN  /\ pc[w] = "satisfy" /\ buffer_lock = None
      /\ dependent' = [d \in DOMAIN dependent \ {h} |-> dependent[d]]
      /\ dependency' = [c \in DOMAIN dependency \ resolved |->
                          IF c \in nodes THEN dependency[c] \ {h} ELSE dependency[c]]
      /\ blocks' = blocks \ resolved
      /\ \E s \in SetToSeqs(resolved) :
           to_process' = [to_process EXCEPT ![w] = @ \o s]
      /\ Goto(w, "process")
      /\ UNCHANGED <<network, buffer_lock, stored, todo, block, missing, to_request>>

\* The signals to the miner are sent; ask the peer for what is missing.
Finish(w) ==
  /\ pc[w] = "process" /\ to_process[w] = <<>>
  /\ Request(to_request[w])
  /\ to_request' = [to_request EXCEPT ![w] = {}]
  /\ block' = [block EXCEPT ![w] = None]
  /\ Goto(w, "recv")
  /\ UNCHANGED <<announced, lost, announcements, answers, buffer, buffer_lock, stored,
                 todo, to_process, missing>>

worker_loop(w) ==
  \/ TakeHashes(w) \/ SendRequest(w)
  \/ TakeBlocks(w) \/ Register(w) \/ Lookup(w) \/ Store(w) \/ Unregister(w) \/ Decoded(w)
  \/ Check(w) \/ Hold(w) \/ Validate(w) \/ Satisfy(w) \/ Finish(w)

peers == Announce \/ AnswerAll \/ AnswerSome \/ Disconnect

Next == peers \/ \E w \in Worker : worker_loop(w)

Spec == Init /\ [][Next]_vars

\* Worker threads are scheduled, and a peer that stays connected answers.
FairSpec == Spec /\ WF_vars(AnswerAll) /\ \A w \in Worker : WF_vars(worker_loop(w))

-----------------------------------------------------------------------------
(* Properties.                                                             *)

Label == {"recv", "request", "decode", "lookup", "store", "unregister", "process",
          "hold", "validate", "satisfy"}

\* The block a worker has taken out of the stored ones and not yet put elsewhere.
Held(w) == IF pc[w] \in {"unregister", "hold", "validate"} THEN {block[w]} ELSE {}

\* "so we don't have a single duplicate": a stored block is with one worker, in the
\* buffer or in the blockchain, and in one of these only, so that each block is
\* processed once.
NoDuplicate ==
  /\ \A w \in Worker :
       LET mine == ToSet(to_process[w]) \cup Held(w)
       IN  /\ IsInjective(to_process[w])
           /\ Held(w) \cap ToSet(to_process[w]) = {}
           /\ mine \cap (blocks \cup chain) = {}
           /\ \A v \in Worker \ {w} : mine \cap (ToSet(to_process[v]) \cup Held(v)) = {}
           /\ pc[w] = "store" => block[w] \notin blockdb
  /\ blocks \cap chain = {}

\* A block is in the blockchain only with its parent and references.
ChainClosed == \A b \in chain : deps[b] \subseteq chain

\* The three maps of the buffer agree, so that the unwraps of satisfy never fail.
BufferAgrees ==
  /\ blocks = DOMAIN dependency
  /\ \A b \in blocks : dependency[b] # {}
  /\ \A b \in blocks, d \in Block :
       d \in dependency[b] <=> d \in DOMAIN dependent /\ b \in dependent[d]
  /\ \A d \in DOMAIN dependent : dependent[d] # {} /\ dependent[d] \subseteq blocks

\* No wake-up is lost (the race of the comment in BlockBuffer::insert): a block that
\* is held back waits for blocks that are not processed, or whose worker is about to
\* call satisfy.
NoLostWakeup ==
  \A b \in blocks : \A d \in dependency[b] :
    d \in chain => \E w \in Worker : pc[w] = "satisfy" /\ block[w] = d

\* Processed, in the blockchain or, as not valid, discarded; or waiting for one that
\* is discarded.
Settled(b) ==
  \/ b \in chain
  \/ b \in blockdb \ Valid /\ \A w \in Worker : b \notin ToSet(to_process[w]) \cup Held(w)
  \/ b \in blocks /\ dependency[b] \subseteq blockdb \ Valid

\* A block that is announced is settled in the end, whatever the order in which it
\* and what it depends on arrive, when the peers answer every request in full.
AnnouncedIsProcessed ==
  [](lost = 0) => \A b \in Block :
    (\E i \in DOMAIN announcements : b \in announcements[i]) ~> Settled(b)
=============================================================================
