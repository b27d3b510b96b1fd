------------------------- MODULE BlockWorkerProofs --------------------------
(***************************************************************************)
(* Proofs about BlockWorker, for any number of workers and any blocks: no  *)
(* wake-up is lost, the blockchain is closed under references, no block is *)
(* processed twice, and the maps of the buffer agree.                      *)
(***************************************************************************)
EXTENDS BlockWorker, FiniteSetTheorems, TLAPS

IsFcn(f) == f = [w \in Worker |-> f[w]]

\* A worker that has put d in the blockchain is about to call satisfy.
Awaited(d) == \E v \in Worker : pc[v] = "satisfy" /\ block[v] = d

\* What makes the two properties inductive: the lock is with the worker that is to
\* insert into the buffer, what that worker found missing is still missing or
\* awaited, a block to validate has its references in the blockchain, and whatever a
\* block waits for has it among its dependents.
IInv ==
  /\ pc \in [Worker -> Label]
  /\ IsFcn(block) /\ IsFcn(missing)
  /\ \A w \in Worker : pc[w] = "hold" => buffer_lock = w
  /\ \A w \in Worker : pc[w] = "validate" => deps[block[w]] \subseteq chain
  /\ ChainClosed
  /\ blocks = DOMAIN dependency
  /\ \A b \in blocks : \A d \in dependency[b] : d \in DOMAIN dependent /\ b \in dependent[d]
  /\ \A b \in blocks : \A d \in dependency[b] : d \in chain => Awaited(d)
  /\ \A w \in Worker : pc[w] = "hold" => \A d \in missing[w] : d \in chain => Awaited(d)

\* Nothing is stored, held back or processed at the start.
LEMMA InitIInv == Init => IInv
  BY DEF Init, IInv, IsFcn, ChainClosed, Label

\* Steps of the peers and of a worker that has no block to validate, to hold back or
\* to satisfy leave the invariant alone.
LEMMA QuietStep ==
  ASSUME IInv, NEW w \in Worker, NEW label \in Label \ {"hold", "validate", "satisfy"},
         pc[w] \notin {"validate", "hold", "satisfy"},
         pc' = [pc EXCEPT ![w] = label],
         IsFcn(block'), \A v \in Worker \ {w} : block'[v] = block[v],
         UNCHANGED <<buffer, buffer_lock, chain, missing>>
  PROVE  IInv'
  <1> USE DEF IInv, IsFcn, buffer
  <1>1. \A v \in Worker \ {w} : pc'[v] = pc[v] /\ block'[v] = block[v]
    OBVIOUS
  <1>2. pc' \in [Worker -> Label] /\ pc'[w] = label
    OBVIOUS
  <1>3. \A d : Awaited(d) => Awaited(d)'
    BY <1>1 DEF Awaited
  <1>4. ChainClosed'
    BY DEF ChainClosed
  <1> QED
    BY <1>1, <1>2, <1>3, <1>4

\* The step of an action preserves the invariant.
LEMMA NextIInv == IInv /\ [Next]_vars => IInv'
  <1> SUFFICES ASSUME IInv, [Next]_vars PROVE IInv'
    OBVIOUS
  <1>1. CASE UNCHANGED vars
    BY <1>1 DEF IInv, IsFcn, Awaited, ChainClosed, vars, buffer, stored, local
  <1>2. CASE peers
    <2>1. UNCHANGED <<buffer, buffer_lock, stored, local>>
      BY <1>2 DEF peers, Announce, AnswerAll, AnswerSome, Answer, Disconnect
    <2> QED
      BY <2>1 DEF IInv, IsFcn, Awaited, ChainClosed, buffer, stored, local
  <1>3. ASSUME NEW w \in Worker, worker_loop(w) PROVE IInv'
    <2> USE DEF Goto
    <2>1. CASE TakeHashes(w)
      BY Zenon, <2>1, QuietStep DEF TakeHashes, IInv, Label, stored, IsFcn
    <2>2. CASE SendRequest(w)
      BY Zenon, <2>2, QuietStep DEF SendRequest, IInv, Label, IsFcn
    <2>3. CASE TakeBlocks(w)
      BY Zenon, <2>3, QuietStep DEF TakeBlocks, IInv, Label, stored, IsFcn
    <2>4. CASE Register(w)
      <3>1. CASE pc' = pc
        <4>1. UNCHANGED <<pc, block, buffer, buffer_lock, chain, missing>>
          BY <2>4, <3>1 DEF Register, IInv, Label
        <4> QED
          BY <4>1 DEF IInv, IsFcn, Awaited, ChainClosed, buffer
      <3>2. CASE pc' # pc
        <4>1. PICK b : block' = [block EXCEPT ![w] = b] /\ pc' = [pc EXCEPT ![w] = "lookup"]
          BY <2>4, <3>2 DEF Register
        <4> QED
          BY Zenon, <2>4, <4>1, QuietStep DEF Register, IInv, Label, IsFcn
      <3> QED
        BY <3>1, <3>2
    <2>5. CASE Lookup(w)
      <3>1. PICK label \in {"decode", "store"} : pc' = [pc EXCEPT ![w] = label]
        BY <2>5 DEF Lookup
      <3> QED
        BY Zenon, <2>5, <3>1, QuietStep DEF Lookup, IInv, Label, IsFcn
    <2>6. CASE Store(w)
      BY Zenon, <2>6, QuietStep DEF Store, IInv, Label, IsFcn
    <2>7. CASE Unregister(w)
      BY Zenon, <2>7, QuietStep DEF Unregister, IInv, Label, IsFcn
    <2>8. CASE Decoded(w)
      <3>1. PICK label \in {"recv", "process"} : pc' = [pc EXCEPT ![w] = label]
        BY Zenon, <2>8 DEF Decoded
      <3>2. pc[w] = "decode" /\ UNCHANGED <<buffer, buffer_lock, chain, missing, block>>
        BY <2>8 DEF Decoded, stored
      <3> QED
        BY Zenon, <3>1, <3>2, QuietStep DEF IInv, Label, IsFcn
    <2>9. CASE Finish(w)
      BY Zenon, <2>9, QuietStep DEF Finish, IInv, Label, stored, IsFcn
    <2>10. CASE Check(w)
      <3> DEFINE b == Last(to_process[w])
      <3>1. pc[w] = "process" /\ buffer_lock = None /\ UNCHANGED <<buffer, chain>>
        BY <2>10 DEF Check, stored
      <3>2. /\ block' = [block EXCEPT ![w] = b]
            /\ missing' = [missing EXCEPT ![w] = Missing(b)]
        BY <2>10 DEF Check
      <3>3. \A v \in Worker \ {w} : block'[v] = block[v] /\ missing'[v] = missing[v]
        BY <3>2 DEF IInv, IsFcn
      <3>4. block'[w] = b /\ missing'[w] = Missing(b)
        BY <3>2 DEF IInv, IsFcn
      <3>5. IsFcn(block') /\ IsFcn(missing')
        BY Zenon, <3>2 DEF IInv, IsFcn
      <3>6. \A v \in Worker : pc[v] # "hold"
        BY <3>1, BlockAssumption DEF IInv
      <3>7. \/ /\ Missing(b) = {} /\ buffer_lock' = buffer_lock
               /\ pc' = [pc EXCEPT ![w] = "validate"]
            \/ buffer_lock' = w /\ pc' = [pc EXCEPT ![w] = "hold"]
        BY <2>10 DEF Check
      <3>8. \A v \in Worker \ {w} : pc'[v] = pc[v]
        BY <3>7 DEF IInv
      <3>9. pc' \in [Worker -> Label] /\ pc'[w] \in {"validate", "hold"}
        BY <3>7 DEF IInv, Label
      <3>10. \A d : Awaited(d) => Awaited(d)'
        BY <3>1, <3>3, <3>8 DEF Awaited
      <3>11. \A v \in Worker : pc'[v] = "hold" =>
               buffer_lock' = v /\ \A d \in missing'[v] : d \notin chain'
        BY <3>1, <3>4, <3>6, <3>7, <3>8, <3>9 DEF Missing, IInv
      <3>12. \A v \in Worker : pc'[v] = "validate" => deps[block'[v]] \subseteq chain'
        BY <3>1, <3>3, <3>4, <3>7, <3>8, <3>9 DEF Missing, IInv
      <3> QED
        BY <3>1, <3>5, <3>9, <3>10, <3>11, <3>12 DEF IInv, ChainClosed, buffer
    <2>11. CASE Hold(w)
      <3>1. /\ pc[w] = "hold" /\ buffer_lock' = None /\ UNCHANGED <<chain, block>>
            /\ pc' = [pc EXCEPT ![w] = "process"]
            /\ missing' = [missing EXCEPT ![w] = {}]
        BY <2>11 DEF Hold, stored
      <3>2. BufferInsert(block[w], missing[w])
        BY <2>11 DEF Hold
      <3>3. \A v \in Worker \ {w} : pc'[v] = pc[v] /\ missing'[v] = missing[v]
        BY <3>1 DEF IInv, IsFcn
      <3>4. pc' \in [Worker -> Label] /\ pc'[w] = "process" /\ IsFcn(missing')
        BY ZenonT(30), <3>1 DEF IInv, IsFcn, Label
      <3>5. \A v \in Worker : pc'[v] # "hold"
        BY <3>1, <3>3, <3>4 DEF IInv
      <3>6. \A d : Awaited(d) => Awaited(d)'
        BY <3>1, <3>3 DEF Awaited
      <3>7. blocks' = DOMAIN dependency'
        BY <3>2 DEF BufferInsert, IInv
      <3>8. ASSUME NEW c \in blocks', NEW d \in dependency'[c]
            PROVE  /\ d \in DOMAIN dependent' /\ c \in dependent'[d]
                   /\ d \in chain' => Awaited(d)'
        <4>1. CASE c = block[w]
          <5>1. d \in missing[w]
            BY <3>2, <4>1, <3>8 DEF BufferInsert
          <5> QED
            BY <3>1, <3>2, <3>6, <4>1, <5>1 DEF BufferInsert, IInv
        <4>2. CASE c # block[w]
          <5>1. c \in blocks /\ d \in dependency[c]
            BY <3>2, <4>2, <3>8 DEF BufferInsert, IInv
          <5>2. d \in DOMAIN dependent /\ c \in dependent[d]
            BY <5>1 DEF IInv
          <5> QED
            BY <3>1, <3>2, <3>6, <5>1, <5>2 DEF BufferInsert, Dependents, IInv
        <4> QED
          BY <4>1, <4>2
      <3>9. \A v \in Worker : pc'[v] = "validate" => deps[block'[v]] \subseteq chain'
        BY <3>1, <3>3, <3>4 DEF IInv
      <3>10. IsFcn(block') /\ ChainClosed'
        BY <3>1 DEF IInv, IsFcn, ChainClosed
      <3> QED
        BY <3>4, <3>5, <3>7, <3>8, <3>9, <3>10 DEF IInv
    <2>12. CASE Validate(w)
      <3>1. /\ pc[w] = "validate"
            /\ UNCHANGED <<buffer, buffer_lock, block, missing>>
        BY <2>12 DEF Validate
      <3>2. \/ chain' = chain \cup {block[w]} /\ pc' = [pc EXCEPT ![w] = "satisfy"]
            \/ chain' = chain /\ pc' = [pc EXCEPT ![w] = "process"]
        BY <2>12 DEF Validate
      <3>3. \A v \in Worker \ {w} : pc'[v] = pc[v]
        BY <3>2 DEF IInv
      <3>4. pc' \in [Worker -> Label] /\ pc'[w] \in {"satisfy", "process"}
        BY <3>2 DEF IInv, Label
      <3>5. \A d : Awaited(d) => Awaited(d)'
        BY <3>1, <3>3 DEF Awaited
      <3>6. \A d : d \in chain' => d \in chain \/ Awaited(d)'
        BY <3>1, <3>2 DEF Awaited, IInv
      <3>7. chain \subseteq chain' /\ ChainClosed'
        BY <3>1, <3>2 DEF IInv, ChainClosed
      <3>8. IsFcn(block') /\ IsFcn(missing')
        BY <3>1 DEF IInv, IsFcn
      <3>9. \A v \in Worker : pc'[v] = "hold" =>
              buffer_lock' = v /\ \A d \in missing'[v] : d \in chain' => Awaited(d)'
        BY <3>1, <3>3, <3>4, <3>5, <3>6 DEF IInv
      <3>10. \A v \in Worker : pc'[v] = "validate" => deps[block'[v]] \subseteq chain'
        BY <3>1, <3>3, <3>4, <3>7 DEF IInv
      <3> QED
        BY <3>1, <3>4, <3>5, <3>6, <3>7, <3>8, <3>9, <3>10 DEF IInv, buffer
    <2>13. CASE Satisfy(w)
      <3> DEFINE h == block[w]
                 nodes == Dependents(h)
                 resolved == {n \in nodes : dependency[n] \subseteq {h}}
      <3>1. /\ pc[w] = "satisfy" /\ buffer_lock = None
            /\ UNCHANGED <<chain, block, missing, buffer_lock>>
            /\ pc' = [pc EXCEPT ![w] = "process"]
        BY <2>13 DEF Satisfy, stored
      <3>2. /\ dependent' = [d \in DOMAIN dependent \ {h} |-> dependent[d]]
            /\ dependency' = [c \in DOMAIN dependency \ resolved |->
                                IF c \in nodes THEN dependency[c] \ {h} ELSE dependency[c]]
            /\ blocks' = blocks \ resolved
        BY <2>13 DEF Satisfy
      <3> HIDE DEF nodes, resolved
      <3>3. \A v \in Worker \ {w} : pc'[v] = pc[v]
        BY <3>1 DEF IInv
      <3>4. pc' \in [Worker -> Label] /\ pc'[w] = "process"
        BY <3>1 DEF IInv, Label
      <3>5. \A v \in Worker : pc'[v] # "hold"
        BY <3>1, <3>3, <3>4, BlockAssumption DEF IInv
      <3>6. \A d : Awaited(d) /\ d # h => Awaited(d)'
        BY <3>1, <3>3 DEF Awaited
      <3>7. ASSUME NEW c \in blocks', NEW d \in dependency'[c]
            PROVE  /\ d \in DOMAIN dependent' /\ c \in dependent'[d]
                   /\ d \in chain' => Awaited(d)'
        <4>1. c \in blocks /\ c \in DOMAIN dependency \ resolved /\ d \in dependency[c]
          BY <3>2, <3>7 DEF IInv
        <4>2. d \in DOMAIN dependent /\ c \in dependent[d] /\ (d \in chain => Awaited(d))
          BY <4>1 DEF IInv
        <4>3. d # h
          BY <3>2, <3>7, <4>1, <4>2 DEF nodes, Dependents
        <4> QED
          BY <3>1, <3>2, <3>6, <4>2, <4>3
      <3>8. blocks' = DOMAIN dependency'
        BY <3>2 DEF IInv
      <3>9. \A v \in Worker : pc'[v] = "validate" => deps[block'[v]] \subseteq chain'
        BY <3>1, <3>3, <3>4 DEF IInv
      <3>10. IsFcn(block') /\ IsFcn(missing') /\ ChainClosed'
        BY <3>1 DEF IInv, IsFcn, ChainClosed
      <3> QED
        BY <3>4, <3>5, <3>7, <3>8, <3>9, <3>10 DEF IInv
    <2> QED
      BY <1>3, <2>1, <2>2, <2>3, <2>4, <2>5, <2>6, <2>7, <2>8, <2>9, <2>10, <2>11,
         <2>12, <2>13 DEF worker_loop
  <1> QED
    BY <1>1, <1>2, <1>3 DEF Next

\* The invariant holds of every behaviour.
LEMMA Invariance == Spec => []IInv
  BY InitIInv, NextIInv, PTL DEF Spec

\* For any number of workers and any order of messages, no wake-up is lost: a block
\* in the buffer never waits for one that is in the blockchain, unless a worker is
\* about to call satisfy for it.
THEOREM WakeupIsNotLost == Spec => []NoLostWakeup
  <1>1. IInv => NoLostWakeup
    BY DEF IInv, NoLostWakeup, Awaited
  <1> QED
    BY <1>1, Invariance, PTL

\* For any number of workers and any order of messages, a block enters the
\* blockchain after its parent and its references.
THEOREM ChainIsClosed == Spec => []ChainClosed
  <1>1. IInv => ChainClosed
    BY DEF IInv
  <1> QED
    BY <1>1, Invariance, PTL

-----------------------------------------------------------------------------
(* No block is processed twice.                                            *)

\* What a worker takes off the end of its stack, and what is left.
LEMMA Pop ==
  ASSUME NEW S, NEW s \in Seq(S), s # <<>>, IsInjective(s)
  PROVE  /\ Front(s) \in Seq(S) /\ IsInjective(Front(s))
         /\ Last(s) \in S /\ Last(s) \notin ToSet(Front(s))
         /\ ToSet(s) = ToSet(Front(s)) \cup {Last(s)}
<1> DEFINE n == Len(s)
<1>1. n \in Nat \ {0} /\ DOMAIN s = 1 .. n /\ \A i \in 1 .. n : s[i] \in S
  OBVIOUS
<1>2. /\ Front(s) \in Seq(S) /\ DOMAIN Front(s) = 1 .. (n - 1)
      /\ \A i \in 1 .. (n - 1) : Front(s)[i] = s[i]
  BY <1>1 DEF Front
<1>3. Last(s) = s[n] /\ n \in 1 .. n
  BY <1>1 DEF Last
<1> HIDE DEF n
<1>4. IsInjective(Front(s)) /\ Last(s) \notin ToSet(Front(s))
  BY <1>1, <1>2, <1>3 DEF IsInjective, ToSet
<1>5. \A i \in 1 .. n : i = n \/ i \in 1 .. (n - 1)
  BY <1>1
<1>6. ToSet(s) = ToSet(Front(s)) \cup {Last(s)}
  BY <1>1, <1>2, <1>3, <1>5 DEF ToSet
<1> QED BY <1>1, <1>2, <1>3, <1>4, <1>6

\* A stack with new blocks put on top of it.
LEMMA Push ==
  ASSUME NEW S, NEW s \in Seq(S), NEW t \in Seq(S), IsInjective(s), IsInjective(t),
         ToSet(s) \cap ToSet(t) = {}
  PROVE  /\ s \o t \in Seq(S) /\ IsInjective(s \o t)
         /\ ToSet(s \o t) = ToSet(s) \cup ToSet(t)
<1> DEFINE m == Len(s)
           n == Len(t)
           c == s \o t
<1>1. m \in Nat /\ n \in Nat /\ DOMAIN s = 1 .. m /\ DOMAIN t = 1 .. n
  OBVIOUS
<1>2. /\ c \in Seq(S) /\ DOMAIN c = 1 .. (m + n)
      /\ \A i \in 1 .. m : c[i] = s[i]
      /\ \A i \in (m + 1) .. (m + n) : c[i] = t[i - m]
  OBVIOUS
<1> HIDE DEF m, n, c
<1>3. \A i \in 1 .. (m + n) : i \in 1 .. m \/ (i \in (m + 1) .. (m + n) /\ i - m \in 1 .. n)
  BY <1>1
<1>4. \A j \in 1 .. n : j + m \in (m + 1) .. (m + n) /\ j + m \in 1 .. (m + n) /\ c[j + m] = t[j]
  BY <1>1, <1>2
<1>5. \A i \in 1 .. m : i \in 1 .. (m + n)
  BY <1>1
<1>6. \A x : x \in ToSet(c) <=> x \in ToSet(s) \cup ToSet(t)
  <2>1. ASSUME NEW i \in 1 .. (m + n) PROVE c[i] \in ToSet(s) \cup ToSet(t)
    BY Zenon, <1>1, <1>2, <1>3 DEF ToSet
  <2>2. \A i \in 1 .. m : s[i] \in ToSet(c)
    BY <1>2, <1>5 DEF ToSet
  <2>3. \A j \in 1 .. n : t[j] \in ToSet(c)
    BY <1>2, <1>4 DEF ToSet
  <2>4. ASSUME NEW x \in ToSet(c) PROVE x \in ToSet(s) \cup ToSet(t)
    BY Zenon, <1>2, <2>1, <2>4 DEF ToSet
  <2>5. ASSUME NEW x \in ToSet(s) \cup ToSet(t) PROVE x \in ToSet(c)
    BY Zenon, <1>1, <2>2, <2>3, <2>5 DEF ToSet
  <2> QED BY Zenon, <2>4, <2>5
<1>7. ASSUME NEW i \in 1 .. (m + n), NEW j \in 1 .. (m + n), c[i] = c[j]
      PROVE  i = j
  <2>1. CASE i \in 1 .. m /\ j \in 1 .. m
    BY <1>1, <1>2, <1>7, <2>1 DEF IsInjective
  <2>2. CASE i \in (m + 1) .. (m + n) /\ j \in (m + 1) .. (m + n)
    <3>1. t[i - m] = t[j - m] /\ i - m \in 1 .. n /\ j - m \in 1 .. n
      BY <1>1, <1>2, <1>7, <2>2
    <3>2. i - m = j - m
      BY <1>1, <3>1 DEF IsInjective
    <3> QED BY <1>1, <3>2
  <2>3. ASSUME NEW a \in 1 .. m, NEW b \in (m + 1) .. (m + n), c[a] = c[b] PROVE FALSE
    <3>1. c[a] = s[a] /\ c[b] = t[b - m] /\ b - m \in 1 .. n
      BY <1>1, <1>2
    <3>2. s[a] \in ToSet(s) /\ t[b - m] \in ToSet(t)
      BY <1>1, <3>1 DEF ToSet
    <3> QED BY Zenon, <2>3, <3>1, <3>2
  <2> QED BY <1>3, <1>7, <2>1, <2>2, <2>3
<1>8. IsInjective(c)
  BY <1>2, <1>7 DEF IsInjective
<1> QED BY <1>2, <1>6, <1>8 DEF c

\* The blocks that are with a worker: on its stack, or just taken off it.
Mine(w) == ToSet(to_process[w]) \cup Held(w)

\* From its registration in recent_blocks until it is on the stack, a block that
\* arrives belongs to one worker.
Registered(w) == pc[w] \in {"lookup", "store", "unregister"}

\* A block is with one worker, in the buffer or in the blockchain.
OnePlace ==
  /\ \A w \in Worker : /\ Mine(w) \cap (blocks \cup chain) = {}
                       /\ \A v \in Worker \ {w} : Mine(w) \cap Mine(v) = {}
  /\ blocks \cap chain = {}

\* What is with a worker is there once, and is stored.
StackOK(w) ==
  /\ to_process[w] \in Seq(blockdb) /\ IsInjective(to_process[w])
  /\ Held(w) \subseteq blockdb /\ Held(w) \cap ToSet(to_process[w]) = {}

\* A worker that registers a block has it alone, and stores it when it is new.
RegisterOK(w) ==
  /\ pc[w] = "store" => block[w] \notin blockdb
  /\ Registered(w) => /\ block[w] \in recent_blocks
                      /\ \A v \in Worker \ {w} : Registered(v) => block[v] # block[w]

\* The way back in the buffer: what waits for a block has it among its dependencies.
BufferBack ==
  /\ \A b \in blocks : dependency[b] # {}
  /\ \A d \in DOMAIN dependent :
       dependent[d] # {} /\ \A b \in dependent[d] : b \in blocks /\ d \in dependency[b]
  /\ \A w \in Worker : pc[w] = "hold" => missing[w] # {}

\* What makes NoDuplicate and BufferAgrees inductive, on top of IInv: every block that
\* is somewhere is in blockdb, so one that is stored for the first time is nowhere yet.
DInv ==
  /\ IsFiniteSet(blockdb) /\ IsFcn(to_process)
  /\ blocks \cup chain \subseteq blockdb
  /\ OnePlace
  /\ \A w \in Worker : StackOK(w) /\ RegisterOK(w)
  /\ BufferBack

\* Nothing is anywhere at the start.
LEMMA InitDInv == Init => DInv
<1> SUFFICES ASSUME Init PROVE DInv
  OBVIOUS
<1>1. \A w \in Worker : Held(w) = {} /\ Mine(w) = {} /\ ~Registered(w)
  BY DEF Init, Held, Mine, ToSet, Registered
<1>2. IsFiniteSet(blockdb)
  BY ZenonT(30), FS_EmptySet DEF Init
<1>3. \A w \in Worker : StackOK(w)
  BY <1>1 DEF Init, StackOK, IsInjective
<1>4. \A w \in Worker : RegisterOK(w)
  BY <1>1 DEF Init, RegisterOK
<1>5. BufferBack /\ OnePlace
  BY <1>1 DEF Init, BufferBack, OnePlace
<1> QED BY <1>2, <1>3, <1>4, <1>5 DEF DInv, Init, IsFcn

\* The step of one worker does not move the blocks of another.
LEMMA OthersStay ==
  ASSUME pc \in [Worker -> Label], NEW w \in Worker, NEW label, NEW v \in Worker \ {w},
         pc' = [pc EXCEPT ![w] = label], block'[v] = block[v],
         to_process'[v] = to_process[v]
  PROVE  /\ pc'[v] = pc[v] /\ Held(v)' = Held(v) /\ Mine(v)' = Mine(v)
         /\ Registered(v)' = Registered(v)
<1>1. pc'[v] = pc[v]
  OBVIOUS
<1>2. Held(v)' = Held(v)
  BY <1>1 DEF Held
<1> QED BY <1>1, <1>2 DEF Mine, Registered

\* Blocks that pass between one worker, the buffer and the blockchain, or come to it
\* new, stay in one place each.
LEMMA Handover ==
  ASSUME OnePlace, NEW w \in Worker, NEW N,
         \A v \in Worker \ {w} : Mine(v)' = Mine(v),
         \A v \in Worker : Mine(v) \cap N = {},
         Mine(w)' \cup blocks' \cup chain' \subseteq Mine(w) \cup blocks \cup chain \cup N,
         Mine(w)' \cap blocks' = {}, Mine(w)' \cap chain' = {}, blocks' \cap chain' = {}
  PROVE  OnePlace'
<1>1. ASSUME NEW v \in Worker \ {w}
      PROVE  Mine(v)' \cap (Mine(w)' \cup blocks' \cup chain') = {}
  BY <1>1 DEF OnePlace
<1>2. ASSUME NEW v \in Worker \ {w}, NEW u \in Worker \ {w, v}
      PROVE  Mine(v)' \cap Mine(u)' = {}
  BY DEF OnePlace
<1>3. ASSUME NEW v \in Worker
      PROVE  /\ Mine(v)' \cap (blocks' \cup chain') = {}
             /\ \A u \in Worker \ {v} : Mine(v)' \cap Mine(u)' = {}
  <2>1. CASE v = w
    BY <1>1, <2>1
  <2>2. CASE v # w
    BY <1>1, <1>2, <2>2
  <2> QED BY <2>1, <2>2
<1> QED BY <1>3 DEF OnePlace

\* A step of a worker that moves no block from where it is.
LEMMA StayStep ==
  ASSUME IInv, DInv, NEW w \in Worker, NEW label,
         pc' = [pc EXCEPT ![w] = label],
         IsFcn(to_process'),
         \A v \in Worker \ {w} : block'[v] = block[v] /\ to_process'[v] = to_process[v],
         UNCHANGED <<buffer, chain, blockdb>>,
         Mine(w)' = Mine(w), StackOK(w)', RegisterOK(w)',
         \A v \in Worker \ {w} : Registered(v) => block[v] \in recent_blocks',
         \A v \in Worker \ {w} : missing'[v] = missing[v],
         label = "hold" => missing'[w] # {}
  PROVE  DInv'
<1> USE DEF buffer
<1>1. pc \in [Worker -> Label]
  BY ZenonT(30) DEF IInv
<1>2. \A v \in Worker \ {w} :
        /\ pc'[v] = pc[v] /\ Held(v)' = Held(v) /\ Mine(v)' = Mine(v)
        /\ Registered(v)' = Registered(v)
  BY ZenonT(30), <1>1, OthersStay
<1>3. OnePlace'
  BY <1>2, Handover DEF DInv, OnePlace
<1>4. ASSUME NEW v \in Worker \ {w} PROVE StackOK(v)' /\ RegisterOK(v)'
  <2>1. StackOK(v)'
    BY <1>2 DEF DInv, StackOK
  <2>2. RegisterOK(v)'
    BY <1>2 DEF DInv, RegisterOK
  <2> QED BY Zenon, <2>1, <2>2
<1>5. BufferBack'
  <2>1. \A v \in Worker : pc'[v] = "hold" => missing'[v] # {}
    BY <1>1, <1>2 DEF DInv, BufferBack
  <2> QED BY <2>1 DEF DInv, BufferBack
<1> QED BY ZenonT(30), <1>3, <1>4, <1>5 DEF DInv

\* A step of a worker that only goes on to its next label.
LEMMA GoStep ==
  ASSUME IInv, DInv, NEW w \in Worker, NEW label \in {"recv", "request", "decode", "process"},
         pc[w] \in {"recv", "request", "decode", "process"},
         pc' = [pc EXCEPT ![w] = label],
         \A v \in Worker \ {w} : block'[v] = block[v],
         UNCHANGED <<buffer, chain, blockdb, recent_blocks, to_process, missing>>
  PROVE  DInv'
<1>1. pc \in [Worker -> Label] /\ pc'[w] = label
  BY DEF IInv
<1>2. Held(w) = {} /\ Held(w)' = {} /\ ~Registered(w)'
  BY <1>1 DEF Held, Registered
<1>3. Mine(w)' = Mine(w)
  BY <1>2 DEF Mine
<1>4. StackOK(w)' /\ RegisterOK(w)'
  BY <1>1, <1>2 DEF DInv, StackOK, RegisterOK
<1>5. IsFcn(to_process')
  BY DEF DInv, IsFcn
<1>6. \A v \in Worker \ {w} : Registered(v) => block[v] \in recent_blocks'
  BY DEF DInv, RegisterOK
<1> QED BY <1>3, <1>4, <1>5, <1>6, StayStep

\* Register: the block is registered by no other worker.
LEMMA RegisterStep ==
  ASSUME IInv, DInv, NEW w \in Worker, Register(w)
  PROVE  DInv'
<1>1. PICK b \in todo[w] :
        IF b \in Worthy /\ b \notin recent_blocks
        THEN /\ recent_blocks' = recent_blocks \cup {b}
             /\ block' = [block EXCEPT ![w] = b]
             /\ pc' = [pc EXCEPT ![w] = "lookup"]
        ELSE UNCHANGED <<recent_blocks, block, pc>>
  BY DEF Register, Goto
<1>2. pc[w] = "decode" /\ UNCHANGED <<buffer, chain, blockdb, to_process, missing>>
  BY DEF Register
<1>3. pc \in [Worker -> Label] /\ IsFcn(block)
  BY DEF IInv
<1>4. CASE b \in Worthy /\ b \notin recent_blocks
  <2>1. /\ recent_blocks' = recent_blocks \cup {b}
        /\ block' = [block EXCEPT ![w] = b] /\ pc' = [pc EXCEPT ![w] = "lookup"]
    BY <1>1, <1>4
  <2>2. /\ pc'[w] = "lookup" /\ block'[w] = b
        /\ \A v \in Worker \ {w} : block'[v] = block[v] /\ pc'[v] = pc[v]
    BY <1>3, <2>1 DEF IsFcn
  <2>3. Held(w) = {} /\ Held(w)' = {}
    BY <1>2, <2>2 DEF Held
  <2>4. Mine(w)' = Mine(w) /\ StackOK(w)'
    BY <1>2, <2>3 DEF Mine, StackOK, DInv
  <2>5. \A v \in Worker \ {w} : Registered(v) => block[v] \in recent_blocks
    BY DEF DInv, RegisterOK
  <2>6. RegisterOK(w)'
    BY <1>4, <2>1, <2>2, <2>5 DEF RegisterOK, Registered
  <2>7. IsFcn(to_process')
    BY <1>2 DEF DInv, IsFcn
  <2> QED BY <1>2, <2>1, <2>2, <2>4, <2>5, <2>6, <2>7, StayStep
<1>5. CASE ~(b \in Worthy /\ b \notin recent_blocks)
  <2>1. pc' = [pc EXCEPT ![w] = "decode"] /\ UNCHANGED <<recent_blocks, block>>
    BY <1>1, <1>2, <1>3, <1>5
  <2> QED BY <1>2, <2>1, GoStep
<1> QED BY <1>4, <1>5

\* Lookup: only a block that is not stored goes on to be stored.
LEMMA LookupStep ==
  ASSUME IInv, DInv, NEW w \in Worker, Lookup(w)
  PROVE  DInv'
<1>1. PICK label \in {"decode", "store"} :
        /\ pc' = [pc EXCEPT ![w] = label]
        /\ recent_blocks' = IF label = "decode" THEN recent_blocks \ {block[w]} ELSE recent_blocks
        /\ label = "store" => block[w] \notin blockdb
  BY DEF Lookup, Goto
<1>2. pc[w] = "lookup" /\ UNCHANGED <<buffer, chain, blockdb, to_process, missing, block>>
  BY DEF Lookup
<1>3. pc'[w] = label
  BY <1>1 DEF IInv
<1>4. Held(w) = {} /\ Held(w)' = {}
  BY <1>2, <1>3 DEF Held
<1>5. Mine(w)' = Mine(w) /\ StackOK(w)'
  BY <1>2, <1>4 DEF Mine, StackOK, DInv
<1>6. Registered(w) /\ RegisterOK(w)
  BY <1>2 DEF DInv, Registered
<1>7. \A v \in Worker \ {w} :
        /\ pc'[v] = pc[v]
        /\ Registered(v) => block[v] \in recent_blocks' /\ block[v] # block[w]
  BY <1>1, <1>6 DEF DInv, RegisterOK, IInv
<1>8. RegisterOK(w)'
  BY <1>1, <1>2, <1>3, <1>6, <1>7 DEF RegisterOK, Registered
<1>9. IsFcn(to_process')
  BY <1>2 DEF DInv, IsFcn
<1> QED BY <1>1, <1>2, <1>5, <1>7, <1>8, <1>9, StayStep

\* Unregister: the block goes on the stack.
LEMMA UnregisterStep ==
  ASSUME IInv, DInv, NEW w \in Worker, Unregister(w)
  PROVE  DInv'
<1> DEFINE b == block[w]
           s == to_process[w]
<1>1. /\ pc[w] = "unregister" /\ UNCHANGED <<buffer, chain, blockdb, missing, block>>
      /\ pc' = [pc EXCEPT ![w] = "decode"] /\ recent_blocks' = recent_blocks \ {b}
      /\ to_process' = [to_process EXCEPT ![w] = Append(s, b)]
  BY DEF Unregister, Goto
<1>2. /\ pc'[w] = "decode" /\ to_process'[w] = Append(s, b) /\ IsFcn(to_process')
      /\ \A v \in Worker \ {w} : pc'[v] = pc[v] /\ to_process'[v] = to_process[v]
  BY <1>1 DEF IInv, DInv, IsFcn
<1>3. Held(w) = {b} /\ Held(w)' = {}
  BY <1>1, <1>2 DEF Held
<1>4. /\ s \in Seq(blockdb) /\ IsInjective(s) /\ b \in blockdb /\ b \notin ToSet(s)
  BY <1>3 DEF DInv, StackOK
<1>5. <<b>> \in Seq(blockdb) /\ IsInjective(<<b>>) /\ ToSet(<<b>>) = {b}
  BY <1>4 DEF IsInjective, ToSet
<1>6. Append(s, b) = s \o <<b>>
  BY <1>4
<1> HIDE DEF b, s
<1>7. /\ Append(s, b) \in Seq(blockdb) /\ IsInjective(Append(s, b))
      /\ ToSet(Append(s, b)) = ToSet(s) \cup {b}
  <2> DEFINE t == <<b>>
  <2>1. t \in Seq(blockdb) /\ IsInjective(t) /\ ToSet(s) \cap ToSet(t) = {}
    BY <1>4, <1>5
  <2> HIDE DEF t
  <2>2. s \o t \in Seq(blockdb) /\ IsInjective(s \o t) /\ ToSet(s \o t) = ToSet(s) \cup ToSet(t)
    BY <1>4, <2>1, Push
  <2> QED BY <1>5, <1>6, <2>2 DEF t
<1>8. Mine(w)' = Mine(w)
  BY <1>2, <1>3, <1>7 DEF Mine, s
<1>9. StackOK(w)'
  BY <1>1, <1>2, <1>3, <1>7 DEF StackOK
<1>10. RegisterOK(w)'
  BY <1>2 DEF RegisterOK, Registered
<1>11. Registered(w) /\ RegisterOK(w)
  BY <1>1 DEF DInv, Registered
<1>12. \A v \in Worker \ {w} : Registered(v) => block[v] \in recent_blocks'
  BY <1>1, <1>11 DEF DInv, RegisterOK, b
<1> QED BY <1>1, <1>2, <1>8, <1>9, <1>10, <1>12, StayStep

\* Check: the block on top of the stack is taken off it.
LEMMA CheckStep ==
  ASSUME IInv, DInv, NEW w \in Worker, Check(w)
  PROVE  DInv'
<1> DEFINE s == to_process[w]
           b == Last(s)
<1>1. PICK label \in {"validate", "hold"} :
        /\ pc' = [pc EXCEPT ![w] = label]
        /\ label = "hold" => Missing(b) # {}
  BY DEF Check, Goto
<1>2. /\ pc[w] = "process" /\ s # <<>> /\ UNCHANGED <<buffer, chain, blockdb, recent_blocks>>
      /\ block' = [block EXCEPT ![w] = b]
      /\ to_process' = [to_process EXCEPT ![w] = Front(s)]
      /\ missing' = [missing EXCEPT ![w] = Missing(b)]
  BY DEF Check, stored
<1>3. /\ pc'[w] = label /\ block'[w] = b /\ to_process'[w] = Front(s)
      /\ missing'[w] = Missing(b) /\ IsFcn(to_process')
      /\ \A v \in Worker \ {w} : /\ pc'[v] = pc[v] /\ to_process'[v] = to_process[v]
                                 /\ block'[v] = block[v] /\ missing'[v] = missing[v]
  BY <1>1, <1>2 DEF IInv, DInv, IsFcn
<1>4. Held(w) = {} /\ Held(w)' = {b}
  BY <1>1, <1>2, <1>3 DEF Held
<1>5. s \in Seq(blockdb) /\ IsInjective(s)
  BY DEF DInv, StackOK
<1> HIDE DEF s
<1>6. /\ Front(s) \in Seq(blockdb) /\ IsInjective(Front(s))
      /\ b \in blockdb /\ b \notin ToSet(Front(s)) /\ ToSet(s) = ToSet(Front(s)) \cup {b}
  BY <1>2, <1>5, Pop
<1> HIDE DEF b
<1>7. Mine(w)' = Mine(w)
  BY <1>3, <1>4, <1>6 DEF Mine, s
<1>8. StackOK(w)'
  BY <1>2, <1>3, <1>4, <1>6 DEF StackOK
<1>9. RegisterOK(w)'
  BY <1>1, <1>3 DEF RegisterOK, Registered
<1>10. \A v \in Worker \ {w} : Registered(v) => block[v] \in recent_blocks'
  BY <1>2 DEF DInv, RegisterOK
<1> QED BY <1>1, <1>2, <1>3, <1>7, <1>8, <1>9, <1>10, StayStep

\* Store: a block that was not stored is nowhere else.
LEMMA StoreStep ==
  ASSUME IInv, DInv, NEW w \in Worker, Store(w)
  PROVE  DInv'
<1> DEFINE b == block[w]
<1>1. /\ pc[w] = "store" /\ blockdb' = blockdb \cup {b}
      /\ pc' = [pc EXCEPT ![w] = "unregister"]
      /\ UNCHANGED <<buffer, chain, recent_blocks, to_process, missing, block>>
  BY DEF Store, Goto
<1>2. pc'[w] = "unregister" /\ \A v \in Worker \ {w} : pc'[v] = pc[v]
  BY <1>1 DEF IInv
<1>3. Held(w) = {} /\ Held(w)' = {b}
  BY <1>1, <1>2 DEF Held
<1>4. b \notin blockdb /\ Registered(w)
  BY <1>1 DEF DInv, RegisterOK, Registered
<1>5. \A v \in Worker : ToSet(to_process[v]) \subseteq blockdb /\ Mine(v) \subseteq blockdb
  BY DEF DInv, StackOK, Mine, ToSet
<1>6. \A v \in Worker \ {w} :
        Held(v)' = Held(v) /\ Mine(v)' = Mine(v) /\ Registered(v)' = Registered(v)
  BY <1>1, OthersStay DEF IInv
<1>7. Mine(w)' = Mine(w) \cup {b}
  BY <1>1, <1>3 DEF Mine
<1>8. OnePlace'
  <2>1. \A v \in Worker : Mine(v) \cap {b} = {}
    BY <1>4, <1>5
  <2>2. Mine(w)' \cap blocks' = {} /\ Mine(w)' \cap chain' = {} /\ blocks' \cap chain' = {}
    BY <1>1, <1>4, <1>7 DEF DInv, OnePlace, buffer
  <2>3. Mine(w)' \cup blocks' \cup chain' \subseteq Mine(w) \cup blocks \cup chain \cup {b}
    BY <1>1, <1>7 DEF buffer
  <2> QED BY <1>6, <2>1, <2>2, <2>3, Handover DEF DInv
<1>9. ASSUME NEW v \in Worker PROVE StackOK(v)'
  <2>1. to_process[v] \in Seq(blockdb')
    <3>1. to_process[v] \in Seq(blockdb)
      BY DEF DInv, StackOK
    <3> QED BY <1>1, <3>1
  <2>2. Held(v)' \subseteq blockdb' /\ Held(v)' \cap ToSet(to_process[v]) = {}
    BY <1>1, <1>3, <1>4, <1>5, <1>6 DEF DInv, StackOK
  <2> QED BY <1>1, <2>1, <2>2 DEF StackOK, DInv
<1>10. ASSUME NEW v \in Worker PROVE RegisterOK(v)'
  <2>1. Registered(v)' => Registered(v)
    BY <1>4, <1>6
  <2>2. \A u \in Worker : Registered(u)' => Registered(u)
    BY <1>4, <1>6
  <2>3. pc'[v] = "store" => v # w /\ pc[v] = "store"
    BY <1>2
  <2>4. pc'[v] = "store" => block'[v] \notin blockdb'
    BY <1>1, <1>4, <2>3 DEF DInv, RegisterOK, Registered
  <2> QED BY <1>1, <2>1, <2>2, <2>4 DEF DInv, RegisterOK
<1>11. BufferBack'
  BY <1>1, <1>2 DEF DInv, BufferBack, buffer
<1>12. IsFiniteSet(blockdb')
  BY <1>1, FS_AddElement DEF DInv
<1>13. IsFcn(to_process')
  BY <1>1 DEF DInv, IsFcn
<1>14. blocks' \cup chain' \subseteq blockdb'
  BY <1>1 DEF DInv, buffer
<1> QED BY <1>8, <1>9, <1>10, <1>11, <1>12, <1>13, <1>14 DEF DInv

\* A worker that has no block registered leaves the registrations of the others alone.
LEMMA OthersRegistered ==
  ASSUME IInv, DInv, NEW w \in Worker, NEW label \in {"process", "satisfy"},
         pc' = [pc EXCEPT ![w] = label], UNCHANGED <<block, blockdb, recent_blocks>>
  PROVE  \A v \in Worker : RegisterOK(v)'
<1>1. pc'[w] = label /\ \A v \in Worker \ {w} : pc'[v] = pc[v]
  BY DEF IInv
<1>2. ~Registered(w)' /\ \A v \in Worker \ {w} : Registered(v)' = Registered(v)
  BY <1>1 DEF Registered
<1>3. ASSUME NEW v \in Worker \ {w} PROVE RegisterOK(v)'
  BY <1>1, <1>2 DEF DInv, RegisterOK
<1>4. RegisterOK(w)'
  BY <1>1, <1>2 DEF RegisterOK
<1> QED BY <1>3, <1>4

\* Hold: the block goes from the worker to the buffer, which had no trace of it.
LEMMA HoldStep ==
  ASSUME IInv, DInv, NEW w \in Worker, Hold(w)
  PROVE  DInv'
<1> DEFINE b == block[w]
           r == missing[w]
<1>1. /\ pc[w] = "hold" /\ pc' = [pc EXCEPT ![w] = "process"]
      /\ missing' = [missing EXCEPT ![w] = {}]
      /\ UNCHANGED <<chain, blockdb, recent_blocks, to_process, block>>
  BY DEF Hold, Goto, stored
<1>2. /\ blocks' = blocks \cup {b}
      /\ dependency' = [c \in DOMAIN dependency \cup {b} |-> IF c = b THEN r ELSE dependency[c]]
      /\ dependent' = [d \in DOMAIN dependent \cup r |->
                         IF d \in r THEN Dependents(d) \cup {b} ELSE dependent[d]]
  BY DEF Hold, BufferInsert
<1>3. /\ pc'[w] = "process"
      /\ \A v \in Worker \ {w} : pc'[v] = pc[v] /\ missing'[v] = missing[v]
  BY <1>1 DEF IInv, IsFcn
<1>4. Held(w) = {b} /\ Held(w)' = {}
  BY <1>1, <1>3 DEF Held
<1>5. \A v \in Worker \ {w} : Held(v)' = Held(v) /\ Mine(v)' = Mine(v)
  BY <1>1, OthersStay DEF IInv
<1>6. /\ Mine(w) = ToSet(to_process[w]) \cup {b} /\ Mine(w)' = ToSet(to_process[w])
      /\ b \notin ToSet(to_process[w]) /\ b \in blockdb
      /\ b \notin blocks /\ b \notin chain
  BY <1>1, <1>4 DEF Mine, DInv, StackOK, OnePlace
<1> HIDE DEF b, r
<1>7. OnePlace'
  <2>1. Mine(w)' \cap blocks' = {} /\ Mine(w)' \cap chain' = {} /\ blocks' \cap chain' = {}
    BY <1>1, <1>2, <1>6 DEF DInv, OnePlace
  <2>2. Mine(w)' \cup blocks' \cup chain' \subseteq Mine(w) \cup blocks \cup chain \cup {}
    BY <1>1, <1>2, <1>6
  <2> QED BY <1>5, <2>1, <2>2, Handover DEF DInv
<1>8. ASSUME NEW v \in Worker PROVE StackOK(v)'
  BY <1>1, <1>4, <1>5 DEF DInv, StackOK
<1>9. \A v \in Worker : RegisterOK(v)'
  BY <1>1, OthersRegistered
<1>10. BufferBack'
  <2>1. r # {} /\ blocks = DOMAIN dependency
    BY <1>1 DEF DInv, BufferBack, IInv, r
  <2>2. \A c \in blocks' : dependency'[c] # {}
    BY <1>2, <2>1 DEF DInv, BufferBack
  <2>3. ASSUME NEW d \in DOMAIN dependent'
        PROVE  dependent'[d] # {} /\ \A c \in dependent'[d] : c \in blocks' /\ d \in dependency'[c]
    <3>1. \A c \in Dependents(d) : c \in blocks /\ d \in dependency[c]
      BY DEF DInv, BufferBack, Dependents
    <3>2. \A c \in blocks : c \in blocks' /\ c # b /\ dependency'[c] = dependency[c]
      BY <1>2, <1>6, <2>1
    <3>3. CASE d \in r
      <4>1. dependent'[d] = Dependents(d) \cup {b} /\ b \in blocks' /\ d \in dependency'[b]
        BY <1>2, <3>3
      <4> QED BY <3>1, <3>2, <4>1
    <3>4. CASE d \notin r
      <4>1. d \in DOMAIN dependent /\ dependent'[d] = dependent[d]
        BY <1>2, <3>4
      <4> QED BY <3>2, <4>1 DEF DInv, BufferBack
    <3> QED BY <3>3, <3>4
  <2>4. \A v \in Worker : pc'[v] = "hold" => missing'[v] # {}
    BY <1>3 DEF DInv, BufferBack
  <2> QED BY <2>2, <2>3, <2>4 DEF BufferBack
<1>11. IsFiniteSet(blockdb') /\ IsFcn(to_process') /\ blocks' \cup chain' \subseteq blockdb'
  BY <1>1, <1>2, <1>6 DEF DInv, IsFcn
<1> QED BY <1>7, <1>8, <1>9, <1>10, <1>11 DEF DInv

\* Validate: the block goes from the worker to the blockchain, or is discarded.
LEMMA ValidateStep ==
  ASSUME IInv, DInv, NEW w \in Worker, Validate(w)
  PROVE  DInv'
<1> DEFINE b == block[w]
<1>1. PICK label \in {"process", "satisfy"} :
        pc' = [pc EXCEPT ![w] = label] /\ chain \subseteq chain' /\ chain' \subseteq chain \cup {b}
  BY DEF Validate, Goto
<1>2. /\ pc[w] = "validate"
      /\ UNCHANGED <<buffer, blockdb, recent_blocks, to_process, missing, block>>
  BY DEF Validate
<1>3. pc'[w] = label /\ \A v \in Worker \ {w} : pc'[v] = pc[v]
  BY <1>1 DEF IInv
<1>4. Held(w) = {b} /\ Held(w)' = {}
  BY <1>1, <1>2, <1>3 DEF Held
<1>5. \A v \in Worker \ {w} : Held(v)' = Held(v) /\ Mine(v)' = Mine(v)
  BY <1>1, <1>2, OthersStay DEF IInv
<1>6. /\ Mine(w) = ToSet(to_process[w]) \cup {b} /\ Mine(w)' = ToSet(to_process[w])
      /\ b \notin ToSet(to_process[w]) /\ b \in blockdb
      /\ b \notin blocks /\ b \notin chain
  BY <1>2, <1>4 DEF Mine, DInv, StackOK, OnePlace
<1> HIDE DEF b
<1>7. OnePlace'
  <2>1. Mine(w)' \cap blocks' = {} /\ Mine(w)' \cap chain' = {} /\ blocks' \cap chain' = {}
    BY <1>1, <1>2, <1>6 DEF DInv, OnePlace, buffer
  <2>2. Mine(w)' \cup blocks' \cup chain' \subseteq Mine(w) \cup blocks \cup chain \cup {}
    BY <1>1, <1>2, <1>6 DEF buffer
  <2> QED BY <1>5, <2>1, <2>2, Handover DEF DInv
<1>8. ASSUME NEW v \in Worker PROVE StackOK(v)'
  BY <1>2, <1>4, <1>5 DEF DInv, StackOK
<1>9. \A v \in Worker : RegisterOK(v)'
  BY <1>1, <1>2, OthersRegistered
<1>10. BufferBack'
  BY <1>1, <1>2, <1>3 DEF DInv, BufferBack, buffer
<1>11. IsFiniteSet(blockdb') /\ IsFcn(to_process') /\ blocks' \cup chain' \subseteq blockdb'
  BY <1>1, <1>2, <1>6 DEF DInv, IsFcn, buffer
<1> QED BY <1>7, <1>8, <1>9, <1>10, <1>11 DEF DInv

\* Satisfy: the blocks that are complete go from the buffer to the worker.
LEMMA SatisfyStep ==
  ASSUME IInv, DInv, NEW w \in Worker, Satisfy(w)
  PROVE  DInv'
<1> DEFINE h == block[w]
           nodes == Dependents(h)
           resolved == {n \in nodes : dependency[n] \subseteq {h}}
           s == to_process[w]
<1>1. /\ pc[w] = "satisfy" /\ pc' = [pc EXCEPT ![w] = "process"]
      /\ UNCHANGED <<chain, blockdb, recent_blocks, missing, block>>
  BY DEF Satisfy, Goto, stored
<1>2. /\ dependent' = [d \in DOMAIN dependent \ {h} |-> dependent[d]]
      /\ dependency' = [c \in DOMAIN dependency \ resolved |->
                          IF c \in nodes THEN dependency[c] \ {h} ELSE dependency[c]]
      /\ blocks' = blocks \ resolved
  BY DEF Satisfy
<1>3. PICK t \in SetToSeqs(resolved) : to_process' = [to_process EXCEPT ![w] = s \o t]
  BY DEF Satisfy
<1>4. nodes \subseteq blocks /\ resolved \subseteq blocks
  BY DEF Dependents, DInv, BufferBack
<1>5. t \in Seq(resolved) /\ IsInjective(t) /\ ToSet(t) \subseteq resolved
  <2>1. IsFiniteSet(resolved)
    BY <1>4, FS_Subset DEF DInv
  <2> HIDE DEF resolved
  <2>2. Cardinality(resolved) \in Nat
    BY <2>1, FS_CardinalityType
  <2>3. t \in [1 .. Cardinality(resolved) -> resolved] /\ IsInjective(t)
    BY DEF SetToSeqs, IsInjective
  <2>4. t \in Seq(resolved)
    BY <2>2, <2>3
  <2> QED BY <2>3, <2>4 DEF ToSet
<1>6. /\ pc'[w] = "process" /\ to_process'[w] = s \o t /\ IsFcn(to_process')
      /\ \A v \in Worker \ {w} : pc'[v] = pc[v] /\ to_process'[v] = to_process[v]
  BY <1>1, <1>3 DEF IInv, DInv, IsFcn
<1>7. Held(w) = {} /\ Held(w)' = {}
  BY <1>1, <1>6 DEF Held
<1>8. \A v \in Worker \ {w} : Held(v)' = Held(v) /\ Mine(v)' = Mine(v)
  BY <1>1, <1>6, OthersStay DEF IInv
<1>9. Mine(w) = ToSet(s) /\ ToSet(s) \cap (blocks \cup chain) = {}
  BY <1>7 DEF Mine, DInv, OnePlace
<1>10. s \in Seq(blockdb) /\ IsInjective(s) /\ blocks \subseteq blockdb /\ blocks \cap chain = {}
  BY DEF DInv, StackOK, OnePlace
<1> HIDE DEF s, resolved, nodes, h
<1>11. /\ s \o t \in Seq(blockdb) /\ IsInjective(s \o t)
       /\ ToSet(s \o t) = ToSet(s) \cup ToSet(t)
  <2>1. t \in Seq(blockdb)
    <3>1. resolved \subseteq blockdb
      BY <1>4, <1>10
    <3> QED BY <1>5, <3>1
  <2>2. ToSet(s) \cap ToSet(t) = {}
    BY <1>4, <1>5, <1>9
  <2> QED BY <1>5, <1>10, <2>1, <2>2, Push
<1>12. Mine(w)' = ToSet(s) \cup ToSet(t)
  BY <1>6, <1>7, <1>11 DEF Mine
<1>13. OnePlace'
  <2>1. Mine(w)' \cap blocks' = {} /\ Mine(w)' \cap chain' = {} /\ blocks' \cap chain' = {}
    BY <1>1, <1>2, <1>4, <1>5, <1>9, <1>10, <1>12
  <2>2. Mine(w)' \cup blocks' \cup chain' \subseteq Mine(w) \cup blocks \cup chain \cup {}
    BY <1>1, <1>2, <1>4, <1>5, <1>9, <1>12
  <2> QED BY <1>8, <2>1, <2>2, Handover DEF DInv
<1>14. ASSUME NEW v \in Worker PROVE StackOK(v)'
  <2>1. CASE v = w
    BY <1>1, <1>6, <1>7, <1>11, <2>1 DEF StackOK
  <2>2. CASE v # w
    BY <1>1, <1>6, <1>8, <2>2 DEF DInv, StackOK
  <2> QED BY <2>1, <2>2
<1>15. \A v \in Worker : RegisterOK(v)'
  BY <1>1, OthersRegistered
<1>16. BufferBack'
  <2>1. ASSUME NEW c \in blocks' PROVE dependency'[c] # {}
    <3>1. c \in DOMAIN dependency \ resolved /\ c \in blocks /\ dependency[c] # {}
      BY <1>2 DEF IInv, DInv, BufferBack
    <3>2. CASE c \in nodes
      BY <1>2, <3>1, <3>2 DEF resolved
    <3>3. CASE c \notin nodes
      BY <1>2, <3>1, <3>3
    <3> QED BY <3>2, <3>3
  <2>2. ASSUME NEW d \in DOMAIN dependent'
        PROVE  dependent'[d] # {} /\ \A c \in dependent'[d] : c \in blocks' /\ d \in dependency'[c]
    <3>1. d \in DOMAIN dependent /\ d # h /\ dependent'[d] = dependent[d]
      BY <1>2
    <3>2. \A c \in dependent[d] : c \in blocks /\ d \in dependency[c] /\ c \notin resolved
      BY <3>1 DEF DInv, BufferBack, resolved
    <3>3. \A c \in dependent[d] : c \in DOMAIN dependency
      BY <3>2 DEF IInv
    <3> QED BY <1>2, <3>1, <3>2, <3>3 DEF DInv, BufferBack
  <2>3. \A v \in Worker : pc'[v] = "hold" => missing'[v] # {}
    BY <1>1, <1>6 DEF DInv, BufferBack
  <2> QED BY <2>1, <2>2, <2>3 DEF BufferBack
<1>17. IsFiniteSet(blockdb') /\ blocks' \cup chain' \subseteq blockdb'
  BY <1>1, <1>2 DEF DInv
<1> QED BY <1>6, <1>13, <1>14, <1>15, <1>16, <1>17 DEF DInv

\* The step of an action preserves the invariant.
LEMMA NextDInv == IInv /\ DInv /\ [Next]_vars => DInv'
<1> SUFFICES ASSUME IInv, DInv, [Next]_vars PROVE DInv'
  OBVIOUS
<1>1. CASE UNCHANGED <<buffer, stored, local>>
  <2>1. UNCHANGED <<blocks, dependency, dependent, recent_blocks, blockdb, chain, pc, block,
                    to_process, missing>>
    BY <1>1 DEF buffer, stored, local
  <2>2. \A w \in Worker : Held(w)' = Held(w) /\ Mine(w)' = Mine(w) /\ Registered(w)' = Registered(w)
    BY <2>1 DEF Held, Mine, Registered
  <2>3. OnePlace' /\ BufferBack'
    BY <2>1, <2>2 DEF DInv, OnePlace, BufferBack
  <2>4. \A w \in Worker : StackOK(w)'
    BY <2>1, <2>2 DEF DInv, StackOK
  <2>5. \A w \in Worker : RegisterOK(w)'
    BY <2>1, <2>2 DEF DInv, RegisterOK
  <2> QED BY <2>1, <2>3, <2>4, <2>5 DEF DInv, IsFcn
<1>2. CASE peers
  BY <1>1, <1>2 DEF peers, Announce, AnswerAll, AnswerSome, Answer, Disconnect
<1>3. ASSUME NEW w \in Worker, worker_loop(w) PROVE DInv'
  <2>1. CASE TakeHashes(w)
    BY <2>1, GoStep DEF TakeHashes, Goto, stored
  <2>2. CASE SendRequest(w)
    BY <2>2, GoStep DEF SendRequest, Goto
  <2>3. CASE TakeBlocks(w)
    BY <2>3, GoStep DEF TakeBlocks, Goto, stored
  <2>4. CASE Decoded(w)
    <3>1. PICK label \in {"recv", "process"} : pc' = [pc EXCEPT ![w] = label]
      BY <2>4 DEF Decoded, Goto
    <3>2. /\ pc[w] = "decode"
          /\ UNCHANGED <<buffer, chain, blockdb, recent_blocks, to_process, missing, block>>
      BY <2>4 DEF Decoded, stored
    <3> QED BY <3>1, <3>2, GoStep
  <2>5. CASE Finish(w)
    <3>1. /\ pc[w] = "process" /\ pc' = [pc EXCEPT ![w] = "recv"]
          /\ block' = [block EXCEPT ![w] = None]
          /\ UNCHANGED <<buffer, chain, blockdb, recent_blocks, to_process, missing>>
      BY <2>5 DEF Finish, Goto, stored
    <3>2. \A v \in Worker \ {w} : block'[v] = block[v]
      BY <3>1 DEF IInv, IsFcn
    <3> QED BY <3>1, <3>2, GoStep
  <2> QED BY <1>3, <2>1, <2>2, <2>3, <2>4, <2>5, RegisterStep, LookupStep, StoreStep,
             UnregisterStep, CheckStep, HoldStep, ValidateStep, SatisfyStep DEF worker_loop
<1> QED
  <2>1. CASE UNCHANGED vars
    BY <1>1, <2>1 DEF vars
  <2> QED BY <1>2, <1>3, <2>1 DEF Next

\* Both invariants hold of every behaviour.
LEMMA BothInvariant == Spec => [](IInv /\ DInv)
  BY InitIInv, NextIInv, InitDInv, NextDInv, PTL DEF Spec

\* However the workers interleave and in whatever order peers repeat blocks, no stored
\* block is in two places, or twice in one: a block is processed once.
THEOREM BlocksHaveOnePlace == Spec => []NoDuplicate
<1>1. DInv => NoDuplicate
  BY DEF DInv, NoDuplicate, OnePlace, StackOK, RegisterOK, Mine
<1> QED BY <1>1, BothInvariant, PTL

\* The maps of the buffer agree in every state, so that the unwraps of satisfy never
\* fail and an insertion never meets what an earlier one left behind.
THEOREM BufferIsConsistent == Spec => []BufferAgrees
<1>1. IInv /\ DInv => BufferAgrees
  BY DEF IInv, DInv, BufferBack, BufferAgrees
<1> QED BY <1>1, BothInvariant, PTL
=============================================================================
