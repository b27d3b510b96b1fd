------------------------------- MODULE Merkle -------------------------------
(***************************************************************************)
(* The Merkle tree (crypto/merkle.rs): an array of nodes with the root     *)
(* first and the leaves last, where a layer of odd size, the root's apart, *)
(* repeats its last node.  The hash of two nodes is their pair, as SHA-256 *)
(* is taken to have no collisions.  Places are counted from 0, as in the   *)
(* code.                                                                   *)
(***************************************************************************)
EXTENDS Naturals, Sequences, SequencesExt

Digest(left, right) == [left |-> left, right |-> right]

\* The size of a layer after the last node is repeated.
Padded(size) == IF size = 1 THEN 1 ELSE size + (size % 2)

\* The sizes of the layers before that, from the leaves up.
RECURSIVE LayerSizes(_)
LayerSizes(size) ==
  IF size <= 1 THEN <<size>> ELSE <<size>> \o LayerSizes(Padded(size) \div 2)

Repeat(layer) ==
  IF Padded(Len(layer)) = Len(layer) THEN layer ELSE Append(layer, Last(layer))

\* The nodes over a layer, from the root.
RECURSIVE Nodes(_)
Nodes(layer) ==
  IF Len(layer) <= 1 THEN layer
  ELSE LET l == Repeat(layer)
       IN  Nodes([i \in 1 .. Len(l) \div 2 |-> Digest(l[2 * i - 1], l[2 * i])]) \o l

new(data) == [data_size |-> LayerSizes(Len(data)), nodes |-> Nodes(data)]

Empty == "zeros"
root(tree) == IF tree.nodes = <<>> THEN Empty ELSE tree.nodes[1]

\* The sum of the padded sizes of the first layers.
SizeOf(sizes, layers) ==
  FoldLeft(LAMBDA sum, size : sum + Padded(size), 0, SubSeq(sizes, 1, layers))

\* The place where a layer starts (the leaves are layer 1), and that of the node
\* over leaf index.
LayerStart(tree, layer) == Len(tree.nodes) - SizeOf(tree.data_size, layer)
Above(index, layer) == index \div 2 ^ (layer - 1)
NodesIndex(tree, index, layer) == LayerStart(tree, layer) + Above(index, layer)

\* Left children are at odd places.
SiblingIndexOwn(n) == n
SiblingIndex(n) == IF n % 2 = 1 THEN n + 1 ELSE n - 1

proof(tree, index) ==
  LET layers == Len(tree.data_size)
  IN  IF layers = 1 \/ index >= tree.data_size[1] THEN <<>>
      ELSE [layer \in 1 .. layers - 1 |->
              tree.nodes[1 + SiblingIndex(NodesIndex(tree, index, layer))]]

\* The nodes after those over leaf index have been computed again up to the layer:
\* a node from its children, and its copy if it is the last of an odd layer.
RepeatsNodeNever(tree, layer, n) == FALSE
RepeatsNode(tree, layer, n) ==
  n = LayerStart(tree, layer) + tree.data_size[layer] - 1 /\ n % 2 = 1

RECURSIVE UpdateTo(_, _, _, _)
UpdateTo(tree, index, data, layer) ==
  LET n == NodesIndex(tree, index, layer)
      below == UpdateTo(tree, index, data, layer - 1)
      left == LayerStart(tree, layer - 1) + 2 * Above(index, layer)
      before == IF layer = 1 THEN tree.nodes ELSE below
      node == IF layer = 1 THEN data ELSE Digest(below[1 + left], below[2 + left])
      copy == IF RepeatsNode(tree, layer, n) THEN {n, n + 1} ELSE {n}
  IN  [k \in DOMAIN before |-> IF k - 1 \in copy THEN node ELSE before[k]]

update(tree, index, data) ==
  IF index >= tree.data_size[1] THEN tree
  ELSE [tree EXCEPT !.nodes = UpdateTo(tree, index, data, Len(tree.data_size))]

\* Without regard to the side of the sibling.
verifyEitherSide(rt, data, prf, index, leaf_size) ==
  LET sizes == LayerSizes(leaf_size)
      accs == FoldLeft(LAMBDA S, h : {Digest(a, h) : a \in S} \cup {Digest(h, a) : a \in S},
                       {data}, prf)
  IN  /\ index < leaf_size
      /\ Len(sizes) = Len(prf) + 1
      /\ rt \in accs

\* The proof is folded from the leaf up; its length must be that of the path.
verify(rt, data, prf, index, leaf_size) ==
  LET sizes == LayerSizes(leaf_size)
      size == SizeOf(sizes, Len(sizes))
      Place(layer) == size - SizeOf(sizes, layer) + Above(index, layer)
      acc == FoldLeft(LAMBDA a, layer : IF Place(layer) % 2 = 1
                                        THEN Digest(a, prf[layer])
                                        ELSE Digest(prf[layer], a),
                      data, [layer \in 1 .. Len(prf) |-> layer])
  IN  /\ index < leaf_size
      /\ Len(sizes) = Len(prf) + 1
      /\ acc = rt
=============================================================================
