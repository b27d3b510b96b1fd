------------------------------- MODULE SeqOps -------------------------------
(***************************************************************************)
(* The operators on sequences that the specifications with proofs use: the *)
(* ones of the community module SequencesExt, under its names, and only    *)
(* those.  SequencesExt brings the whole of Bags into the context of every *)
(* proof obligation, which makes each of them about ten times as slow.     *)
(***************************************************************************)
EXTENDS Naturals, Sequences, FiniteSets, FiniteSetsExt, Functions

\* The elements of the sequence s.
ToSet(s) == {s[i] : i \in DOMAIN s}

\* Whether e is an element of s.
Contains(s, e) == \E i \in 1 .. Len(s) : s[i] = e

\* The sequences of at most n elements of the set S.
SeqOf(S, n) == UNION {[1 .. m -> S] : m \in 0 .. n}

\* The sequences that list each element of the finite set S once, and one of them.
SetToSeqs(S) == {f \in [1 .. Cardinality(S) -> S] : \A i, j \in 1 .. Cardinality(S) : i # j => f[i] # f[j]}
SetToSeq(S) == CHOOSE f \in [1 .. Cardinality(S) -> S] : IsInjective(f)

\* The last element of s, s without it, and s without its i-th element.
Last(s) == s[Len(s)]
Front(s) == SubSeq(s, 1, Len(s) - 1)
RemoveAt(s, i) == SubSeq(s, 1, i - 1) \o SubSeq(s, i + 1, Len(s))

\* s from its last element to its first.
Reverse(s) == [i \in 1 .. Len(s) |-> s[(Len(s) - i) + 1]]

\* op(... op(op(base, seq[1]), seq[2]) ..., seq[n]).
FoldLeft(op(_, _), base, seq) ==
  LET acc[i \in 0 .. Len(seq)] == IF i = 0 THEN base ELSE op(acc[i - 1], seq[i])
  IN  acc[Len(seq)]

\* The concatenation of the sequences of the sequence seqs.
FlattenSeq(seqs) == FoldLeft(LAMBDA acc, s : acc \o s, <<>>, seqs)
=============================================================================
