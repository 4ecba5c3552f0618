------------------------------ MODULE Folding -------------------------------
(***************************************************************************)
(* FoldLeft and FlattenSeq of SequencesExt for sequences of hundreds of    *)
(* instructions: the sequence is cut in halves, so that TLC's evaluation   *)
(* nests as deep as the logarithm of its length.                           *)
(***************************************************************************)
EXTENDS Integers, Sequences

\* op(v), with v evaluated first: the set binds its value.
Eager(v, op(_)) == CHOOSE r \in {op(x) : x \in {v}} : TRUE

\* op(v), with v written once.
Given(v, op(_)) == op(v)

\* op of what a result holds; an empty result stays empty.
Then(result, op(_)) == IF result = <<>> THEN <<>> ELSE op(result[1])

FoldHalves(op(_, _), base, seq) ==
  LET RECURSIVE Fold(_, _, _)
      Fold(acc, lo, hi) ==
        IF lo = hi THEN op(acc, seq[lo])
        ELSE CHOOSE r \in {Fold(left, (lo + hi) \div 2 + 1, hi) :
                             left \in {Fold(acc, lo, (lo + hi) \div 2)}} : TRUE
  IN IF seq = <<>> THEN base ELSE Fold(base, 1, Len(seq))

Flatten(seqs) == FoldHalves(LAMBDA acc, s : acc \o s, <<>>, seqs)

=============================================================================
