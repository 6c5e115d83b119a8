-------------------------------- MODULE SeqFolds -------------------------------
(***************************************************************************)
(* Sequences made of sequences, as folds.                                  *)
(***************************************************************************)
EXTENDS Naturals, Sequences, SequencesExt

(* All of them, one after the other.                                       *)
Concat(seqs) == FoldLeft(LAMBDA s, t : s \o t, <<>>, seqs)

(* The elements that are in S, in their order.                             *)
Kept(seq, S) == FoldLeft(LAMBDA kept, x : IF x \in S THEN Append(kept, x) ELSE kept, <<>>, seq)
=============================================================================
