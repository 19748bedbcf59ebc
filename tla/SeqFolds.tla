------------------------------ MODULE SeqFolds ------------------------------
(***************************************************************************)
(* What the modules compute over whole sequences, as folds, which can be    *)
(* proved about (module SeqFoldsProofs).                                    *)
(***************************************************************************)
EXTENDS Integers, SequencesExt

(* The length of what is laid out one after the other: the pairs of a       *)
(* block, the tokens of a comment, the headers of a central directory.      *)
Total(lens) == FoldLeft(LAMBDA n, len : n + len, 0, lens)

(* The elements of a sequence that are in a set, in their order.            *)
Kept(s, S) == FoldLeft(LAMBDA kept, x : IF x \in S THEN Append(kept, x) ELSE kept, <<>>, s)
=============================================================================
