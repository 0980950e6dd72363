------------------------------ MODULE Selection ------------------------------
(***************************************************************************)
(* The part of a sequence that a loop with a condition keeps (Rust's       *)
(* filter and filter_map).  What is kept is given by its positions, a set, *)
(* where SelectSeq takes a test: what a set keeps can be proved for every  *)
(* sequence (SequenceLemmas).                                              *)
(***************************************************************************)
EXTENDS Integers, Sequences

\* The elements of s at the positions in I, in order.
Keep(s, I) ==
  LET kept[k \in 0 .. Len(s)] ==
        IF k = 0 THEN <<>> ELSE IF k \in I THEN Append(kept[k - 1], s[k]) ELSE kept[k - 1]
  IN kept[Len(s)]
=============================================================================
