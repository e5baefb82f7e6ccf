--------------------------- MODULE MCFlipperLink ---------------------------
(* FlipperLink for TLC: the tool calls are interchangeable. *)
EXTENDS FlipperLink, TLC

TaskSymmetry == Permutations(Tasks)
=============================================================================
