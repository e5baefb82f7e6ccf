--------------------------- MODULE MCStorageTools ---------------------------
(* StorageTools for TLC: contents sent in one frame, and one in several. *)
EXTENDS StorageTools, TLC

CONSTANTS Long  \* frames of the content "big"

FrameCount == [c \in Names |-> IF c = "big" THEN Long ELSE 1]
CallAndPathSymmetry == Permutations(Calls) \cup Permutations(Paths)
=============================================================================
