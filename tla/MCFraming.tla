----------------------------- MODULE MCFraming -----------------------------
(* Framing for TLC: two-bit bytes.  The payloads are empty, look like a length, *)
(* need a length of two bytes, are too large, and need too long a length.       *)
EXTENDS Framing

SmallPayloads == {<<>>, <<1>>, <<3, 2>>, <<2, 3, 0>>, <<1, 0, 3, 1>>}
=============================================================================
