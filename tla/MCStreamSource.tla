---------------------------- MODULE MCStreamSource ----------------------------
(***************************************************************************)
(* Model checking StreamSource with every content of up to seven bytes,    *)
(* lines of at most two bytes and a buffer of three: lines end before, at  *)
(* and behind the end of a block, and the content needs three blocks.      *)
(***************************************************************************)
EXTENDS StreamSource

CONSTANT MaxLength  \* bound on the size of the content

MCContents == SeqOf({"byte", "newline"}, MaxLength)
=============================================================================
