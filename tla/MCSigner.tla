------------------------------- MODULE MCSigner -------------------------------
(***************************************************************************)
(* Model checking Signer with two texts, the empty one and an invalid one: *)
(* the source can be replaced by another valid text and back.              *)
(***************************************************************************)
EXTENDS Signer

CONSTANTS text1, text2  \* two valid texts

MCBodies == {NoText, Invalid, text1, text2}
=============================================================================
