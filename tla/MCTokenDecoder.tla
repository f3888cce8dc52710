---------------------------- MODULE MCTokenDecoder ----------------------------
(***************************************************************************)
(* Model checking TokenDecoder with every document of up to four           *)
(* characters: two lines, a line end after a carriage return and an error  *)
(* in the middle of a line all occur.                                      *)
(***************************************************************************)
EXTENDS TokenDecoder

CONSTANT MaxLength  \* bound on the length of the documents

MCDocuments == SeqOf(Kinds, MaxLength)
=============================================================================
