-------------------------- MODULE MCFastNameDecoder --------------------------
(***************************************************************************)
(* Model checking FastNameDecoder with every buffer of up to five bytes.   *)
(***************************************************************************)
EXTENDS FastNameDecoder

CONSTANT MaxLength  \* bound on the size of the buffers

MCBuffers == SeqOf(Bytes, MaxLength)
=============================================================================
