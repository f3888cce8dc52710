------------------------------- MODULE MCParser -------------------------------
(***************************************************************************)
(* Model checking Parser with four sources and a nesting limit of three:   *)
(* one source more than can be nested, so that the limit and not the loop  *)
(* detection has to stop the deepest include.  The resolver returns no     *)
(* source, one or two sources, the root and duplicates among them.         *)
(***************************************************************************)
EXTENDS Parser

CONSTANTS
  a, b, c,  \* the sources that can be included
  x, y      \* the signatures

MCSources == {RootSource, a, b, c}
MCSignatureTexts == {x, y}
MCIncludeLists ==
  {<<>>, <<a>>, <<c>>, <<a, b>>, <<b, b>>, <<b, RootSource>>}
=============================================================================
