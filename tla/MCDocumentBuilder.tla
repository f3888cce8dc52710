-------------------------- MODULE MCDocumentBuilder --------------------------
(***************************************************************************)
(* Model checking DocumentBuilder with one name of each kind and a second  *)
(* regular one: enough for siblings, for a list inside of a list and for   *)
(* the mixing of text names and regular names on every level.              *)
(***************************************************************************)
EXTENDS DocumentBuilder

CONSTANTS a, b, meta, text  \* the names

MCRegularNames == {a, b, meta}
=============================================================================
