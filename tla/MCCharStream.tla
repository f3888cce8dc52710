----------------------------- MODULE MCCharStream -----------------------------
(***************************************************************************)
(* Model checking CharStream with every document of up to two lines that   *)
(* have up to three bytes.  The second line may be shorter than the first  *)
(* one, which then shows in the line buffer.                               *)
(***************************************************************************)
EXTENDS CharStream

Texts(length) == SeqOf(Bytes \ {"newline"}, length)
Lines == {Append(text, "newline") : text \in Texts(MaxLineLength - 1)}
LastLines == Lines \cup (Texts(MaxLineLength) \ {<<>>})

MCDocuments ==
  {<<>>} \cup {<<last>> : last \in LastLines}
         \cup {<<first, last>> : first \in Lines, last \in LastLines}
=============================================================================
