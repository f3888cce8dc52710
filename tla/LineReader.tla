------------------------------ MODULE LineReader ------------------------------
(***************************************************************************)
(* What Source.hpp promises to the character decoder: the data comes line  *)
(* by line, each line with its newline, nothing is lost, repeated or torn  *)
(* apart, and reading stops at the end of the data or with an error.       *)
(*                                                                         *)
(* The data that was not delivered yet may change at any time, as a file   *)
(* may be written while it is read.                                        *)
(***************************************************************************)
EXTENDS Naturals, SequencesExt

CONSTANT MaxLineLength  \* limits::maxLineLength

VARIABLES
  content,    \* the data of the source, a sequence of "byte" and "newline"
  delivered,  \* how much of it the caller got
  status      \* "reading", "end", "closed", "IO" or "LimitExceeded"

vars == <<content, delivered, status>>

\* The next line ends at its newline, or with the data.
IsLineEnd(end) ==
  /\ end \in delivered + 1 .. Len(content)
  /\ \A i \in delivered + 1 .. end - 1 : content[i] # "newline"
  /\ end = Len(content) \/ content[end] = "newline"

Init == delivered = 0 /\ status = "reading"

\* A line that is not too long is delivered.  The end of the data may be known
\* at the same time.
DeliverLine ==
  /\ status = "reading"
  /\ IsLineEnd(delivered')
  /\ delivered' <= delivered + MaxLineLength
  /\ status' = "reading" \/ (status' = "end" /\ delivered' = Len(content))
  /\ UNCHANGED content

\* There is nothing more to deliver.
DeliverEnd ==
  /\ status = "reading"
  /\ delivered = Len(content)
  /\ status' = "end"
  /\ UNCHANGED <<content, delivered>>

\* A longer line is refused.
RefuseLine ==
  /\ status = "reading"
  /\ \A i \in delivered + 1 .. delivered + MaxLineLength :
       i <= Len(content) /\ content[i] # "newline"
  /\ Len(content) > delivered + MaxLineLength
  /\ status' = "LimitExceeded"
  /\ UNCHANGED <<content, delivered>>

\* The caller closes the source, or something goes wrong.
Stop ==
  /\ status \in {"reading", "closed"}
  /\ status' \in {"IO", "closed"}
  /\ UNCHANGED <<content, delivered>>

ContentChanges ==
  /\ Len(content') >= delivered
  /\ SubSeq(content', 1, delivered) = SubSeq(content, 1, delivered)
  /\ UNCHANGED <<delivered, status>>

Next ==
  \/ DeliverLine
  \/ DeliverEnd
  \/ RefuseLine
  \/ Stop
  \/ ContentChanges

Spec == Init /\ [][Next]_vars
=============================================================================
