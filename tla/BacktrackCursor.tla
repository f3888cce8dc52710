--------------------------- MODULE BacktrackCursor ---------------------------
(***************************************************************************)
(* What the lexer is promised by a decoder with transactions               *)
(* (impl/decoder/TransactionHandler.hpp): a cursor that moves forward one  *)
(* character at a time, a stack of remembered positions, and a rollback    *)
(* that puts the cursor exactly where the innermost transaction began.     *)
(* TokenDecoder and FastNameDecoder are two implementations of it.         *)
(***************************************************************************)
EXTENDS Naturals, SequencesExt

VARIABLES
  pos,   \* the position of the current character
  marks  \* where the open transactions began, the outermost one first

vars == <<pos, marks>>

TypeOK == pos \in Nat /\ marks \in Seq(Nat)

Init == pos = 0 /\ marks = <<>>

\* The next character becomes the current one.
Advance == pos' = pos + 1 /\ UNCHANGED marks

\* A transaction remembers the position where it starts.
Begin == marks' = Append(marks, pos) /\ UNCHANGED pos

\* A committed transaction hands what it captured to the enclosing one.
Commit ==
  /\ marks # <<>>
  /\ marks' = Front(marks)
  /\ UNCHANGED pos

\* A rolled back transaction restores the position of its start.
Rollback ==
  /\ marks # <<>>
  /\ pos' = Last(marks)
  /\ marks' = Front(marks)

Next == Advance \/ Begin \/ Commit \/ Rollback

Spec == Init /\ [][Next]_vars
=============================================================================
