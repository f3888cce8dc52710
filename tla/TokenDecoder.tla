----------------------------- MODULE TokenDecoder -----------------------------
(***************************************************************************)
(* impl/decoder/TokenDecoder: the character source of the lexer, with      *)
(* nested transactions for backtracking, delayed encoding errors and the   *)
(* capture of the raw text of a token.                                     *)
(*                                                                         *)
(* A decoded character is represented by its index in the document; Kind   *)
(* tells what the decoder distinguishes about it.  The document is chosen  *)
(* at the start and read through CharStream, of which only the order of    *)
(* the characters, the line that is loaded and its failures matter here.   *)
(*                                                                         *)
(* The lexer is the environment: it may call the operations in any order   *)
(* that its scanners could use, until something is thrown.  Then the C++   *)
(* stack is unwound and every open Transaction object is rolled back by    *)
(* its destructor.                                                         *)
(***************************************************************************)
EXTENDS Naturals, SequencesExt

CONSTANTS
  Documents,       \* the documents that may be read, sequences of Kinds
  MaxTransactions  \* bound on the nesting of transactions

Kinds == {"char", "return", "break", "bad"}

ASSUME DocumentsAssumption == Documents \subseteq Seq(Kinds)
ASSUME MaxTransactionsAssumption == MaxTransactions \in Nat

VARIABLES
  document,          \* the characters of the source
  streamPos,         \* index of the last character read from _decoder
  current,           \* _currentCharacter
  characterBuffer,   \* _characterBuffer, a stack: the last one is read next
  transactionBuffer, \* _transactionBuffer
  transactions,      \* the start indexes of the open _transactions
  hasUpcomingError,  \* _hasUpcomingError
  captureStart,      \* start of the text that was not captured by a token yet
  thrown             \* what ended the use of the decoder, or "none"

vars == <<document, streamPos, current, characterBuffer, transactionBuffer,
          transactions, hasUpcomingError, captureStart, thrown>>

-----------------------------------------------------------------------------

\* What the decoder tells apart: index 0 is the initial end-of-data mark of a
\* new decoder, and there is nothing but end-of-data behind the document.
Kind(i) == IF i \in DOMAIN document THEN document[i] ELSE "end"

LineBreakOrEnd(i) == Kind(i) \in {"return", "break", "end"}

\* A new line is read from the source for the first character and for each
\* character that follows a newline.
StreamReadsLine == streamPos = 0 \/ Kind(streamPos) = "break"

\* Once at the end, CharStream.next() keeps returning end-of-data.
NextInStream == IF streamPos = Len(document) + 1 THEN streamPos ELSE streamPos + 1

Outcomes == {"none", "internal", "logic", "io", "delayed", "syntax", "capture"}

\* From the initial mark to the end-of-data mark.
Positions == 0 .. Len(document) + 1

TypeOK ==
  /\ document \in Documents
  /\ streamPos \in Positions
  /\ current \in Positions
  /\ characterBuffer \in Seq(Positions)
  /\ transactionBuffer \in Seq(Positions)
  /\ transactions \in Seq(Nat)
  /\ hasUpcomingError \in BOOLEAN
  /\ captureStart \in Positions
  /\ thrown \in Outcomes

Init ==
  /\ document \in Documents
  /\ streamPos = 0
  /\ current = 0
  /\ characterBuffer = <<>>
  /\ transactionBuffer = <<>>
  /\ transactions = <<>>
  /\ hasUpcomingError = FALSE
  /\ captureStart = 1
  /\ thrown = "none"

-----------------------------------------------------------------------------

\* An open transaction records the current character before it is replaced.
RecordCurrent ==
  transactionBuffer' =
    IF transactions = <<>> THEN transactionBuffer
    ELSE Append(transactionBuffer, current)

\* Mutant: a delayed error is only flagged outside of transactions.
NextFromStreamFlagsLate ==
  /\ characterBuffer = <<>>
  /\ RecordCurrent
  /\ streamPos' = NextInStream
  /\ current' = NextInStream
  /\ hasUpcomingError' =
       (hasUpcomingError \/ (transactions = <<>> /\ Kind(NextInStream) = "bad"))
  /\ UNCHANGED <<characterBuffer, thrown>>

\* The character comes from CharStream.  An encoding or character error does
\* not throw: the error mark becomes the current character.
NextFromStream ==
  /\ characterBuffer = <<>>
  /\ RecordCurrent
  /\ streamPos' = NextInStream
  /\ current' = NextInStream
  /\ hasUpcomingError' = (hasUpcomingError \/ Kind(NextInStream) = "bad")
  /\ UNCHANGED <<characterBuffer, thrown>>

\* Reading the next line failed: IO errors are thrown right away, after the
\* current character was recorded.
NextFailsInSource ==
  /\ characterBuffer = <<>>
  /\ StreamReadsLine
  /\ RecordCurrent
  /\ thrown' = "io"
  /\ UNCHANGED <<streamPos, current, characterBuffer, hasUpcomingError>>

\* The character was put back by a rollback and is read again.
NextFromBuffer ==
  /\ characterBuffer # <<>>
  /\ RecordCurrent
  /\ current' = Last(characterBuffer)
  /\ characterBuffer' = Front(characterBuffer)
  /\ UNCHANGED <<streamPos, hasUpcomingError, thrown>>

\* A transaction must not cross the end of a line.  The error is raised by
\* throwInternalError inside the try block: with a delayed error pending, that
\* one is thrown instead, and caught and delayed again.
NextAcrossLineEnd ==
  /\ IF hasUpcomingError
     THEN current' = streamPos /\ UNCHANGED thrown
     ELSE thrown' = "internal" /\ UNCHANGED current
  /\ UNCHANGED <<streamPos, characterBuffer, transactionBuffer, hasUpcomingError>>

\* The error mark has to be handled before the next character is requested.
NextAfterError ==
  /\ thrown' = "logic"
  /\ UNCHANGED <<streamPos, current, characterBuffer, transactionBuffer,
                 hasUpcomingError>>

\* Mutant: the error mark is skipped like any other character.
NextCharSkipsError ==
  /\ thrown = "none"
  /\ \/ transactions # <<>> /\ LineBreakOrEnd(current) /\ NextAcrossLineEnd
     \/ /\ transactions = <<>> \/ ~LineBreakOrEnd(current)
        /\ NextFromStream \/ NextFailsInSource \/ NextFromBuffer
  /\ UNCHANGED <<document, transactions>>

\* TokenDecoder::next
NextChar ==
  /\ thrown = "none"
  /\ \/ Kind(current) = "bad" /\ NextAfterError
     \/ /\ Kind(current) # "bad"
        /\ transactions # <<>> /\ LineBreakOrEnd(current)
        /\ NextAcrossLineEnd
     \/ /\ Kind(current) # "bad"
        /\ transactions = <<>> \/ ~LineBreakOrEnd(current)
        /\ NextFromStream \/ NextFailsInSource \/ NextFromBuffer
  /\ UNCHANGED <<document, transactions>>

\* A scanner moves on.  Loading a line makes its text the one to be captured.
Advance ==
  /\ NextChar
  /\ captureStart' =
       IF StreamReadsLine /\ streamPos' # streamPos /\ Kind(streamPos') # "end"
       THEN streamPos' ELSE captureStart

\* The constructor of Transaction, once initialize() read the first character.
StartTransaction ==
  /\ thrown = "none"
  /\ current # 0
  /\ Len(transactions) < MaxTransactions
  /\ transactions' = Append(transactions, Len(transactionBuffer))
  /\ UNCHANGED <<document, streamPos, current, characterBuffer,
                 transactionBuffer, hasUpcomingError, captureStart, thrown>>

\* Mutant: a commit closes all transactions.
CommitClosesAll ==
  /\ thrown = "none"
  /\ transactions # <<>>
  /\ transactions' = <<>>
  /\ UNCHANGED <<document, streamPos, current, characterBuffer,
                 transactionBuffer, hasUpcomingError, captureStart, thrown>>

\* Transaction::commit: only the innermost transaction is removed, what it
\* recorded stays in the buffer.
CommitTransaction ==
  /\ thrown = "none"
  /\ transactions # <<>>
  /\ transactions' = Front(transactions)
  /\ UNCHANGED <<document, streamPos, current, characterBuffer,
                 transactionBuffer, hasUpcomingError, captureStart, thrown>>

\* The characters to be read again after a rollback, the first one first.
Replayed(start) ==
  Append(SubSeq(transactionBuffer, start + 1, Len(transactionBuffer)), current)

\* Mutant: the characters are put back in the order they were read.
RewindInOrder(start) ==
  /\ current' = Head(Replayed(start))
  /\ characterBuffer' = characterBuffer \o Tail(Replayed(start))
  /\ transactionBuffer' = SubSeq(transactionBuffer, 1, start)

\* What was recorded since the start moves to the characters to be read again.
RewindTo(start) ==
  /\ current' = Head(Replayed(start))
  /\ characterBuffer' = characterBuffer \o Reverse(Tail(Replayed(start)))
  /\ transactionBuffer' = SubSeq(transactionBuffer, 1, start)

\* Transaction::rollback and the destructor of an open Transaction, also while
\* the stack is unwound.
RollbackTransaction ==
  /\ transactions # <<>>
  /\ RewindTo(Last(transactions))
  /\ transactions' = Front(transactions)
  /\ UNCHANGED <<document, streamPos, hasUpcomingError, captureStart, thrown>>

\* Mutant: the scanner's own error is thrown first.
ThrowOwnError ==
  /\ thrown = "none"
  /\ current # 0
  /\ thrown' = "syntax"
  /\ UNCHANGED <<document, streamPos, current, characterBuffer,
                 transactionBuffer, transactions, hasUpcomingError,
                 captureStart>>

\* A scanner throws through Decoder::throwError, which lets a delayed error go
\* first.
ThrowError ==
  /\ thrown = "none"
  /\ current # 0
  /\ thrown' = IF hasUpcomingError THEN "delayed" ELSE "syntax"
  /\ UNCHANGED <<document, streamPos, current, characterBuffer,
                 transactionBuffer, transactions, hasUpcomingError,
                 captureStart>>

\* A scanner that has read all it can calls checkForErrorAndThrowIt.
CheckForErrorAndThrowIt ==
  /\ thrown = "none"
  /\ hasUpcomingError
  /\ thrown' = "delayed"
  /\ UNCHANGED <<document, streamPos, current, characterBuffer,
                 transactionBuffer, transactions, hasUpcomingError,
                 captureStart>>

\* TokenDecoder::createToken captures the text between the end of the previous
\* token and the current character; the scanners call it when their
\* transactions are closed.  CharStream refuses an empty text and a position
\* it has not read yet; at the end of the data it gives what is left.
CreateToken ==
  /\ thrown = "none"
  /\ current # 0
  /\ transactions = <<>>
  /\ IF Kind(current) = "end" \/ (captureStart < current /\ current <= streamPos)
     THEN captureStart' = current /\ UNCHANGED thrown
     ELSE thrown' = "capture" /\ UNCHANGED captureStart
  /\ UNCHANGED <<document, streamPos, current, characterBuffer,
                 transactionBuffer, transactions, hasUpcomingError>>

\* Mutant: the text of the line is not taken out of the capture.
EndOfLineTokenKeepsText ==
  /\ Kind(current) = "break"
  /\ transactions = <<>>
  /\ NextChar
  /\ UNCHANGED captureStart

\* TokenDecoder::createEndOfLineToken captures the rest of the line, with the
\* newline, and moves to the next line.
CreateEndOfLineToken ==
  /\ Kind(current) = "break"
  /\ transactions = <<>>
  /\ NextChar
  /\ captureStart' = current + 1

Next ==
  \/ Advance
  \/ StartTransaction
  \/ CommitTransaction
  \/ RollbackTransaction
  \/ ThrowError
  \/ CheckForErrorAndThrowIt
  \/ CreateToken
  \/ CreateEndOfLineToken

\* Stack unwinding always completes: once an error is thrown, the destructors
\* of the open transactions run.  Nothing obliges the lexer to do anything else.
Fairness == WF_vars(thrown # "none" /\ RollbackTransaction)

Spec == Init /\ [][Next]_vars /\ Fairness

-----------------------------------------------------------------------------
\* Properties

\* What an open transaction recorded is, character by character, the text that
\* precedes the current character, and that text never contains the end of a
\* line.  capturedString() relies on it.
RecordedIsWhatPrecedes ==
  thrown # "io" /\ transactions # <<>> =>
    \A i \in transactions[1] + 1 .. Len(transactionBuffer) :
      /\ transactionBuffer[i] + (Len(transactionBuffer) - i) + 1 = current
      /\ ~LineBreakOrEnd(transactionBuffer[i])

\* What rollbacks put back is the text between the current character and the
\* last one read from the stream: no character is lost, read twice or swapped,
\* and only the last one can end a line.
ReplayIsWhatFollows ==
  thrown # "io" =>
    /\ streamPos = current + Len(characterBuffer)
    /\ \A j \in DOMAIN characterBuffer :
         /\ characterBuffer[j] + j = streamPos + 1
         /\ j > 1 => ~LineBreakOrEnd(characterBuffer[j])
    /\ characterBuffer # <<>> => ~LineBreakOrEnd(current)

\* A delayed error is announced exactly while its mark is the last character
\* that was read: it is the current character or will be replayed.
UpcomingErrorIsAhead == hasUpcomingError <=> Kind(streamPos) = "bad"

\* The text that waits to be captured belongs to the line that the stream
\* holds, and it never starts behind the current character, nor behind a
\* position a rollback can return to.
CaptureStaysInLine ==
  thrown # "io" =>
    /\ current # 0 => captureStart <= current
    /\ \A i \in DOMAIN transactions :
         captureStart <= Head(Replayed(transactions[i]))
    /\ Kind(streamPos) # "end" =>
         \A i \in captureStart .. streamPos - 1 : Kind(i) # "break"

\* An error in the text in front of the lexer is reported by whatever stops the
\* lexer: no syntax or internal error takes its place.
DelayedErrorGoesFirst ==
  thrown \in {"syntax", "internal"} => ~hasUpcomingError

\* After CharStream has thrown an encoding error it is never polled again,
\* whatever is rolled back and read again.
NoReadBehindError == [][Kind(streamPos) = "bad" => UNCHANGED streamPos]_vars

\* Decoding with transactions is a cursor with backtracking.
Cursor == INSTANCE BacktrackCursor WITH
  pos <- current,
  marks <- [i \in DOMAIN transactions |-> Head(Replayed(transactions[i]))]

ImplementsCursor == Cursor!Init /\ [][Cursor!Next]_(Cursor!vars)

\* Every exception leaves the decoder without an open transaction.
UnwoundEventually == thrown # "none" ~> transactions = <<>>
=============================================================================
