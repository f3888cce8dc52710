--------------------------- MODULE FastNameDecoder ---------------------------
(***************************************************************************)
(* impl/decoder/FastNameDecoder.hpp: the decoder for name paths.  It reads *)
(* a UTF-8 buffer in memory and implements the same transactions as        *)
(* TokenDecoder with two byte indexes instead of buffers.                  *)
(*                                                                         *)
(* Only the encoding of the bytes matters: "ascii" stands for itself, a    *)
(* "lead" byte needs one "tail" byte, everything else is an encoding       *)
(* error.  Byte indexes start at zero as in the code.                      *)
(***************************************************************************)
EXTENDS Naturals, FiniteSets, SequencesExt

CONSTANTS
  Buffers,         \* the name paths that may be decoded, sequences of Bytes
  MaxTransactions  \* bound on the nesting of transactions

Bytes == {"ascii", "lead", "tail"}

ASSUME BuffersAssumption == Buffers \subseteq Seq(Bytes)
ASSUME MaxTransactionsAssumption == MaxTransactions \in Nat

VARIABLES
  buffer,       \* _buffer
  currentChar,  \* _currentChar: the index it was decoded at
  charIndex,    \* _charIndex
  readIndex,    \* _readIndex
  transactions, \* the start indexes of the open _transactions
  thrown        \* an encoding error was thrown

decoderVars == <<buffer, currentChar, charIndex, readIndex, transactions, thrown>>

Size == Len(buffer)

Byte(i) == IF i < Size THEN buffer[i + 1] ELSE "none"

\* U8Decoder::decodeChar succeeds at index i.
Decodable(i) ==
  \/ i >= Size
  \/ Byte(i) = "ascii"
  \/ Byte(i) = "lead" /\ Byte(i + 1) = "tail"

\* The index behind the character at index i, which has to be decodable.
Behind(i) == IF i >= Size THEN i ELSE IF Byte(i) = "lead" THEN i + 2 ELSE i + 1

DecoderTypeOK ==
  /\ buffer \in Buffers
  /\ currentChar \in 0 .. Size
  /\ charIndex \in 0 .. Size
  /\ readIndex \in 0 .. Size
  /\ transactions \in Seq(0 .. Size)
  /\ thrown \in BOOLEAN

\* initialize() either decodes the first character or throws.
InitDecoder ==
  /\ buffer \in Buffers
  /\ currentChar = 0
  /\ charIndex = 0
  /\ readIndex = IF Decodable(0) THEN Behind(0) ELSE 0
  /\ transactions = <<>>
  /\ thrown = ~Decodable(0)

\* FastNameDecoder::next: the index moves before the character is decoded.
NextChar ==
  /\ ~thrown
  /\ charIndex' = readIndex
  /\ IF Decodable(readIndex)
     THEN /\ currentChar' = readIndex
          /\ readIndex' = Behind(readIndex)
          /\ UNCHANGED thrown
     ELSE thrown' = TRUE /\ UNCHANGED <<currentChar, readIndex>>
  /\ UNCHANGED <<buffer, transactions>>

\* Mutant: the transaction starts at the read index.
StartAtReadIndex ==
  /\ ~thrown
  /\ Len(transactions) < MaxTransactions
  /\ transactions' = Append(transactions, readIndex)
  /\ UNCHANGED <<buffer, currentChar, charIndex, readIndex, thrown>>

\* startTransaction
StartTransaction ==
  /\ ~thrown
  /\ Len(transactions) < MaxTransactions
  /\ transactions' = Append(transactions, charIndex)
  /\ UNCHANGED <<buffer, currentChar, charIndex, readIndex, thrown>>

\* Mutant: the outermost transaction is closed instead of the innermost one.
CommitOutermost ==
  /\ ~thrown
  /\ transactions # <<>>
  /\ transactions' = Tail(transactions)
  /\ UNCHANGED <<buffer, currentChar, charIndex, readIndex, thrown>>

\* commitTransaction
CommitTransaction ==
  /\ ~thrown
  /\ transactions # <<>>
  /\ transactions' = Front(transactions)
  /\ UNCHANGED <<buffer, currentChar, charIndex, readIndex, thrown>>

\* rollbackTransaction is noexcept: see RollbackDecodes.
RollbackTransaction ==
  /\ transactions # <<>>
  /\ charIndex' = Last(transactions)
  /\ currentChar' = Last(transactions)
  /\ readIndex' = Behind(Last(transactions))
  /\ transactions' = Front(transactions)
  /\ UNCHANGED <<buffer, thrown>>

\* A scanner throws: only the destructors of the transactions run from now on.
ThrowError ==
  /\ ~thrown
  /\ thrown' = TRUE
  /\ UNCHANGED <<buffer, currentChar, charIndex, readIndex, transactions>>

NextDecoder ==
  \/ NextChar
  \/ StartTransaction
  \/ CommitTransaction
  \/ RollbackTransaction
  \/ ThrowError

SpecDecoder == InitDecoder /\ [][NextDecoder]_decoderVars

-----------------------------------------------------------------------------
\* Properties

\* The current character is the one at the current index, and the read index is
\* behind it, whatever was rolled back.
IndexesAgree ==
  ~thrown =>
    /\ currentChar = charIndex
    /\ Decodable(charIndex)
    /\ readIndex = Behind(charIndex)

\* A rollback decodes without an error, so the noexcept function never
\* terminates the program, also when it runs because an error was thrown.
RollbackDecodes == \A i \in DOMAIN transactions : Decodable(transactions[i])

\* The number of characters in front of a byte index.
CharactersBefore(index) ==
  Cardinality({i \in 1 .. index : buffer[i] # "tail"})

\* Decoding with transactions is a cursor with backtracking.
Cursor == INSTANCE BacktrackCursor WITH
  pos <- CharactersBefore(charIndex),
  marks <- [i \in DOMAIN transactions |-> CharactersBefore(transactions[i])]

ImplementsCursor == Cursor!Init /\ [][Cursor!Next]_(Cursor!vars)
=============================================================================
