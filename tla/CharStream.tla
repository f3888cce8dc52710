------------------------------ MODULE CharStream ------------------------------
(***************************************************************************)
(* impl/char/CharStream and utf8/U8Decoder: decodes the lines of a source  *)
(* into characters, keeps the position, hands out the text of tokens and   *)
(* calculates the hash of a signed document.                               *)
(*                                                                         *)
(* A byte is one of the kinds the code tells apart.  "at" stands for a     *)
(* whole @signature name and "bom" for the three bytes of a byte order     *)
(* mark; both count as one byte.  A "lead" byte needs one "tail" byte.     *)
(* The line buffer keeps what earlier lines left behind.                   *)
(*                                                                         *)
(* The source is the LineReader that StreamSource implements: it delivers  *)
(* the lines one by one, may fail, and may know with the last line that it *)
(* is the last one, or deliver an empty line behind it.                    *)
(***************************************************************************)
EXTENDS Naturals, FiniteSets, SequencesExt

CONSTANTS
  Documents,      \* the documents that may be read, sequences of lines
  MaxLineLength   \* limits::maxLineLength

Bytes == {"ascii", "at", "lead", "tail", "bom", "control", "newline"}

\* A source delivers no empty line but at the end, and none that is too long.
SourceLines == {text \in Seq(Bytes) : Len(text) \in 1..MaxLineLength}

ASSUME DocumentsAssumption == Documents \subseteq Seq(SourceLines)
ASSUME MaxLineAssumption == MaxLineLength \in Nat \ {0}

VARIABLES
  document,       \* the lines of the source
  linesRead,      \* how many of them were read
  sourceAtEnd,    \* _source->atEnd()
  line,           \* _line
  lineLength,     \* _lineLength
  currentIndex,   \* _lineCurrentIndex
  characterStart, \* _lineCharacterStartIndex
  captureStart,   \* _captureStartIndex
  position,       \* _position, <<line, column>>
  endOfData,      \* _endOfData
  hashEnabled,    \* _hashEnabled
  hashed,         \* the lines that were fed to _hash
  lastRead,       \* the kind of the character that next() returned last
  thrown          \* next() has thrown

vars == <<document, linesRead, sourceAtEnd, line, lineLength, currentIndex,
          characterStart, captureStart, position, endOfData, hashEnabled,
          hashed, lastRead, thrown>>

lineVars == <<document, linesRead, sourceAtEnd, line, lineLength, hashEnabled, hashed>>

EmptyBuffer == [i \in 0 .. MaxLineLength |-> "zero"]

TypeOK ==
  /\ document \in Seq(SourceLines)
  /\ linesRead \in 0 .. Len(document)
  /\ {sourceAtEnd, endOfData, hashEnabled, thrown} \subseteq BOOLEAN
  /\ line \in [0 .. MaxLineLength -> Bytes \cup {"zero"}]
  /\ {lineLength, characterStart, captureStart} \subseteq 0 .. MaxLineLength
  /\ currentIndex \in 0 .. MaxLineLength + 1
  /\ position \in Nat \X Nat
  /\ hashed \subseteq DOMAIN document
  /\ lastRead \in {"none", "ascii", "at", "two", "newline", "end"}

\* The signer enables the hash before it reads the first character.
Init ==
  /\ document \in Documents
  /\ linesRead = 0
  /\ sourceAtEnd = FALSE
  /\ line = EmptyBuffer
  /\ lineLength = 0
  /\ currentIndex = 0
  /\ characterStart = 0
  /\ captureStart = 0
  /\ position = <<0, 1>>
  /\ endOfData = FALSE
  /\ hashEnabled \in BOOLEAN
  /\ hashed = {}
  /\ lastRead = "none"
  /\ thrown = FALSE

-----------------------------------------------------------------------------

Undefined(pos) == pos[1] = 0

NextLine(pos) == <<pos[1] + 1, 1>>
NextColumn(pos) == <<pos[1], pos[2] + 1>>

\* isSignatureLine: a byte order mark in front of the name is skipped.
IsSignatureLine(text) ==
  \/ Len(text) >= 1 /\ text[1] = "at"
  \/ Len(text) >= 2 /\ text[1] = "bom" /\ text[2] = "at"

\* Mutant: the second byte of a character is not verified.
DecodedUnverified(buffer, i) ==
  IF buffer[i] = "lead" THEN "two" ELSE IF buffer[i] = "tail" THEN "ascii" ELSE buffer[i]

\* U8Decoder::decodeChar on the whole line buffer: the kind of the character at
\* an index, and the index behind it.
Decoded(buffer, i) ==
  CASE buffer[i] = "lead" ->
         IF i < MaxLineLength /\ buffer[i + 1] = "tail" THEN "two" ELSE "encoding"
    [] buffer[i] = "tail" -> "encoding"
    [] OTHER -> buffer[i]

Behind(buffer, i) == IF Decoded(buffer, i) = "two" THEN i + 2 ELSE i + 1

\* The position moves on before the character is decoded.
DecodeAt(buffer, i, pos) ==
  /\ characterStart' = i
  /\ position' = pos
  /\ CASE Decoded(buffer, i) = "encoding" ->
            /\ thrown' = TRUE
            /\ currentIndex' = i
            /\ UNCHANGED lastRead
       [] Decoded(buffer, i) \in {"bom", "control", "zero"} ->
            /\ thrown' = TRUE
            /\ currentIndex' = Behind(buffer, i)
            /\ UNCHANGED lastRead
       [] OTHER ->
            /\ lastRead' = Decoded(buffer, i)
            /\ currentIndex' = Behind(buffer, i)
            /\ UNCHANGED thrown
  /\ UNCHANGED endOfData

\* createEndOfData
CreateEndOfData ==
  /\ endOfData' = TRUE
  /\ position' = IF Undefined(position) THEN <<1, 1>> ELSE NextColumn(position)
  /\ lastRead' = "end"
  /\ UNCHANGED thrown

\* next(), when the line holds another character
NextInLine ==
  /\ ~thrown /\ ~endOfData
  /\ currentIndex # lineLength
  /\ DecodeAt(line, currentIndex, NextColumn(position))
  /\ UNCHANGED <<lineVars, captureStart>>

\* next(), when the source reported its end with the last line
NextAtEnd ==
  /\ ~thrown /\ ~endOfData
  /\ currentIndex = lineLength
  /\ sourceAtEnd
  /\ characterStart' = lineLength
  /\ CreateEndOfData
  /\ UNCHANGED <<lineVars, currentIndex, captureStart>>

\* A byte order mark at the beginning of the document is skipped: the position
\* is reset and next() called again.  If the mark is all there is, that call
\* finds the end of the line and is one of the other actions.
DecodeFirst(buffer, length) ==
  IF Undefined(position) /\ buffer[0] = "bom"
  THEN IF length > 1 THEN DecodeAt(buffer, 1, NextColumn(<<1, 1>>))
       ELSE /\ currentIndex' = 1
            /\ characterStart' = 0
            /\ position' = <<1, 1>>
            /\ UNCHANGED <<lastRead, thrown, endOfData>>
  ELSE DecodeAt(buffer, 0, NextLine(position))

\* Mutant: a signature in any line is left out of the hash.
ReadNextLineSkipsSignature(text) ==
  /\ line' = [i \in 0 .. MaxLineLength |-> IF i < Len(text) THEN text[i + 1] ELSE line[i]]
  /\ lineLength' = Len(text)
  /\ captureStart' = 0
  /\ IF IsSignatureLine(text)
     THEN hashEnabled' = TRUE /\ UNCHANGED hashed
     ELSE /\ hashed' = IF hashEnabled THEN hashed \cup {linesRead + 1} ELSE hashed
          /\ UNCHANGED hashEnabled

\* readNextLine: the hash covers every line behind the signature line.
ReadNextLine(text) ==
  /\ line' = [i \in 0 .. MaxLineLength |-> IF i < Len(text) THEN text[i + 1] ELSE line[i]]
  /\ lineLength' = Len(text)
  /\ captureStart' = 0
  /\ IF position[1] = 0 /\ IsSignatureLine(text)
     THEN hashEnabled' = TRUE /\ UNCHANGED hashed
     ELSE /\ hashed' = IF hashEnabled THEN hashed \cup {linesRead + 1} ELSE hashed
          /\ UNCHANGED hashEnabled

\* next(), when a line has to be read
NextOnNewLine ==
  /\ ~thrown /\ ~endOfData
  /\ currentIndex = lineLength
  /\ ~sourceAtEnd
  /\ linesRead < Len(document)
  /\ linesRead' = linesRead + 1
  /\ sourceAtEnd' \in {FALSE, linesRead' = Len(document)}
  /\ ReadNextLine(document[linesRead'])
  /\ DecodeFirst(line', lineLength')
  /\ UNCHANGED document

\* next(), when the source has no more data: it delivers an empty line.
NextOnEmptyLine ==
  /\ ~thrown /\ ~endOfData
  /\ currentIndex = lineLength
  /\ ~sourceAtEnd
  /\ linesRead = Len(document)
  /\ sourceAtEnd' = TRUE
  /\ lineLength' = 0
  /\ currentIndex' = 0
  /\ characterStart' = 0
  /\ captureStart' = 0
  /\ CreateEndOfData
  /\ UNCHANGED <<document, linesRead, line, hashEnabled, hashed>>

\* next(), when reading the line fails
NextFails ==
  /\ ~thrown /\ ~endOfData
  /\ currentIndex = lineLength
  /\ ~sourceAtEnd
  /\ thrown' = TRUE
  /\ UNCHANGED <<lineVars, currentIndex, characterStart, captureStart, position,
                 endOfData, lastRead>>

\* captureTo: the text in front of a character that was read
CaptureTo ==
  /\ captureStart' \in captureStart + 1 .. characterStart
  /\ UNCHANGED <<lineVars, currentIndex, characterStart, position, endOfData,
                 lastRead, thrown>>

\* captureToEndOfLine, at the newline or the end of the data
CaptureToEndOfLine ==
  /\ lastRead \in {"newline", "end"}
  /\ captureStart' = lineLength
  /\ UNCHANGED <<lineVars, currentIndex, characterStart, position, endOfData,
                 lastRead, thrown>>

Next ==
  \/ NextInLine
  \/ NextAtEnd
  \/ NextOnNewLine
  \/ NextOnEmptyLine
  \/ NextFails
  \/ CaptureTo
  \/ CaptureToEndOfLine

Spec == Init /\ [][Next]_vars

-----------------------------------------------------------------------------
\* Properties

\* The hash covers exactly the lines that were read, without the signature line
\* if that is the first one, and a signed document is always hashed.
HashCoversContent ==
  LET signed == linesRead > 0 /\ IsSignatureLine(document[1]) IN
    /\ signed => hashEnabled
    /\ hashed = IF hashEnabled THEN (1 .. linesRead) \ (IF signed THEN {1} ELSE {})
                ELSE {}

\* Every byte of a line has its place in a valid character.
IsValid(text) ==
  \A i \in DOMAIN text :
    /\ text[i] # "control"
    /\ text[i] = "lead" => i < Len(text) /\ text[i + 1] = "tail"
    /\ text[i] = "tail" => i > 1 /\ text[i - 1] = "lead"

\* No document gets to its end with an encoding error or a control character in
\* it, not even one that was hidden by the bytes an earlier line left behind.
EndMeansValid ==
  endOfData => linesRead = Len(document) /\ \A n \in 1 .. linesRead : IsValid(document[n])

\* The number of characters that begin in the first n bytes of a line.
CharactersIn(text, n) ==
  Cardinality({i \in DOMAIN text : i <= n /\ text[i] # "tail"})

\* The position that error messages report is the line and the number of the
\* character in it; the end of the data is one column behind the last one.
PositionIsOfCharacter ==
  ~thrown /\ linesRead > 0 /\ currentIndex <= lineLength =>
    LET text == document[linesRead] IN
      position = <<linesRead, IF endOfData THEN CharactersIn(text, Len(text)) + 1
                              ELSE CharactersIn(text, characterStart + 1)>>

\* CharStream.hpp: it "decodes and verifies the UTF-8 input": a character that is
\* cut off by the end of the line is not returned.
CutOffIsNotReturned == ~thrown => currentIndex <= lineLength
=============================================================================
