----------------------------- MODULE StreamSource -----------------------------
(***************************************************************************)
(* impl/source/StreamSource: reads a stream block by block into a buffer   *)
(* of fixed size and hands it out line by line.  FileSource and            *)
(* StringSource are the two streams.                                       *)
(*                                                                         *)
(* The buffer always holds consecutive data of the stream, so it is        *)
(* represented by where it ends in the content, and the data that was      *)
(* copied for a line that goes on in the next block by its size.  The      *)
(* caller reads with a line buffer of sufficient size, as CharStream does, *)
(* and opens the source once, as Source.hpp demands.                       *)
(*                                                                         *)
(* One call of readLine is a sequence of steps because the file can change *)
(* between two accesses of the stream.                                     *)
(***************************************************************************)
EXTENDS Naturals, SequencesExt

CONSTANTS
  Contents,       \* the contents a file may have, over "byte" and "newline"
  MaxLineLength,  \* limits::maxLineLength
  BufferSize      \* cBufferSize

ASSUME ContentsAssumption == Contents \subseteq Seq({"byte", "newline"})
ASSUME MaxLineAssumption == MaxLineLength \in Nat \ {0}
ASSUME BufferAssumption == BufferSize \in Nat /\ BufferSize > MaxLineLength

VARIABLES
  content,            \* what the stream yielded so far and is going to yield
  loaded,             \* how much of it was read into the buffer
  bufferSize,         \* _bufferSize
  readOffset,         \* _readOffset
  streamHasMoreData,  \* _streamHasMoreData, FALSE as soon as it is closed
  sourceIsOpen,       \* _sourceIsOpen
  sourceIsAtEnd,      \* _sourceIsAtEnd
  isInitialized,      \* _isInitialized
  wasOpened,          \* history: open() succeeded
  step,               \* where readLine is: "idle", "line", "refill" or "rest"
  copied,             \* lineLength of the part that was copied already
  delivered,          \* history: how much the caller got
  error               \* the first error that was thrown, or "none"

vars == <<content, loaded, bufferSize, readOffset, streamHasMoreData,
          sourceIsOpen, sourceIsAtEnd, isInitialized, wasOpened, step, copied,
          delivered, error>>

TypeOK ==
  /\ content \in Contents
  /\ loaded \in 0 .. Len(content)
  /\ bufferSize \in 0 .. BufferSize
  /\ readOffset \in 0 .. BufferSize
  /\ {streamHasMoreData, sourceIsOpen, sourceIsAtEnd, isInitialized, wasOpened}
       \subseteq BOOLEAN
  /\ step \in {"idle", "line", "refill", "rest"}
  /\ copied \in 0 .. MaxLineLength
  /\ delivered \in 0 .. Len(content)
  /\ error \in {"none", "IO", "LimitExceeded"}

Init ==
  /\ content \in Contents
  /\ loaded = 0
  /\ bufferSize = 0
  /\ readOffset = 0
  /\ streamHasMoreData = TRUE
  /\ sourceIsOpen = FALSE
  /\ sourceIsAtEnd = FALSE
  /\ isInitialized = FALSE
  /\ wasOpened = FALSE
  /\ step = "idle"
  /\ copied = 0
  /\ delivered = 0
  /\ error = "none"

-----------------------------------------------------------------------------

\* The content of the stream as the buffer holds it: buffer index i, from zero.
Buffered(i) == content[loaded - bufferSize + i + 1]

\* Mutant: the newline is not counted.
NextLineLengthWithoutNewline ==
  LET newlines == {i \in readOffset .. bufferSize - 1 : Buffered(i) = "newline"}
  IN IF newlines = {} THEN 0 ELSE Min(newlines) - readOffset

\* nextLineLength: with the newline, or zero.
NextLineLength ==
  LET newlines == {i \in readOffset .. bufferSize - 1 : Buffered(i) = "newline"}
  IN IF newlines = {} THEN 0 ELSE Min(newlines) - readOffset + 1

TooLong(length) == length > MaxLineLength

\* closeSource
CloseSource ==
  /\ readOffset' = 0
  /\ bufferSize' = 0
  /\ sourceIsOpen' = FALSE

\* close() and throw
CloseAndThrow(category) ==
  /\ CloseSource
  /\ streamHasMoreData' = FALSE
  /\ error' = category
  /\ step' = "idle"
  /\ UNCHANGED <<loaded, sourceIsAtEnd, copied, delivered>>

\* The caller gets the line, or nothing if its length is zero.  The last data
\* closes the source, but only if the stream was closed before.
Deliver(length, offset) ==
  /\ delivered' = delivered + length
  /\ step' = "idle"
  /\ IF offset >= bufferSize /\ ~streamHasMoreData
     THEN CloseSource /\ sourceIsAtEnd' = TRUE
     ELSE readOffset' = offset /\ UNCHANGED <<bufferSize, sourceIsOpen, sourceIsAtEnd>>
  /\ UNCHANGED <<loaded, streamHasMoreData, copied, error>>

\* refillBuffer: one block is read, and a look at the byte behind it tells
\* whether there is more.  At the end, the stream is closed.
Refill(continue) ==
  \/ CloseAndThrow("IO")
  \/ LET left == Len(content) - loaded
         count == IF left < BufferSize THEN left ELSE BufferSize
     IN /\ loaded' = loaded + count
        /\ bufferSize' = count
        /\ readOffset' = 0
        /\ streamHasMoreData' = (left > BufferSize)
        /\ step' = continue
        /\ UNCHANGED <<sourceIsOpen, sourceIsAtEnd, copied, delivered, error>>

-----------------------------------------------------------------------------

\* open()
Open ==
  /\ ~wasOpened /\ error = "none"
  /\ \/ sourceIsOpen' = TRUE /\ wasOpened' = TRUE /\ UNCHANGED error
     \/ error' = "IO" /\ UNCHANGED <<sourceIsOpen, wasOpened>>
  /\ UNCHANGED <<content, loaded, bufferSize, readOffset, streamHasMoreData,
                 sourceIsAtEnd, isInitialized, step, copied, delivered>>

\* The first readLine loads the first block, if the source was opened.
InitializeRead ==
  /\ step = "idle"
  /\ ~isInitialized
  /\ isInitialized' = TRUE
  /\ IF sourceIsOpen THEN Refill("line")
     ELSE /\ error' = IF error = "none" THEN "IO" ELSE error
          /\ UNCHANGED <<loaded, bufferSize, readOffset, streamHasMoreData,
                         sourceIsOpen, sourceIsAtEnd, step, copied, delivered>>
  /\ UNCHANGED <<content, wasOpened>>

\* The other ones load a block when the buffer was used up.  Behind the end,
\* readLine returns zero; a closed source is an error.
BeginReadLine ==
  /\ step = "idle"
  /\ isInitialized
  /\ ~sourceIsAtEnd
  /\ IF ~sourceIsOpen
     THEN /\ error' = IF error = "none" THEN "IO" ELSE error
          /\ UNCHANGED <<loaded, bufferSize, readOffset, streamHasMoreData,
                         sourceIsOpen, sourceIsAtEnd, step, copied, delivered>>
     ELSE IF readOffset >= BufferSize THEN Refill("line")
     ELSE /\ step' = "line"
          /\ UNCHANGED <<loaded, bufferSize, readOffset, streamHasMoreData,
                         sourceIsOpen, sourceIsAtEnd, copied, delivered, error>>
  /\ UNCHANGED <<content, isInitialized, wasOpened>>

\* readWholeLine: the newline is in the buffer.
ReadWholeLine ==
  /\ step = "line"
  /\ NextLineLength > 0
  /\ IF TooLong(NextLineLength) THEN CloseAndThrow("LimitExceeded")
     ELSE Deliver(NextLineLength, readOffset + NextLineLength)
  /\ UNCHANGED <<content, isInitialized, wasOpened>>

\* The first part of readRemainingLine: the rest of the buffer is copied.  It is
\* the last line if the stream has no more data.
ReadRemainingLine ==
  /\ step = "line"
  /\ NextLineLength = 0
  /\ LET lineLength == bufferSize - readOffset IN
       IF TooLong(lineLength) THEN CloseAndThrow("LimitExceeded")
       ELSE IF ~streamHasMoreData THEN Deliver(lineLength, bufferSize)
       ELSE /\ copied' = lineLength
            /\ step' = "refill"
            /\ UNCHANGED <<loaded, bufferSize, readOffset, streamHasMoreData,
                           sourceIsOpen, sourceIsAtEnd, delivered, error>>
  /\ UNCHANGED <<content, isInitialized, wasOpened>>

RefillForRest ==
  /\ step = "refill"
  /\ Refill("rest")
  /\ UNCHANGED <<content, isInitialized, wasOpened>>

\* Mutant: the part that was copied before is overwritten.
ReadRestOnly ==
  /\ step = "rest"
  /\ LET continued == NextLineLength
         rest == IF continued = 0 THEN bufferSize ELSE continued
     IN IF TooLong(copied + rest) THEN CloseAndThrow("LimitExceeded")
        ELSE Deliver(rest, rest)
  /\ UNCHANGED <<content, isInitialized, wasOpened>>

\* The second part: the line ends in the next block, or with the data.
ReadRest ==
  /\ step = "rest"
  /\ LET continued == NextLineLength
         rest == IF continued = 0 THEN bufferSize ELSE continued
     IN IF TooLong(copied + rest) THEN CloseAndThrow("LimitExceeded")
        ELSE Deliver(copied + rest, rest)
  /\ UNCHANGED <<content, isInitialized, wasOpened>>

\* close(), by the parser when it leaves a document or fails
Close ==
  /\ step = "idle"
  /\ sourceIsOpen
  /\ CloseSource
  /\ streamHasMoreData' = FALSE
  /\ UNCHANGED <<content, loaded, sourceIsAtEnd, isInitialized, wasOpened, step,
                 copied, delivered, error>>

\* The file is written while it is read: what was not loaded yet may change.
ContentChanges ==
  /\ streamHasMoreData
  /\ \E other \in Contents :
       /\ Len(other) >= loaded
       /\ SubSeq(other, 1, loaded) = SubSeq(content, 1, loaded)
       /\ content' = other
  /\ UNCHANGED <<loaded, bufferSize, readOffset, streamHasMoreData,
                 sourceIsOpen, sourceIsAtEnd, isInitialized, wasOpened, step,
                 copied, delivered, error>>

Next ==
  \/ Open
  \/ InitializeRead
  \/ BeginReadLine
  \/ ReadWholeLine
  \/ ReadRemainingLine
  \/ RefillForRest
  \/ ReadRest
  \/ Close
  \/ ContentChanges

Spec == Init /\ [][Next]_vars

-----------------------------------------------------------------------------
\* Properties

\* The buffer and the part of the line that was copied are exactly what was
\* loaded and not delivered: no block boundary loses or repeats a byte.
NothingIsSkipped ==
  sourceIsOpen /\ isInitialized =>
    CASE step = "refill" -> delivered + copied = loaded
      [] step = "rest" -> delivered + copied = loaded - bufferSize
      [] OTHER -> delivered = loaded - bufferSize + readOffset

\* assert() in readLine, initializeRead and readRemainingLine: the source never
\* refills its buffer from a stream that has no more data, and a line that is
\* not too long never goes on in a third block.
AssertionsHold ==
  /\ sourceIsOpen /\ ~isInitialized => streamHasMoreData /\ ~sourceIsAtEnd
  /\ sourceIsOpen /\ step = "idle" /\ readOffset >= BufferSize => streamHasMoreData
  /\ step = "refill" => streamHasMoreData
  /\ step = "rest" /\ NextLineLength = 0 /\ copied + bufferSize <= MaxLineLength
       => ~streamHasMoreData

\* A source that was closed, by its end, an error or the parser, does not hold
\* its stream open.
StreamIsReleased == wasOpened /\ ~sourceIsOpen => ~streamHasMoreData

\* The source delivers the content line by line: no line is torn apart or longer
\* than the line buffer of the caller, also if its parts come from two blocks, and
\* the end is reported behind the last line only.
Lines == INSTANCE LineReader WITH
  status <- CASE error # "none" -> error
              [] error = "none" /\ sourceIsAtEnd -> "end"
              [] error = "none" /\ ~sourceIsAtEnd /\ wasOpened /\ ~sourceIsOpen -> "closed"
              [] OTHER -> "reading"

ImplementsLineReader == Lines!Init /\ [][Lines!Next]_(Lines!vars)
=============================================================================
