----------------------------- MODULE ReadingProofs -----------------------------
(***************************************************************************)
(* Proofs about reading lines, names and numbers: StreamSource, for        *)
(* streams of every length and every size of the buffer, and whatever is   *)
(* written to the file while it is read; FastNameDecoder, for name paths   *)
(* of every length and any nesting of transactions; SaturationMath, for    *)
(* integer types of every width; and Calendar, for every date.             *)
(***************************************************************************)
EXTENDS StreamSource, FastNameDecoder, SaturationMath, Calendar,
        FiniteSetTheorems, SequenceTheorems, WellFoundedInduction, TLAPS

-----------------------------------------------------------------------------
(* StreamSource.                                                           *)

\* The part of TypeOK that the arithmetic needs.
Ranges ==
  /\ content \in Contents
  /\ loaded \in 0 .. Len(content)
  /\ bufferSize \in 0 .. BufferSize
  /\ readOffset \in 0 .. BufferSize
  /\ copied \in 0 .. MaxLineLength
  /\ delivered \in 0 .. Len(content)
  /\ step \in {"idle", "line", "refill", "rest"}
  /\ error \in {"none", "IO", "LimitExceeded"}

\* The buffer is used between the first readLine and the end.
Reads == sourceIsOpen /\ isInitialized

\* An open source has neither failed nor reached its end; what was delivered was
\* loaded before; nothing is done before the first call.
Lifetime ==
  /\ sourceIsOpen => wasOpened /\ ~sourceIsAtEnd /\ error = "none"
  /\ step # "idle" => Reads
  /\ delivered <= loaded
  /\ ~isInitialized => /\ loaded = 0 /\ bufferSize = 0 /\ readOffset = 0
                       /\ delivered = 0 /\ ~sourceIsAtEnd
  /\ ~isInitialized /\ (sourceIsOpen \/ ~wasOpened) => streamHasMoreData
  /\ isInitialized /\ ~wasOpened => error # "none"

\* The buffer holds the last block of what was loaded, a full one unless it is
\* the last one of the stream.
BufferIsBlock ==
  Reads =>
    /\ readOffset <= bufferSize
    /\ bufferSize <= loaded
    /\ streamHasMoreData => bufferSize = BufferSize
    /\ ~streamHasMoreData => loaded = Len(content)
    /\ step = "refill" => streamHasMoreData
    /\ step = "rest" => readOffset = 0
    /\ step = "idle" /\ readOffset = bufferSize => streamHasMoreData

\* The part of a line that was copied before the next block is loaded.
CopiedIsOneLine ==
  step \in {"refill", "rest"} =>
    \A i \in delivered + 1 .. delivered + copied : content[i] # "newline"

Inv == Ranges /\ Lifetime /\ NothingIsSkipped /\ BufferIsBlock /\ CopiedIsOneLine

-----------------------------------------------------------------------------

\* The constants and the variables are of the types the arithmetic needs.
LEMMA Numbers ==
  ASSUME Ranges
  PROVE  /\ content \in Seq({"byte", "newline"}) /\ Len(content) \in Nat
         /\ MaxLineLength \in Nat \ {0} /\ BufferSize \in Nat
         /\ BufferSize > MaxLineLength
         /\ loaded \in Nat /\ loaded <= Len(content)
         /\ bufferSize \in Nat /\ bufferSize <= BufferSize
         /\ readOffset \in Nat /\ readOffset <= BufferSize
         /\ copied \in Nat /\ copied <= MaxLineLength
         /\ delivered \in Nat /\ delivered <= Len(content)
<1>1. content \in Seq({"byte", "newline"}) /\ Len(content) \in Nat
  BY ContentsAssumption DEF Ranges
<1> QED
  BY <1>1, MaxLineAssumption, BufferAssumption DEF Ranges

\* A set of numbers has a least one.
LEMMA LeastNumber ==
  ASSUME NEW S \in SUBSET Nat, S # {}
  PROVE  Min(S) \in S /\ \A i \in S : Min(S) <= i
<1> DEFINE Less == OpToRel(<, Nat)
<1>1. IsWellFoundedOn(Less, Nat)
  BY NatLessThanWellFounded
<1>2. PICK m \in S : \A i \in S : ~(<<i, m>> \in Less)
  <2> HIDE DEF Less
  <2> QED
    BY <1>1, WFMin
<1>3. ASSUME NEW i \in S
      PROVE  m <= i
  <2>1. m \in Nat /\ i \in Nat /\ <<i, m>> \notin Less
    BY <1>2
  <2>2. i < m => <<i, m>> \in Less
    BY <2>1 DEF OpToRel
  <2> HIDE DEF Less
  <2> QED
    BY <2>1, <2>2
<1>4. \E x \in S : \A y \in S : x =< y
  BY <1>3
<1> QED
  BY <1>4 DEF Min

\* nextLineLength finds the first newline behind the read offset.
LEMMA LineInBuffer ==
  ASSUME Ranges
  PROVE  \/ /\ NextLineLength = 0
            /\ \A i \in readOffset .. bufferSize - 1 : Buffered(i) # "newline"
         \/ /\ NextLineLength \in Nat \ {0}
            /\ readOffset + NextLineLength <= bufferSize
            /\ Buffered(readOffset + NextLineLength - 1) = "newline"
            /\ \A i \in readOffset .. readOffset + NextLineLength - 2 :
                 Buffered(i) # "newline"
<1> DEFINE newlines == {i \in readOffset .. bufferSize - 1 : Buffered(i) = "newline"}
<1>1. newlines \subseteq Nat
  BY Numbers
<1>2. NextLineLength = IF newlines = {} THEN 0 ELSE Min(newlines) - readOffset + 1
  BY DEF NextLineLength
<1>3. CASE newlines = {}
  BY <1>2, <1>3
<1>4. CASE newlines # {}
  <2>1. Min(newlines) \in newlines /\ \A i \in newlines : Min(newlines) <= i
    BY <1>1, <1>4, LeastNumber
  <2> DEFINE m == Min(newlines)
  <2>2. /\ m \in readOffset .. bufferSize - 1 /\ Buffered(m) = "newline"
        /\ \A i \in readOffset .. m - 1 : Buffered(i) # "newline"
    <3>1. m \in readOffset .. bufferSize - 1 /\ Buffered(m) = "newline"
      BY <2>1
    <3>2. \A i \in readOffset .. m - 1 : i \in readOffset .. bufferSize - 1 /\ ~(m <= i)
      BY <3>1, Numbers
    <3> QED
      BY <2>1, <3>1, <3>2
  <2>3. NextLineLength = m - readOffset + 1
    BY <1>2, <1>4
  <2> HIDE DEF m
  <2>4. /\ NextLineLength \in Nat \ {0}
        /\ readOffset + NextLineLength <= bufferSize
        /\ readOffset + NextLineLength - 1 = m
        /\ readOffset + NextLineLength - 2 = m - 1
    <3>1. m \in Int /\ readOffset \in Nat /\ bufferSize \in Nat
          /\ readOffset <= m /\ m <= bufferSize - 1
      BY <2>2, Numbers
    <3> QED
      BY <2>3, <3>1
  <2>5. Buffered(readOffset + NextLineLength - 1) = "newline"
    BY <2>2, <2>4
  <2>6. \A i \in readOffset .. readOffset + NextLineLength - 2 : Buffered(i) # "newline"
    BY <2>2, <2>4
  <2> QED
    BY <2>4, <2>5, <2>6
<1> QED
  BY <1>3, <1>4

\* The same in terms of the content: where the buffer begins in it is known.
LEMMA LineInContent ==
  ASSUME Inv, Reads, step \in {"line", "rest"},
         NEW start \in Nat, start = loaded - bufferSize + readOffset
  PROVE  \/ /\ NextLineLength = 0
            /\ \A i \in start + 1 .. loaded : content[i] # "newline"
         \/ /\ NextLineLength \in Nat \ {0}
            /\ start + NextLineLength <= loaded
            /\ readOffset + NextLineLength <= bufferSize
            /\ content[start + NextLineLength] = "newline"
            /\ \A i \in start + 1 .. start + NextLineLength - 1 :
                 content[i] # "newline"
<1>1. /\ readOffset \in Nat /\ bufferSize \in Nat /\ loaded \in Nat
      /\ readOffset <= bufferSize /\ bufferSize <= loaded
  BY Numbers DEF Inv, BufferIsBlock
<1> DEFINE base == loaded - bufferSize
<1>2. base \in Nat
  BY <1>1
<1>3. ASSUME NEW i \in Nat
      PROVE  Buffered(i) = content[base + i + 1]
  BY DEF Buffered
<1>4. ASSUME NEW k \in Int, \A i \in readOffset .. readOffset + k - 1 : Buffered(i) # "newline"
      PROVE  \A i \in start + 1 .. start + k : content[i] # "newline"
  <2> SUFFICES ASSUME NEW i \in start + 1 .. start + k
               PROVE  content[i] # "newline"
    OBVIOUS
  <2>1. /\ i - base - 1 \in readOffset .. readOffset + k - 1
        /\ i - base - 1 \in Nat
        /\ base + (i - base - 1) + 1 = i
    BY <1>1, <1>2
  <2> QED
    BY <1>3, <1>4, <2>1
<1>5. CASE /\ NextLineLength = 0
           /\ \A i \in readOffset .. bufferSize - 1 : Buffered(i) # "newline"
  <2> DEFINE k == bufferSize - readOffset
  <2>1. k \in Int /\ readOffset + k - 1 = bufferSize - 1 /\ start + k = loaded
    BY <1>1
  <2>2. \A i \in readOffset .. readOffset + k - 1 : Buffered(i) # "newline"
    BY <1>5, <2>1
  <2> HIDE DEF k
  <2>3. \A i \in start + 1 .. start + k : content[i] # "newline"
    BY <1>4, <2>1, <2>2
  <2> QED
    BY <1>5, <2>1, <2>3
<1>6. CASE /\ NextLineLength \in Nat \ {0}
           /\ readOffset + NextLineLength <= bufferSize
           /\ Buffered(readOffset + NextLineLength - 1) = "newline"
           /\ \A i \in readOffset .. readOffset + NextLineLength - 2 :
                Buffered(i) # "newline"
  <2> DEFINE k == NextLineLength - 1
  <2>1. /\ k \in Int /\ readOffset + k - 1 = readOffset + NextLineLength - 2
        /\ start + k = start + NextLineLength - 1
        /\ readOffset + NextLineLength - 1 \in Nat
        /\ base + (readOffset + NextLineLength - 1) + 1 = start + NextLineLength
        /\ start + NextLineLength <= loaded
    BY <1>1, <1>6
  <2>2. \A i \in readOffset .. readOffset + k - 1 : Buffered(i) # "newline"
    BY <1>6, <2>1
  <2>3. content[start + NextLineLength] = "newline"
    BY <1>3, <1>6, <2>1
  <2> HIDE DEF k
  <2>4. \A i \in start + 1 .. start + k : content[i] # "newline"
    BY <1>4, <2>1, <2>2
  <2> QED
    BY <1>6, <2>1, <2>3, <2>4
<1>7. Ranges
  BY DEF Inv
<1> QED
  BY <1>5, <1>6, <1>7, LineInBuffer
-----------------------------------------------------------------------------
\* The actions

LEMMA InitEstablishes == Init => Inv
<1> SUFFICES ASSUME Init PROVE Inv
  OBVIOUS
<1>1. content \in Seq({"byte", "newline"}) /\ Len(content) \in Nat
  BY ContentsAssumption DEF Init
<1>2. Ranges
  BY <1>1, MaxLineAssumption, BufferAssumption DEF Init, Ranges
<1> QED
  BY <1>2 DEF Init, Inv, Lifetime, Reads, NothingIsSkipped, BufferIsBlock, CopiedIsOneLine

\* An error ends the reading.
LEMMA ThrowingPreserves ==
  ASSUME Inv, NEW category \in {"IO", "LimitExceeded"}, CloseAndThrow(category),
         isInitialized' = TRUE, UNCHANGED <<content, wasOpened>>
  PROVE  Inv'
<1>1. Ranges'
  BY Numbers DEF Inv, Ranges, CloseAndThrow, CloseSource
<1>2. ~sourceIsOpen' /\ ~Reads' /\ step' = "idle"
  BY DEF CloseAndThrow, CloseSource, Reads
<1>3. Lifetime'
  BY <1>2 DEF Inv, Lifetime, CloseAndThrow
<1> QED
  BY <1>1, <1>2, <1>3 DEF Inv, NothingIsSkipped, Reads, BufferIsBlock, CopiedIsOneLine

\* The next block follows what was loaded.
LEMMA RefillPreserves ==
  ASSUME Inv, sourceIsOpen, streamHasMoreData, NEW continue \in {"line", "rest"},
         Refill(continue),
         isInitialized' = TRUE, UNCHANGED <<content, wasOpened>>,
         continue = "line" => delivered = loaded,
         continue = "rest" => step = "refill" /\ isInitialized
  PROVE  Inv'
<1>1. CASE CloseAndThrow("IO")
  BY <1>1, ThrowingPreserves
<1> DEFINE left == Len(content) - loaded
           count == IF left < BufferSize THEN left ELSE BufferSize
<1>2. CASE /\ loaded' = loaded + count
           /\ bufferSize' = count
           /\ readOffset' = 0
           /\ streamHasMoreData' = (left > BufferSize)
           /\ step' = continue
           /\ UNCHANGED <<sourceIsOpen, sourceIsAtEnd, copied, delivered, error>>
  <2>1. Ranges
    BY DEF Inv
  <2>2. /\ count \in Nat /\ count <= BufferSize /\ loaded + count <= Len(content)
        /\ left > BufferSize => count = BufferSize
        /\ ~(left > BufferSize) => loaded + count = Len(content)
    BY <2>1, Numbers
  <2> HIDE DEF count
  <2>3. Ranges'
    BY <1>2, <2>1, <2>2, Numbers DEF Ranges
  <2>4. Reads'
    BY <1>2 DEF Reads
  <2>5. Lifetime'
    BY <1>2, <2>1, <2>2, <2>4, Numbers DEF Inv, Lifetime
  <2>6. NothingIsSkipped'
    <3>1. CASE continue = "line"
      BY <1>2, <2>1, <2>2, <3>1, Numbers DEF NothingIsSkipped
    <3>2. CASE continue = "rest"
      <4>1. delivered + copied = loaded
        BY <3>2 DEF Inv, NothingIsSkipped
      <4> QED
        BY <1>2, <2>1, <2>2, <3>2, <4>1, Numbers DEF NothingIsSkipped
    <3> QED
      BY <3>1, <3>2
  <2>7. BufferIsBlock'
    <3>1. /\ 0 <= count /\ count <= loaded + count
          /\ left > BufferSize => count = BufferSize
          /\ ~(left > BufferSize) => loaded + count = Len(content)
      BY <2>1, <2>2, Numbers
    <3>2. streamHasMoreData' <=> left > BufferSize
      BY <1>2
    <3>3. step' \in {"line", "rest"} /\ readOffset' = 0 /\ bufferSize' = count
          /\ loaded' = loaded + count /\ content' = content
      BY <1>2
    <3> HIDE DEF left
    <3> QED
      BY <3>1, <3>2, <3>3 DEF BufferIsBlock
  <2>8. CopiedIsOneLine'
    <3>1. continue = "rest" =>
            \A i \in delivered + 1 .. delivered + copied : content[i] # "newline"
      BY DEF Inv, CopiedIsOneLine
    <3> QED
      BY <1>2, <3>1 DEF CopiedIsOneLine
  <2> QED
    BY <2>3, <2>5, <2>6, <2>7, <2>8 DEF Inv
<1> QED
  BY <1>1, <1>2 DEF Refill

\* What the caller gets ends at an offset of the buffer.
LEMMA DeliverPreserves ==
  ASSUME Inv, Reads, step \in {"line", "rest"},
         NEW length \in Nat, NEW offset \in Nat, offset <= bufferSize,
         delivered + length = loaded - bufferSize + offset,
         Deliver(length, offset),
         UNCHANGED <<content, isInitialized, wasOpened>>
  PROVE  Inv'
<1>1. Ranges
  BY DEF Inv
<1>2. /\ bufferSize <= loaded
      /\ step' = "idle" /\ delivered' = delivered + length
      /\ UNCHANGED <<loaded, streamHasMoreData, copied, error>>
  BY DEF Inv, BufferIsBlock, Deliver
<1>3. delivered + length <= loaded /\ delivered + length \in Nat
  BY <1>1, <1>2, Numbers
<1>4. CopiedIsOneLine'
  BY <1>2 DEF CopiedIsOneLine
<1>5. CASE offset >= bufferSize /\ ~streamHasMoreData
  <2>1. CloseSource /\ sourceIsAtEnd' = TRUE
    BY <1>5 DEF Deliver
  <2>2. Ranges'
    BY <1>1, <1>2, <1>3, <2>1, Numbers DEF Ranges, CloseSource
  <2>3. ~Reads' /\ ~sourceIsOpen'
    BY <2>1 DEF CloseSource, Reads
  <2>4. Lifetime'
    BY <1>2, <1>3, <2>1, <2>3 DEF Inv, Lifetime, Reads
  <2> QED
    BY <1>4, <2>2, <2>3, <2>4 DEF Inv, NothingIsSkipped, BufferIsBlock, Reads
<1>6. CASE ~(offset >= bufferSize /\ ~streamHasMoreData)
  <2>1. readOffset' = offset /\ UNCHANGED <<bufferSize, sourceIsOpen, sourceIsAtEnd>>
    BY <1>6 DEF Deliver
  <2>2. Ranges'
    BY <1>1, <1>2, <1>3, <2>1, Numbers DEF Ranges
  <2>3. Lifetime'
    BY <1>2, <1>3, <2>1 DEF Inv, Lifetime, Reads
  <2>4. NothingIsSkipped'
    BY <1>2, <2>1 DEF NothingIsSkipped
  <2>5. BufferIsBlock'
    BY <1>1, <1>2, <1>6, <2>1, Numbers DEF Inv, BufferIsBlock, Reads
  <2> QED
    BY <1>4, <2>2, <2>3, <2>4, <2>5 DEF Inv
<1> QED
  BY <1>5, <1>6

LEMMA OpenPreserves ==
  ASSUME Inv, Open
  PROVE  Inv'
<1>1. Ranges'
  BY DEF Inv, Ranges, Open
<1>2. Lifetime'
  BY DEF Inv, Lifetime, Open, Reads
<1>3. ~Reads' /\ ~(sourceIsOpen' /\ isInitialized')
  BY DEF Inv, Lifetime, Reads, Open
<1>4. CopiedIsOneLine'
  BY DEF Inv, CopiedIsOneLine, Open
<1> QED
  BY <1>1, <1>2, <1>3, <1>4 DEF Inv, NothingIsSkipped, BufferIsBlock
\* A call that finds the source closed is an error.
LEMMA ReadingClosedPreserves ==
  ASSUME Inv, ~sourceIsOpen, step = "idle", isInitialized' = TRUE,
         error' = (IF error = "none" THEN "IO" ELSE error),
         UNCHANGED <<content, loaded, bufferSize, readOffset, streamHasMoreData,
                     sourceIsOpen, sourceIsAtEnd, wasOpened, step, copied, delivered>>
  PROVE  Inv'
<1>1. Ranges'
  BY DEF Inv, Ranges
<1>2. ~Reads' /\ ~sourceIsOpen'
  BY DEF Reads
<1>3. Lifetime'
  BY <1>2 DEF Inv, Lifetime
<1> QED
  BY <1>1, <1>2, <1>3 DEF Inv, NothingIsSkipped, BufferIsBlock, CopiedIsOneLine

LEMMA InitializeReadPreserves ==
  ASSUME Inv, InitializeRead
  PROVE  Inv'
<1>1. /\ step = "idle" /\ ~isInitialized /\ isInitialized' = TRUE
      /\ UNCHANGED <<content, wasOpened>>
  BY DEF InitializeRead
<1>2. CASE sourceIsOpen
  <2>1. Refill("line") /\ streamHasMoreData /\ delivered = loaded
    BY <1>1, <1>2 DEF InitializeRead, Inv, Lifetime
  <2> QED
    BY <1>1, <1>2, <2>1, RefillPreserves
<1>3. CASE ~sourceIsOpen
  BY <1>1, <1>3, ReadingClosedPreserves DEF InitializeRead
<1> QED
  BY <1>2, <1>3

\* The buffer was used up: what was delivered is what was loaded.
LEMMA BufferIsUsedUp ==
  ASSUME Inv, Reads, step = "idle", readOffset >= BufferSize
  PROVE  streamHasMoreData /\ delivered = loaded
<1>1. readOffset = bufferSize
  BY Numbers DEF Inv, BufferIsBlock
<1>2. delivered = loaded - bufferSize + readOffset
  BY DEF Inv, NothingIsSkipped, Reads
<1> QED
  BY <1>1, <1>2, Numbers DEF Inv, BufferIsBlock

LEMMA BeginReadLinePreserves ==
  ASSUME Inv, BeginReadLine
  PROVE  Inv'
<1>1. /\ step = "idle" /\ isInitialized /\ ~sourceIsAtEnd
      /\ UNCHANGED <<content, isInitialized, wasOpened>>
  BY DEF BeginReadLine
<1>2. CASE ~sourceIsOpen
  BY <1>1, <1>2, ReadingClosedPreserves DEF BeginReadLine
<1>3. CASE sourceIsOpen /\ readOffset >= BufferSize
  <2>1. Refill("line") /\ Reads
    BY <1>1, <1>3 DEF BeginReadLine, Reads
  <2>2. streamHasMoreData /\ delivered = loaded
    BY <1>1, <1>3, <2>1, BufferIsUsedUp
  <2> QED
    BY <1>1, <1>3, <2>1, <2>2, RefillPreserves
<1>4. CASE sourceIsOpen /\ ~(readOffset >= BufferSize)
  <2>1. /\ step' = "line"
        /\ UNCHANGED <<loaded, bufferSize, readOffset, streamHasMoreData, sourceIsOpen,
                       sourceIsAtEnd, copied, delivered, error>>
    BY <1>4 DEF BeginReadLine
  <2>2. Ranges'
    BY <1>1, <2>1 DEF Inv, Ranges
  <2>3. Lifetime'
    BY <1>1, <1>4, <2>1 DEF Inv, Lifetime, Reads
  <2>4. NothingIsSkipped'
    BY <1>1, <2>1 DEF Inv, NothingIsSkipped
  <2>5. BufferIsBlock'
    BY <1>1, <2>1 DEF Inv, BufferIsBlock, Reads
  <2>6. CopiedIsOneLine'
    BY <2>1 DEF CopiedIsOneLine
  <2> QED
    BY <2>2, <2>3, <2>4, <2>5, <2>6 DEF Inv
<1> QED
  BY <1>2, <1>3, <1>4

\* Where the line that is read begins in the content.
LEMMA LineBegins ==
  ASSUME Inv, step = "line"
  PROVE  /\ Reads
         /\ delivered \in Nat
         /\ delivered = loaded - bufferSize + readOffset
         /\ readOffset <= bufferSize
<1>1. Reads /\ sourceIsOpen /\ isInitialized
  BY DEF Inv, Lifetime, Reads
<1> QED
  BY <1>1, Numbers DEF Inv, NothingIsSkipped, BufferIsBlock

LEMMA ReadWholeLinePreserves ==
  ASSUME Inv, ReadWholeLine
  PROVE  Inv'
<1> DEFINE length == NextLineLength
<1>1. /\ step = "line" /\ length > 0
      /\ UNCHANGED <<content, isInitialized, wasOpened>>
      /\ CloseAndThrow("LimitExceeded") \/ Deliver(length, readOffset + length)
  BY DEF ReadWholeLine
<1>2. /\ Reads /\ delivered \in Nat /\ delivered = loaded - bufferSize + readOffset
      /\ readOffset \in Nat /\ bufferSize \in Nat /\ loaded \in Nat
  BY <1>1, LineBegins, Numbers DEF Inv
<1>3. length \in Nat /\ readOffset + length <= bufferSize
  BY <1>1, <1>2, LineInContent
<1> HIDE DEF length
<1>4. /\ readOffset + length \in Nat
      /\ delivered + length = loaded - bufferSize + (readOffset + length)
  BY <1>2, <1>3
<1>5. CASE CloseAndThrow("LimitExceeded")
  BY <1>1, <1>2, <1>5, ThrowingPreserves DEF Reads
<1>6. CASE Deliver(length, readOffset + length)
  BY <1>1, <1>2, <1>3, <1>4, <1>6, DeliverPreserves
<1> QED
  BY <1>1, <1>5, <1>6

LEMMA ReadRemainingLinePreserves ==
  ASSUME Inv, ReadRemainingLine
  PROVE  Inv'
<1> DEFINE length == bufferSize - readOffset
<1>1. /\ step = "line" /\ NextLineLength = 0
      /\ UNCHANGED <<content, isInitialized, wasOpened>>
  BY DEF ReadRemainingLine
<1>2. /\ Reads /\ delivered \in Nat /\ delivered = loaded - bufferSize + readOffset
      /\ readOffset \in Nat /\ bufferSize \in Nat /\ loaded \in Nat
      /\ readOffset <= bufferSize /\ MaxLineLength \in Nat
  BY <1>1, LineBegins, Numbers DEF Inv
<1>3. /\ length \in Nat /\ delivered + length = loaded
      /\ delivered + length = loaded - bufferSize + bufferSize
  BY <1>2
<1>4. CASE TooLong(length)
  <2>1. CloseAndThrow("LimitExceeded")
    BY <1>4 DEF ReadRemainingLine
  <2> QED
    BY <1>1, <1>2, <2>1, ThrowingPreserves DEF Reads
<1>5. CASE ~TooLong(length) /\ ~streamHasMoreData
  <2>1. Deliver(length, bufferSize)
    BY <1>5 DEF ReadRemainingLine
  <2> QED
    BY <1>1, <1>2, <1>3, <2>1, DeliverPreserves
<1>6. CASE ~TooLong(length) /\ streamHasMoreData
  <2>1. /\ copied' = length /\ step' = "refill"
        /\ UNCHANGED <<loaded, bufferSize, readOffset, streamHasMoreData, sourceIsOpen,
                       sourceIsAtEnd, delivered, error>>
    BY <1>6 DEF ReadRemainingLine
  <2>2. length \in 0 .. MaxLineLength
    BY <1>2, <1>3, <1>6 DEF TooLong
  <2>3. \A i \in delivered + 1 .. loaded : content[i] # "newline"
    BY <1>1, <1>2, LineInContent
  <2> HIDE DEF length
  <2>4. Ranges'
    BY <1>1, <2>1, <2>2 DEF Inv, Ranges
  <2>5. Lifetime'
    BY <1>1, <1>2, <2>1 DEF Inv, Lifetime, Reads
  <2>6. NothingIsSkipped'
    BY <1>1, <1>3, <2>1 DEF NothingIsSkipped
  <2>7. BufferIsBlock'
    BY <1>1, <1>6, <2>1 DEF Inv, BufferIsBlock, Reads
  <2>8. CopiedIsOneLine'
    BY <1>1, <1>3, <2>1, <2>3 DEF CopiedIsOneLine
  <2> QED
    BY <2>4, <2>5, <2>6, <2>7, <2>8 DEF Inv
<1> QED
  BY <1>4, <1>5, <1>6

LEMMA RefillForRestPreserves ==
  ASSUME Inv, RefillForRest
  PROVE  Inv'
<1>1. step = "refill" /\ Refill("rest") /\ UNCHANGED <<content, isInitialized, wasOpened>>
  BY DEF RefillForRest
<1>2. Reads /\ sourceIsOpen /\ isInitialized
  BY <1>1 DEF Inv, Lifetime, Reads
<1>3. streamHasMoreData
  BY <1>1, <1>2 DEF Inv, BufferIsBlock
<1> QED
  BY <1>1, <1>2, <1>3, RefillPreserves

\* What ReadRest finds: the rest of the line begins with the buffer.
LEMMA RestBegins ==
  ASSUME Inv, step = "rest"
  PROVE  /\ Reads
         /\ delivered + copied \in Nat
         /\ delivered + copied = loaded - bufferSize + readOffset
         /\ readOffset = 0
         /\ bufferSize \in Nat /\ loaded \in Nat /\ copied \in Nat /\ delivered \in Nat
<1>1. Reads /\ sourceIsOpen /\ isInitialized
  BY DEF Inv, Lifetime, Reads
<1>2. delivered + copied = loaded - bufferSize
  BY <1>1 DEF Inv, NothingIsSkipped
<1>3. readOffset = 0
  BY <1>1 DEF Inv, BufferIsBlock
<1> QED
  BY <1>1, <1>2, <1>3, Numbers DEF Inv

LEMMA ReadRestPreserves ==
  ASSUME Inv, ReadRest
  PROVE  Inv'
<1> DEFINE rest == IF NextLineLength = 0 THEN bufferSize ELSE NextLineLength
<1>1. /\ step = "rest"
      /\ UNCHANGED <<content, isInitialized, wasOpened>>
      /\ CloseAndThrow("LimitExceeded") \/ Deliver(copied + rest, rest)
  BY DEF ReadRest
<1>2. /\ Reads /\ delivered + copied \in Nat
      /\ delivered + copied = loaded - bufferSize + readOffset
      /\ readOffset = 0
      /\ bufferSize \in Nat /\ loaded \in Nat /\ copied \in Nat /\ delivered \in Nat
  BY <1>1, RestBegins
<1>3. rest \in Nat /\ rest <= bufferSize
  <2>1. NextLineLength = 0 \/ (NextLineLength \in Nat /\ readOffset + NextLineLength <= bufferSize)
    BY <1>1, <1>2, LineInContent
  <2> QED
    BY <1>2, <2>1
<1> HIDE DEF rest
<1>4. /\ copied + rest \in Nat
      /\ delivered + (copied + rest) = loaded - bufferSize + rest
  BY <1>2, <1>3
<1>5. CASE CloseAndThrow("LimitExceeded")
  BY <1>1, <1>2, <1>5, ThrowingPreserves DEF Reads
<1>6. CASE Deliver(copied + rest, rest)
  BY <1>1, <1>2, <1>3, <1>4, <1>6, DeliverPreserves
<1> QED
  BY <1>1, <1>5, <1>6

LEMMA ClosePreserves ==
  ASSUME Inv, Close
  PROVE  Inv'
<1>1. Ranges'
  BY BufferAssumption DEF Inv, Ranges, Close, CloseSource
<1>2. ~Reads' /\ ~sourceIsOpen' /\ step' = "idle"
  BY DEF Close, CloseSource, Reads
<1>3. Lifetime'
  BY <1>2 DEF Inv, Lifetime, Close, CloseSource
<1> QED
  BY <1>1, <1>2, <1>3 DEF Inv, NothingIsSkipped, Reads, BufferIsBlock, CopiedIsOneLine

\* Other programs change what is not loaded yet.
LEMMA LoadedStays ==
  ASSUME Inv, ContentChanges
  PROVE  /\ content' \in Contents
         /\ Len(content') \in Nat
         /\ loaded <= Len(content')
         /\ \A i \in 1 .. loaded : content'[i] = content[i]
<1>1. PICK other \in Contents : /\ Len(other) >= loaded
                                /\ SubSeq(other, 1, loaded) = SubSeq(content, 1, loaded)
                                /\ content' = other
  BY DEF ContentChanges
<1>2. other \in Seq({"byte", "newline"}) /\ Len(other) \in Nat
  BY ContentsAssumption
<1>3. /\ content \in Seq({"byte", "newline"}) /\ Len(content) \in Nat
      /\ loaded \in Nat /\ loaded <= Len(content)
  BY Numbers DEF Inv
<1>4. \A i \in 1 .. loaded : SubSeq(other, 1, loaded)[i] = other[i]
  BY <1>1, <1>2, <1>3
<1>5. \A i \in 1 .. loaded : SubSeq(content, 1, loaded)[i] = content[i]
  BY <1>3
<1> QED
  BY <1>1, <1>2, <1>4, <1>5

LEMMA ContentChangesPreserves ==
  ASSUME Inv, ContentChanges
  PROVE  Inv'
<1>1. /\ streamHasMoreData
      /\ UNCHANGED <<loaded, bufferSize, readOffset, streamHasMoreData, sourceIsOpen,
                     sourceIsAtEnd, isInitialized, wasOpened, step, copied, delivered, error>>
  BY DEF ContentChanges
<1>2. /\ delivered <= loaded /\ delivered \in Nat /\ loaded \in Nat /\ copied \in Nat
  BY Numbers DEF Inv, Lifetime
<1>3. Ranges'
  <2>1. loaded \in 0 .. Len(content') /\ delivered \in 0 .. Len(content')
    BY <1>2, LoadedStays
  <2> QED
    BY <1>1, <2>1, LoadedStays DEF Inv, Ranges
<1>4. Lifetime' /\ NothingIsSkipped' /\ BufferIsBlock'
  BY <1>1 DEF Inv, Lifetime, NothingIsSkipped, BufferIsBlock, Reads
<1>5. CopiedIsOneLine'
  <2>1. step \in {"refill", "rest"} => delivered + copied <= loaded
    <3>1. CASE step = "refill"
      <4>1. delivered + copied = loaded
        BY <3>1 DEF Inv, Lifetime, Reads, NothingIsSkipped
      <4> QED
        BY <1>2, <4>1
    <3>2. CASE step = "rest"
      BY <3>2, RestBegins
    <3> QED
      BY <3>1, <3>2
  <2>2. \A i \in delivered + 1 .. delivered + copied :
          delivered + copied <= loaded => content'[i] = content[i]
    BY <1>2, LoadedStays
  <2> QED
    BY <1>1, <2>1, <2>2 DEF Inv, CopiedIsOneLine
<1> QED
  BY <1>3, <1>4, <1>5 DEF Inv

LEMMA NextPreserves ==
  ASSUME Inv, [Next]_vars
  PROVE  Inv'
<1>1. CASE UNCHANGED vars
  <2>1. Ranges'
    BY <1>1 DEF vars, Inv, Ranges
  <2>2. Lifetime' /\ NothingIsSkipped' /\ BufferIsBlock' /\ CopiedIsOneLine'
    BY <1>1 DEF vars, Inv, Lifetime, NothingIsSkipped, BufferIsBlock, CopiedIsOneLine, Reads
  <2> QED
    BY <2>1, <2>2 DEF Inv
<1> QED
  BY <1>1, OpenPreserves, InitializeReadPreserves, BeginReadLinePreserves,
     ReadWholeLinePreserves, ReadRemainingLinePreserves, RefillForRestPreserves,
     ReadRestPreserves, ClosePreserves, ContentChangesPreserves DEF Next

\* The invariant holds in all behaviours.
THEOREM InvIsInvariant == Spec => []Inv
  BY InitEstablishes, NextPreserves, PTL DEF Spec

\* No block boundary loses or repeats a byte.
THEOREM EveryByteIsDelivered == Spec => []NothingIsSkipped
<1>1. Inv => NothingIsSkipped
  BY DEF Inv
<1> QED
  BY <1>1, InvIsInvariant, PTL
\* The assertions in the code cannot fail: the stream is never read behind its
\* end, and a line that is not too long ends in the second block it is in.
THEOREM AssertionsNeverFail == Spec => []AssertionsHold
<1>1. ASSUME Inv PROVE AssertionsHold
  <2>1. sourceIsOpen /\ ~isInitialized => streamHasMoreData /\ ~sourceIsAtEnd
    BY <1>1 DEF Inv, Lifetime
  <2>2. sourceIsOpen /\ step = "idle" /\ readOffset >= BufferSize => streamHasMoreData
    BY <1>1, <2>1, BufferIsUsedUp DEF Reads
  <2>3. step = "refill" => streamHasMoreData
    BY <1>1 DEF Inv, Lifetime, BufferIsBlock
  <2>4. step = "rest" /\ copied + bufferSize <= MaxLineLength => ~streamHasMoreData
    <3>1. step = "rest" /\ streamHasMoreData => bufferSize = BufferSize
      BY <1>1 DEF Inv, Lifetime, BufferIsBlock
    <3> QED
      BY <1>1, <3>1, Numbers DEF Inv
  <2> QED
    BY <2>1, <2>2, <2>3, <2>4 DEF AssertionsHold
<1> QED
  BY <1>1, InvIsInvariant, PTL

-----------------------------------------------------------------------------
\* The refinement

\* The state of the reader as the caller sees it.
Status ==
  CASE error # "none" -> error
    [] error = "none" /\ sourceIsAtEnd -> "end"
    [] error = "none" /\ ~sourceIsAtEnd /\ wasOpened /\ ~sourceIsOpen -> "closed"
    [] OTHER -> "reading"

LEMMA StatusOfSource ==
  ASSUME Inv
  PROVE  /\ error # "none" => Status = error
         /\ error = "none" /\ sourceIsAtEnd => Status = "end"
         /\ error = "none" /\ ~sourceIsAtEnd /\ wasOpened /\ ~sourceIsOpen => Status = "closed"
         /\ error = "none" /\ ~sourceIsAtEnd /\ ~(wasOpened /\ ~sourceIsOpen) =>
              Status = "reading"
         /\ sourceIsOpen => Status = "reading"
<1>1. sourceIsOpen => error = "none" /\ ~sourceIsAtEnd
  BY DEF Inv, Lifetime
<1> QED
  BY <1>1 DEF Status

\* An error while reading stops the reader.
LEMMA ThrowingIsStop ==
  ASSUME Inv, sourceIsOpen, CloseAndThrow("IO"), UNCHANGED content
  PROVE  Lines!Stop
<1>1. Status = "reading"
  BY StatusOfSource
<1>2. error' = "IO" /\ UNCHANGED delivered
  BY DEF CloseAndThrow
<1>3. Status' = "IO"
  BY <1>2 DEF Status
<1> QED
  BY <1>1, <1>2, <1>3 DEF Lines!Stop, Status

\* A block that is loaded is not seen by the caller.
LEMMA RefillIsInvisible ==
  ASSUME Inv, sourceIsOpen, NEW continue, Refill(continue), UNCHANGED <<content, wasOpened>>
  PROVE  [Lines!Next]_(Lines!vars)
<1>1. CASE CloseAndThrow("IO")
  BY <1>1, ThrowingIsStop DEF Lines!Next
<1>2. CASE UNCHANGED <<sourceIsOpen, sourceIsAtEnd, copied, delivered, error>>
  BY <1>2 DEF Lines!vars
<1> QED
  BY <1>1, <1>2 DEF Refill

\* A closed source was not at its end, unless it never gets to read.
LEMMA ReadingClosedIsStop ==
  ASSUME Inv, ~sourceIsOpen, ~sourceIsAtEnd,
         error' = (IF error = "none" THEN "IO" ELSE error),
         UNCHANGED <<content, sourceIsOpen, sourceIsAtEnd, wasOpened, delivered>>
  PROVE  [Lines!Next]_(Lines!vars)
<1>1. CASE error = "none"
  <2>1. Status \in {"reading", "closed"}
    BY <1>1, StatusOfSource
  <2>2. Status' = "IO"
    BY <1>1 DEF Status
  <2> QED
    BY <2>1, <2>2 DEF Lines!Next, Lines!Stop, Status
<1>2. CASE error # "none"
  BY <1>2 DEF Lines!vars
<1> QED
  BY <1>1, <1>2

\* What is delivered is a line that is not too long, or nothing at the end.
LEMMA DeliverIsLine ==
  ASSUME Inv, Reads,
         NEW length \in Nat, NEW offset \in Nat, offset <= bufferSize,
         delivered + length = loaded - bufferSize + offset,
         Deliver(length, offset),
         UNCHANGED <<content, wasOpened>>,
         length <= MaxLineLength,
         length # 0 => /\ \A i \in delivered + 1 .. delivered + length - 1 :
                            content[i] # "newline"
                       /\ \/ delivered + length = Len(content)
                          \/ content[delivered + length] = "newline",
         length = 0 => offset >= bufferSize /\ ~streamHasMoreData
  PROVE  Lines!Next
<1>1. /\ delivered' = delivered + length /\ UNCHANGED error /\ error = "none"
      /\ Status = "reading" /\ wasOpened /\ ~sourceIsAtEnd
  BY StatusOfSource DEF Deliver, Reads, Inv, Lifetime
<1>2. /\ delivered \in Nat /\ loaded \in Nat /\ bufferSize \in Nat /\ Len(content) \in Nat
      /\ loaded <= Len(content) /\ MaxLineLength \in Nat
  BY Numbers DEF Inv
<1>3. length # 0 => Lines!IsLineEnd(delivered')
  <2>1. delivered + length <= Len(content)
    BY <1>2
  <2>2. length # 0 => delivered + length \in delivered + 1 .. Len(content)
    BY <1>2, <2>1
  <2>3. length # 0 => Lines!IsLineEnd(delivered + length)
    BY <1>2, <2>2 DEF Lines!IsLineEnd
  <2> QED
    BY <1>1, <2>3
<1>4. delivered' <= delivered + MaxLineLength
  BY <1>1, <1>2
<1>5. CASE offset >= bufferSize /\ ~streamHasMoreData
  <2>1. sourceIsAtEnd' = TRUE
    BY <1>5 DEF Deliver
  <2>2. Status' = "end"
    BY <1>1, <2>1 DEF Status
  <2>3. delivered' = Len(content)
    <3>1. loaded = Len(content)
      BY <1>5 DEF Inv, BufferIsBlock
    <3>2. offset = bufferSize
      BY <1>2, <1>5
    <3> QED
      BY <1>1, <1>2, <3>1, <3>2
  <2>4. CASE length = 0
    BY <1>1, <1>2, <2>2, <2>3, <2>4 DEF Lines!Next, Lines!DeliverEnd, Status
  <2>5. CASE length # 0
    BY <1>1, <1>3, <1>4, <2>2, <2>3, <2>5 DEF Lines!Next, Lines!DeliverLine, Status
  <2> QED
    BY <2>4, <2>5
<1>6. CASE ~(offset >= bufferSize /\ ~streamHasMoreData)
  <2>1. UNCHANGED <<sourceIsOpen, sourceIsAtEnd>>
    BY <1>6 DEF Deliver
  <2>2. Status' = "reading"
    BY <1>1, <2>1 DEF Status, Reads
  <2> QED
    BY <1>1, <1>3, <1>4, <1>6, <2>2 DEF Lines!Next, Lines!DeliverLine, Status
<1> QED
  BY <1>5, <1>6

\* A line is refused if it is longer than the buffer of the caller.
LEMMA TooLongIsRefused ==
  ASSUME Inv, sourceIsOpen, CloseAndThrow("LimitExceeded"), UNCHANGED content,
         NEW length \in Nat, length > MaxLineLength,
         delivered + length <= Len(content),
         \A i \in delivered + 1 .. delivered + length - 1 : content[i] # "newline"
  PROVE  Lines!Next
<1>1. Status = "reading"
  BY StatusOfSource
<1>2. error' = "LimitExceeded" /\ UNCHANGED delivered
  BY DEF CloseAndThrow
<1>3. Status' = "LimitExceeded"
  BY <1>2 DEF Status
<1>4. delivered \in Nat /\ MaxLineLength \in Nat /\ Len(content) \in Nat
  BY Numbers DEF Inv
<1>5. \A i \in delivered + 1 .. delivered + MaxLineLength :
        i <= Len(content) /\ i \in delivered + 1 .. delivered + length - 1
  BY <1>4
<1>6. Len(content) > delivered + MaxLineLength
  BY <1>4
<1> QED
  BY <1>1, <1>2, <1>3, <1>5, <1>6 DEF Lines!Next, Lines!RefuseLine, Status

LEMMA ReadWholeLineIsLine ==
  ASSUME Inv, ReadWholeLine
  PROVE  Lines!Next
<1> DEFINE length == NextLineLength
<1>1. /\ step = "line" /\ length > 0 /\ UNCHANGED <<content, isInitialized, wasOpened>>
      /\ \/ TooLong(length) /\ CloseAndThrow("LimitExceeded")
         \/ ~TooLong(length) /\ Deliver(length, readOffset + length)
  BY DEF ReadWholeLine
<1>2. /\ Reads /\ sourceIsOpen /\ delivered \in Nat
      /\ delivered = loaded - bufferSize + readOffset
      /\ readOffset \in Nat /\ bufferSize \in Nat /\ loaded \in Nat
      /\ Len(content) \in Nat /\ loaded <= Len(content) /\ MaxLineLength \in Nat
  BY <1>1, LineBegins, Numbers DEF Inv, Reads
<1>3. /\ length \in Nat \ {0}
      /\ delivered + length <= loaded
      /\ readOffset + length <= bufferSize
      /\ content[delivered + length] = "newline"
      /\ \A i \in delivered + 1 .. delivered + length - 1 : content[i] # "newline"
  BY <1>1, <1>2, LineInContent
<1> HIDE DEF length
<1>4. CASE TooLong(length) /\ CloseAndThrow("LimitExceeded")
  <2>1. length > MaxLineLength /\ delivered + length <= Len(content) /\ length \in Nat
    BY <1>2, <1>3, <1>4 DEF TooLong
  <2> QED
    BY <1>1, <1>2, <1>3, <1>4, <2>1, TooLongIsRefused
<1>5. CASE ~TooLong(length) /\ Deliver(length, readOffset + length)
  <2>1. /\ length \in Nat /\ length # 0 /\ length <= MaxLineLength
        /\ readOffset + length \in Nat
        /\ delivered + length = loaded - bufferSize + (readOffset + length)
    BY <1>2, <1>3, <1>5 DEF TooLong
  <2> QED
    BY <1>1, <1>2, <1>3, <1>5, <2>1, DeliverIsLine
<1> QED
  BY <1>1, <1>4, <1>5

LEMMA ReadRemainingLineIsLine ==
  ASSUME Inv, ReadRemainingLine
  PROVE  [Lines!Next]_(Lines!vars)
<1> DEFINE length == bufferSize - readOffset
<1>1. /\ step = "line" /\ NextLineLength = 0
      /\ UNCHANGED <<content, isInitialized, wasOpened>>
  BY DEF ReadRemainingLine
<1>2. /\ Reads /\ sourceIsOpen /\ delivered \in Nat
      /\ delivered = loaded - bufferSize + readOffset
      /\ readOffset \in Nat /\ bufferSize \in Nat /\ loaded \in Nat
      /\ readOffset <= bufferSize
      /\ Len(content) \in Nat /\ loaded <= Len(content) /\ MaxLineLength \in Nat
  BY <1>1, LineBegins, Numbers DEF Inv, Reads
<1>3. /\ length \in Nat /\ delivered + length = loaded
      /\ delivered + length = loaded - bufferSize + bufferSize
  BY <1>2
<1>4. \A i \in delivered + 1 .. loaded : content[i] # "newline"
  BY <1>1, <1>2, LineInContent
<1>5. \A i \in delivered + 1 .. delivered + length - 1 : content[i] # "newline"
  <2>1. delivered + length - 1 <= loaded
    BY <1>2, <1>3
  <2> HIDE DEF length
  <2>2. \A i \in delivered + 1 .. delivered + length - 1 : i \in delivered + 1 .. loaded
    BY <1>2, <1>3, <2>1
  <2> QED
    BY <1>4, <2>2
<1>6. CASE TooLong(length)
  <2>1. CloseAndThrow("LimitExceeded")
    BY <1>6 DEF ReadRemainingLine
  <2>2. length > MaxLineLength /\ delivered + length <= Len(content)
    BY <1>2, <1>3, <1>6 DEF TooLong
  <2> HIDE DEF length
  <2> QED
    BY <1>1, <1>2, <1>3, <1>5, <2>1, <2>2, TooLongIsRefused
<1>7. CASE ~TooLong(length) /\ ~streamHasMoreData
  <2>1. Deliver(length, bufferSize)
    BY <1>7 DEF ReadRemainingLine
  <2>2. loaded = Len(content)
    BY <1>2, <1>7 DEF Inv, BufferIsBlock
  <2>3. length <= MaxLineLength /\ bufferSize <= bufferSize /\ bufferSize >= bufferSize
    BY <1>2, <1>3, <1>7 DEF TooLong
  <2> HIDE DEF length
  <2> QED
    BY <1>1, <1>2, <1>3, <1>5, <1>7, <2>1, <2>2, <2>3, DeliverIsLine
<1>8. CASE ~TooLong(length) /\ streamHasMoreData
  <2>1. UNCHANGED <<sourceIsOpen, sourceIsAtEnd, delivered, error>>
    BY <1>8 DEF ReadRemainingLine
  <2> QED
    BY <1>1, <2>1 DEF Lines!vars
<1> QED
  BY <1>6, <1>7, <1>8

LEMMA ReadRestIsLine ==
  ASSUME Inv, ReadRest
  PROVE  Lines!Next
<1> DEFINE rest == IF NextLineLength = 0 THEN bufferSize ELSE NextLineLength
           length == copied + rest
           start == delivered + copied
<1>1. /\ step = "rest"
      /\ UNCHANGED <<content, isInitialized, wasOpened>>
      /\ \/ TooLong(length) /\ CloseAndThrow("LimitExceeded")
         \/ ~TooLong(length) /\ Deliver(length, rest)
  BY DEF ReadRest
<1>2. /\ Reads /\ start \in Nat
      /\ start = loaded - bufferSize + readOffset
      /\ readOffset = 0
      /\ bufferSize \in Nat /\ loaded \in Nat /\ copied \in Nat /\ delivered \in Nat
  BY <1>1, RestBegins
<1>3. /\ Len(content) \in Nat /\ loaded <= Len(content) /\ MaxLineLength \in Nat
      /\ BufferSize > MaxLineLength /\ BufferSize \in Nat /\ sourceIsOpen
      /\ bufferSize <= loaded
  BY <1>2, Numbers DEF Inv, Reads, BufferIsBlock
<1>4. \A i \in delivered + 1 .. start : content[i] # "newline"
  BY <1>1 DEF Inv, CopiedIsOneLine
<1>5. \/ /\ NextLineLength = 0
         /\ \A i \in start + 1 .. loaded : content[i] # "newline"
      \/ /\ NextLineLength \in Nat \ {0}
         /\ start + NextLineLength <= loaded
         /\ readOffset + NextLineLength <= bufferSize
         /\ content[start + NextLineLength] = "newline"
         /\ \A i \in start + 1 .. start + NextLineLength - 1 : content[i] # "newline"
  BY <1>1, <1>2, LineInContent
<1>6. /\ rest \in Nat /\ rest <= bufferSize /\ start + rest <= loaded
      /\ \A i \in start + 1 .. start + rest - 1 : content[i] # "newline"
      /\ NextLineLength # 0 => rest # 0 /\ content[start + rest] = "newline"
      /\ NextLineLength = 0 => rest = bufferSize /\ start + rest = loaded
  <2>1. CASE NextLineLength = 0
    <3>1. rest = bufferSize /\ start + rest = loaded
      BY <1>2, <2>1
    <3>2. \A i \in start + 1 .. start + rest - 1 : i \in start + 1 .. loaded
      BY <1>2, <3>1
    <3>3. \A i \in start + 1 .. loaded : content[i] # "newline"
      BY <1>5, <2>1
    <3> QED
      BY <1>2, <2>1, <3>1, <3>2, <3>3
  <2>2. CASE NextLineLength # 0
    <3>1. rest = NextLineLength
      BY <2>2
    <3> QED
      BY <1>2, <1>5, <2>2, <3>1
  <2> QED
    BY <2>1, <2>2
<1> HIDE DEF rest
<1>7. /\ length \in Nat /\ delivered + length = start + rest
      /\ delivered + length = loaded - bufferSize + rest
      /\ delivered + length <= Len(content)
  BY <1>2, <1>3, <1>6
<1>8. \A i \in delivered + 1 .. delivered + length - 1 : content[i] # "newline"
  <2>1. \A i \in delivered + 1 .. delivered + length - 1 :
          i \in delivered + 1 .. start \/ i \in start + 1 .. start + rest - 1
    BY <1>2, <1>6, <1>7
  <2> QED
    BY <1>4, <1>6, <2>1
<1>9. CASE TooLong(length) /\ CloseAndThrow("LimitExceeded")
  <2>1. length > MaxLineLength
    BY <1>9 DEF TooLong
  <2> HIDE DEF length
  <2> QED
    BY <1>1, <1>3, <1>7, <1>8, <1>9, <2>1, TooLongIsRefused
<1>10. CASE ~TooLong(length) /\ Deliver(length, rest)
  <2>1. length <= MaxLineLength
    BY <1>3, <1>7, <1>10 DEF TooLong
  <2>2. NextLineLength = 0 => ~streamHasMoreData
    <3>1. streamHasMoreData => bufferSize = BufferSize
      BY <1>2 DEF Inv, BufferIsBlock
    <3> QED
      BY <1>2, <1>3, <1>6, <2>1, <3>1
  <2>3. NextLineLength = 0 => start + rest = Len(content) /\ rest >= bufferSize
    <3>1. ~streamHasMoreData => loaded = Len(content)
      BY <1>2 DEF Inv, BufferIsBlock
    <3> QED
      BY <1>2, <1>6, <2>2, <3>1
  <2>4. \/ delivered + length = Len(content)
        \/ content[delivered + length] = "newline"
    BY <1>6, <1>7, <2>3
  <2>5. length = 0 => rest >= bufferSize /\ ~streamHasMoreData
    BY <1>2, <1>6, <2>2, <2>3
  <2> HIDE DEF length
  <2> QED
    BY <1>1, <1>2, <1>6, <1>7, <1>8, <1>10, <2>1, <2>4, <2>5, DeliverIsLine
<1> QED
  BY <1>1, <1>9, <1>10

LEMMA ContentChangesIsChange ==
  ASSUME Inv, ContentChanges
  PROVE  Lines!Next
<1>1. UNCHANGED <<sourceIsOpen, sourceIsAtEnd, wasOpened, delivered, error>>
  BY DEF ContentChanges
<1>2. /\ content' \in Seq({"byte", "newline"}) /\ Len(content') \in Nat
      /\ delivered \in Nat /\ delivered <= loaded /\ loaded \in Nat
      /\ loaded <= Len(content') /\ loaded <= Len(content)
      /\ content \in Seq({"byte", "newline"}) /\ Len(content) \in Nat
  BY LoadedStays, ContentsAssumption, Numbers DEF Inv, Lifetime
<1>3. \A i \in 1 .. delivered : content'[i] = content[i]
  BY <1>2, LoadedStays
<1>4. /\ SubSeq(content', 1, delivered) = [i \in 1 .. delivered |-> content'[i]]
      /\ SubSeq(content, 1, delivered) = [i \in 1 .. delivered |-> content[i]]
  BY <1>2
<1>5. SubSeq(content', 1, delivered) = SubSeq(content, 1, delivered)
  BY <1>3, <1>4
<1>6. Status' = Status
  BY <1>1 DEF Status
<1>7. Len(content') >= delivered
  BY <1>2
<1> QED
  BY <1>1, <1>5, <1>6, <1>7 DEF Lines!Next, Lines!ContentChanges, Status

\* Every step is a step of the reader of lines, or the caller does not see it.
LEMMA StepIsReaderStep ==
  ASSUME Inv, [Next]_vars
  PROVE  [Lines!Next]_(Lines!vars)
<1>1. CASE Open
  <2>1. /\ error = "none" /\ ~wasOpened /\ ~isInitialized /\ ~sourceIsAtEnd
        /\ UNCHANGED <<content, delivered, sourceIsAtEnd>>
    BY <1>1 DEF Open, Inv, Lifetime
  <2>2. CASE sourceIsOpen' = TRUE /\ wasOpened' = TRUE /\ UNCHANGED error
    BY <2>1, <2>2 DEF Lines!vars
  <2>3. CASE error' = "IO" /\ UNCHANGED <<sourceIsOpen, wasOpened>>
    <3>1. Status = "reading" /\ Status' = "IO"
      BY <2>1, <2>3 DEF Status
    <3> QED
      BY <2>1, <3>1 DEF Lines!Next, Lines!Stop, Status
  <2> QED
    BY <1>1, <2>2, <2>3 DEF Open
<1>2. CASE InitializeRead
  <2>1. /\ ~isInitialized /\ ~sourceIsAtEnd /\ UNCHANGED <<content, wasOpened>>
    BY <1>2 DEF InitializeRead, Inv, Lifetime
  <2>2. CASE sourceIsOpen
    BY <1>2, <2>1, <2>2, RefillIsInvisible DEF InitializeRead
  <2>3. CASE ~sourceIsOpen
    BY <1>2, <2>1, <2>3, ReadingClosedIsStop DEF InitializeRead
  <2> QED
    BY <2>2, <2>3
<1>3. CASE BeginReadLine
  <2>1. ~sourceIsAtEnd /\ UNCHANGED <<content, isInitialized, wasOpened>>
    BY <1>3 DEF BeginReadLine
  <2>2. CASE sourceIsOpen /\ readOffset >= BufferSize
    BY <1>3, <2>1, <2>2, RefillIsInvisible DEF BeginReadLine
  <2>3. CASE ~sourceIsOpen
    BY <1>3, <2>1, <2>3, ReadingClosedIsStop DEF BeginReadLine
  <2>4. CASE sourceIsOpen /\ ~(readOffset >= BufferSize)
    BY <1>3, <2>1, <2>4 DEF BeginReadLine, Lines!vars
  <2> QED
    BY <2>2, <2>3, <2>4
<1>4. CASE ReadWholeLine
  BY <1>4, ReadWholeLineIsLine
<1>5. CASE ReadRemainingLine
  BY <1>5, ReadRemainingLineIsLine
<1>6. CASE RefillForRest
  <2>1. sourceIsOpen /\ Refill("rest") /\ UNCHANGED <<content, wasOpened>>
    BY <1>6 DEF RefillForRest, Inv, Lifetime, Reads
  <2> QED
    BY <2>1, RefillIsInvisible
<1>7. CASE ReadRest
  BY <1>7, ReadRestIsLine
<1>8. CASE Close
  <2>1. /\ Status = "reading" /\ wasOpened /\ error = "none" /\ ~sourceIsAtEnd
        /\ UNCHANGED <<content, delivered, wasOpened, error, sourceIsAtEnd>>
        /\ ~sourceIsOpen'
    BY <1>8, StatusOfSource DEF Close, CloseSource, Inv, Lifetime
  <2>2. Status' = "closed"
    BY <2>1 DEF Status
  <2> QED
    BY <2>1, <2>2 DEF Lines!Next, Lines!Stop, Status
<1>9. CASE ContentChanges
  BY <1>9, ContentChangesIsChange
<1>10. CASE UNCHANGED vars
  BY <1>10 DEF vars, Lines!vars
<1> QED
  BY <1>1, <1>2, <1>3, <1>4, <1>5, <1>6, <1>7, <1>8, <1>9, <1>10 DEF Next

\* StreamSource delivers the content line by line: no line is torn apart by a
\* block boundary or longer than the limit, and no end is reported too early.
THEOREM StreamSourceImplementsLineReader == Spec => ImplementsLineReader
<1>1. Init => Lines!Init
  BY DEF Init, Lines!Init
<1>2. Inv /\ [Next]_vars => [Lines!Next]_(Lines!vars)
  BY StepIsReaderStep
<1> QED
  BY <1>1, <1>2, InvIsInvariant, PTL DEF Spec, ImplementsLineReader

-----------------------------------------------------------------------------
(* Every valid date is read back as it was stored.  A year is split into   *)
(* its cycles of 400, 100 and 4 years.  Each of the three kinds of years,  *)
(* the first one of 400, the first one of another century and all others,  *)
(* is followed through both conversions.                                   *)

\* The quotient and the remainder of a number that is given by both.
LEMMA Division ==
  ASSUME NEW k \in Nat \ {0}, NEW a \in Int, NEW b \in Int, 0 <= b, b < k,
         NEW x \in Int, x = k * a + b
  PROVE  x \div k = a /\ x % k = b
<1>1. x \div k = a
  BY Z3
<1>2. x % k = b
  BY <1>1, Z3
<1>. QED
  BY <1>1, <1>2

\* A year is given by its cycles and its place in the last one.
LEMMA Cycles ==
  ASSUME NEW year \in Years
  PROVE  \E q \in 0 .. 24, c \in 0 .. 3, f \in 0 .. 24, t \in 0 .. 3 :
           year = 400 * q + 100 * c + 4 * f + t
<1>. DEFINE q == year \div 400
            r == year % 400
            c == r \div 100
            s == r % 100
            f == s \div 4
            t == s % 4
<1>1. year = 400 * q + r /\ q \in 0 .. 24 /\ r \in 0 .. 399
  BY Z3 DEF Years
<1>2. r = 100 * c + s /\ c \in 0 .. 3 /\ s \in 0 .. 99
  <2>. HIDE DEF r
  <2>. QED
    BY <1>1, Z3
<1>3. s = 4 * f + t /\ f \in 0 .. 24 /\ t \in 0 .. 3
  <2>. HIDE DEF s
  <2>. QED
    BY <1>2, Z3
<1>. HIDE DEF q, r, c, s, f, t
<1>4. year = 400 * q + 100 * c + 4 * f + t
  BY <1>1, <1>2, <1>3, Z3
<1>. QED
  BY <1>1, <1>2, <1>3, <1>4

\* What the code computes from a year, in terms of its cycles.
SplitsInto(year, q, c, f, t) ==
  /\ year \div 400 = q
  /\ year % 400 = 100 * c + 4 * f + t
  /\ (year % 400) \div 100 = c
  /\ (year % 400) % 100 = 4 * f + t
  /\ ((year % 400) % 100) \div 4 = f
  /\ ((year % 400) % 100) % 4 = t
  /\ year % 100 = 4 * f + t
  /\ year % 4 = t

LEMMA CyclesOfYear ==
  ASSUME NEW year \in Years
  PROVE  \E q \in 0 .. 24, c \in 0 .. 3, f \in 0 .. 24, t \in 0 .. 3 :
           year = 400 * q + 100 * c + 4 * f + t /\ SplitsInto(year, q, c, f, t)
<1>0. PICK q \in 0 .. 24, c \in 0 .. 3, f \in 0 .. 24, t \in 0 .. 3 :
        year = 400 * q + 100 * c + 4 * f + t
  BY Cycles
<1>1. year \div 400 = q /\ year % 400 = 100 * c + 4 * f + t
  <2>1. 100 * c + 4 * f + t \in Int /\ 0 <= 100 * c + 4 * f + t /\ 100 * c + 4 * f + t < 400
    OBVIOUS
  <2>2. year \in Int /\ year = 400 * q + (100 * c + 4 * f + t)
    BY <1>0 DEF Years
  <2>. QED
    BY <2>1, <2>2, Division
<1>2. (year % 400) \div 100 = c /\ (year % 400) % 100 = 4 * f + t
  <2>1. 4 * f + t \in Int /\ 0 <= 4 * f + t /\ 4 * f + t < 100
    OBVIOUS
  <2>2. year % 400 \in Int /\ year % 400 = 100 * c + (4 * f + t)
    BY <1>1
  <2>. QED
    BY <2>1, <2>2, Division
<1>3. ((year % 400) % 100) \div 4 = f /\ ((year % 400) % 100) % 4 = t
  <2>1. (year % 400) % 100 \in Int /\ (year % 400) % 100 = 4 * f + t
    BY <1>2
  <2>. QED
    BY <2>1, Division
<1>4. year % 100 = 4 * f + t
  <2>1. 4 * f + t \in Int /\ 0 <= 4 * f + t /\ 4 * f + t < 100 /\ 4 * q + c \in Int
    OBVIOUS
  <2>2. year \in Int /\ year = 100 * (4 * q + c) + (4 * f + t)
    BY <1>0 DEF Years
  <2>. QED
    BY <2>1, <2>2, Division
<1>5. year % 4 = t
  <2>1. year \in Int /\ 100 * q + 25 * c + f \in Int
    BY DEF Years
  <2>2. year = 4 * (100 * q + 25 * c + f) + t
    BY <1>0
  <2>. QED
    BY <2>1, <2>2, Division
<1>6. SplitsInto(year, q, c, f, t)
  BY <1>1, <1>2, <1>3, <1>4, <1>5 DEF SplitsInto
<1>. QED
  BY <1>0, <1>6

\* What is read back in the cycles of 400 years.
LEMMA InAllYears ==
  ASSUME NEW days \in Int, 0 < days, days < MaximumDaysSinceEpoch,
         NEW q \in Int, NEW r \in Int, 0 <= r, r < 146097, days = 146097 * q + r
  PROVE  ExtractYearAndDays(days) = ReadInCycle400(400 * q, r)
<1>1. days \div 146097 = q /\ days % 146097 = r
  BY Division, SMT
<1>. QED
  BY <1>1, SMT DEF ExtractYearAndDays, DaysPerCycle400, MaximumDaysSinceEpoch

\* A day of a year is read back as a day of this year (daysSinceEpoch and
\* extractYearAndDays).
LEMMA YearRoundTrip ==
  ASSUME NEW year \in Years \ {0}, NEW day \in Nat,
         day < IF IsLeapYear(year) THEN 366 ELSE 365
  PROVE  ExtractYearAndDays(DaysBeforeYear(year) + day) = <<year, day>>
<1>1. PICK q \in 0 .. 24, c \in 0 .. 3, f \in 0 .. 24, t \in 0 .. 3 :
        year = 400 * q + 100 * c + 4 * f + t /\ SplitsInto(year, q, c, f, t)
  BY CyclesOfYear
<1>. DEFINE days  == DaysBeforeYear(year) + day
            first == IF 100 * c + 4 * f + t > 0 THEN 1 ELSE 0
            other == IF 4 * f + t > 0 THEN 1 ELSE 0
            last  == IF t > 0 THEN 1 ELSE 0
<1>3. days = 146097 * q + first + 36524 * c - other + 1461 * f + last + t * 365 + day
  <2>. DEFINE q0 == year \div 400
              r0 == year % 400
              c0 == r0 \div 100
              s0 == r0 % 100
              f0 == s0 \div 4
              t0 == s0 % 4
  <2>1. days = 146097 * q0 + (IF r0 > 0 THEN 1 ELSE 0) + 36524 * c0
                 - (IF s0 > 0 THEN 1 ELSE 0) + 1461 * f0
                 + (IF t0 > 0 THEN 1 ELSE 0) + t0 * 365 + day
    BY DEF DaysBeforeYear, DaysPerCycle400, DaysPerCycle100, DaysPerCycle4
  <2>2. /\ q0 = q /\ r0 = 100 * c + 4 * f + t /\ c0 = c
        /\ s0 = 4 * f + t /\ f0 = f /\ t0 = t
    BY <1>1 DEF SplitsInto
  <2>. HIDE DEF days, q0, r0, c0, s0, f0, t0
  <2>. QED
    BY <2>1, <2>2
<1>4. IsLeapYear(year) <=> (t = 0 /\ 4 * f + t # 0) \/ 100 * c + 4 * f + t = 0
  <2>. DEFINE r0 == year % 400
              s0 == year % 100
              t0 == year % 4
  <2>1. IsLeapYear(year) <=> (t0 = 0 /\ s0 # 0) \/ r0 = 0
    BY DEF IsLeapYear
  <2>2. r0 = 100 * c + 4 * f + t /\ s0 = 4 * f + t /\ t0 = t
    BY <1>1 DEF SplitsInto
  <2>. HIDE DEF r0, s0, t0
  <2>. QED
    BY <2>1, <2>2
<1>5. ASSUME NEW r \in Int, 0 <= r, r < 146097, q > 0 \/ r > 0, days = 146097 * q + r
      PROVE  days \in Int /\ 0 < days /\ days < MaximumDaysSinceEpoch
  <2>. HIDE DEF days
  <2>. QED
    BY <1>1, <1>5, SMT DEF MaximumDaysSinceEpoch, DaysPerCycle400
<1>. SUFFICES ExtractYearAndDays(days) = <<year, day>>
  OBVIOUS
<1>. HIDE DEF days
<1>0. /\ 400 * q \in Int /\ 400 * q + 100 * c \in Int
      /\ 400 * q + 100 * c + 4 * f \in Int
      /\ c \in Int /\ f \in Int /\ t \in Int /\ day \in Int
  OBVIOUS
<1>6. CASE 100 * c + 4 * f + t = 0
  <2>1. days = 146097 * q + day /\ day \in Int /\ 0 <= day /\ day < 366 /\ year = 400 * q
    BY <1>1, <1>3, <1>4, <1>6, SMT
  <2>2. days \in Int /\ 0 < days /\ days < MaximumDaysSinceEpoch
    BY <1>1, <1>5, <2>1, SMT
  <2>3. ExtractYearAndDays(days) = ReadInCycle400(400 * q, day)
    BY <1>1, <2>1, <2>2, InAllYears, SMT
  <2>. QED
    BY <2>1, <2>3, SMT DEF ReadInCycle400
<1>7. CASE 100 * c + 4 * f + t # 0 /\ 4 * f + t = 0
  <2>1. first = 1 /\ other = 0 /\ last = 0 /\ f = 0 /\ t = 0 /\ c \in 1 .. 3
    BY <1>1, <1>7, SMT
  <2>2. day < 365
    BY <1>4, <1>7, SMT
  <2>. HIDE DEF first, other, last
  <2>. DEFINE r == 1 + 36524 * c + day
  <2>3. days = 146097 * q + r
    BY <1>1, <1>3, <2>1, SMT
  <2>4. r \in Int /\ 0 <= r /\ r < 146097 /\ r >= 366 /\ r - 1 = 36524 * c + day /\ 0 <= day /\ day < 36524
    BY <2>1, <2>2, SMT
  <2>5. year = 400 * q + 100 * c
    BY <1>1, <2>1, SMT
  <2>. HIDE DEF r
  <2>6. days \in Int /\ 0 < days /\ days < MaximumDaysSinceEpoch
    BY <1>1, <1>5, <2>3, <2>4, SMT
  <2>7. ExtractYearAndDays(days) = ReadInCycle400(400 * q, r)
    BY <1>1, <2>3, <2>4, <2>6, InAllYears, SMT
  <2>8. ReadInCycle400(400 * q, r) = ReadInCentury(400 * q + 100 * c, day)
    <3>1. (r - 1) \div 36524 = c /\ (r - 1) % 36524 = day
      BY <1>0, <2>4, Division, SMT
    <3>. QED
      BY <2>4, <3>1, SMT DEF ReadInCycle400, DaysPerCycle100
  <2>. QED
    BY <2>2, <2>5, <2>7, <2>8, SMT DEF ReadInCentury
<1>8. CASE 4 * f + t # 0
  <2>1. first = 1 /\ other = 1 /\ last = IF t = 0 THEN 0 ELSE 1
    BY <1>1, <1>8, SMT
  <2>2. day < (IF t = 0 THEN 366 ELSE 365)
    BY <1>1, <1>4, <1>8, SMT
  <2>. HIDE DEF first, other, last
  <2>. DEFINE m == last + t * 365 + day
              n == 1461 * f + m - 1
              r == 36524 * c + n + 1
  <2>3. m \in Int /\ 0 <= m /\ m < 1461
    BY <1>1, <2>1, <2>2, SMT
  <2>4. t = 0 => m = day /\ m < 366
    BY <2>1, <2>2, SMT
  <2>5. t # 0 => m >= 366 /\ m - 1 = 365 * t + day /\ 0 <= day /\ day < 365
    BY <1>1, <2>1, <2>2, SMT
  <2>6. f >= 1 \/ m >= 366
    BY <1>1, <1>8, <2>5, SMT
  <2>7. days = 146097 * q + 36524 * c + 1461 * f + m
    BY <1>1, <1>3, <2>1, SMT
  <2>. HIDE DEF m
  <2>8. n \in Int /\ 0 <= n /\ n < 36524 /\ n >= 365 /\ n + 1 = 1461 * f + m
    BY <1>1, <2>3, <2>6, SMT
  <2>9. days = 146097 * q + r
    BY <1>1, <2>3, <2>7, SMT
  <2>. HIDE DEF n
  <2>10. r \in Int /\ 0 <= r /\ r < 146097 /\ r >= 366 /\ r - 1 = 36524 * c + n
    BY <1>1, <2>8, SMT
  <2>. HIDE DEF r
  <2>11. days \in Int /\ 0 < days /\ days < MaximumDaysSinceEpoch
    BY <1>1, <1>5, <2>9, <2>10, SMT
  <2>. DEFINE a == 400 * q
              b == a + 100 * c
              d == b + 4 * f
              z == d + t
  <2>a. /\ a \in Int /\ b \in Int /\ d \in Int /\ z \in Int
        /\ b = a + 100 * c /\ d = b + 4 * f /\ z = d + t
    BY <1>0
  <2>. HIDE DEF a, b, d, z
  <2>12. ExtractYearAndDays(days) = ReadInCycle400(a, r)
    BY <1>1, <2>9, <2>10, <2>11, InAllYears, SMT DEF a
  <2>13. ReadInCycle400(a, r) = ReadInCentury(b, n)
    <3>1. (r - 1) \div 36524 = c /\ (r - 1) % 36524 = n
      BY <1>0, <2>8, <2>10, Division, SMT
    <3>. QED
      BY <2>a, <2>10, <3>1, SMT DEF ReadInCycle400, DaysPerCycle100
  <2>14. ReadInCentury(b, n) = ReadInCycle4(d, m)
    <3>1. (n + 1) \div 1461 = f /\ (n + 1) % 1461 = m
      BY <1>0, <2>3, <2>8, Division, SMT
    <3>. QED
      BY <2>a, <2>8, <3>1, SMT DEF ReadInCentury, DaysPerCycle4
  <2>15. CASE t = 0
    <3>1. year = d
      BY <1>1, <2>15, SMT DEF a, b, d
    <3>. QED
      BY <2>4, <2>12, <2>13, <2>14, <2>15, <3>1, SMT DEF ReadInCycle4
  <2>16. CASE t # 0
    <3>1. ReadInCycle4(d, m) = <<z, day>>
      <4>1. (m - 1) \div 365 = t /\ (m - 1) % 365 = day
        BY <1>0, <2>3, <2>5, <2>16, Division, SMT
      <4>. QED
        BY <2>a, <2>3, <2>5, <2>16, <4>1, SMT DEF ReadInCycle4
    <3>2. year = z
      BY <1>1, SMT DEF a, b, d, z
    <3>. QED
      BY <1>1, <2>12, <2>13, <2>14, <3>1, <3>2, SMT
  <2>. QED
    BY <2>15, <2>16, SMT
<1>9. 100 * c + 4 * f + t = 0 \/ 4 * f + t # 0
        \/ (100 * c + 4 * f + t # 0 /\ 4 * f + t = 0)
  BY SMT
<1>. QED
  BY <1>6, <1>7, <1>8, <1>9

\* A day of a month is read back as a day of this month (extractMonthAndDay).
LEMMA MonthRoundTrip ==
  ASSUME NEW year \in Years, NEW month \in 1 .. 12,
         NEW day \in 1 .. DaysInMonth(year, month)
  PROVE  ExtractMonthAndDay(year, MonthStarts(year)[month] + (day - 1)) = <<month, day>>
<1>. DEFINE starts == MonthStarts(year)
            index == starts[month] + (day - 1)
<1>1. /\ \A m \in 1 .. 13 : starts[m] \in Int
      /\ \A m \in 1 .. 12 : starts[m + 1] = starts[m] + DaysInMonth(year, m)
      /\ \A m \in 1 .. 12 : DaysInMonth(year, m) \in 28 .. 31
  <2>1. CASE IsLeapYear(year)
    BY <2>1, SMTT(60) DEF MonthStarts, DaysInMonth
  <2>2. CASE ~IsLeapYear(year)
    BY <2>2, SMTT(60) DEF MonthStarts, DaysInMonth
  <2>. QED
    BY <2>1, <2>2
<1>2. \A m, n \in 1 .. 13 : m < n => starts[m] < starts[n]
  <2>1. CASE IsLeapYear(year)
    BY <2>1, SMTT(60) DEF MonthStarts
  <2>2. CASE ~IsLeapYear(year)
    BY <2>2, SMTT(60) DEF MonthStarts
  <2>. QED
    BY <2>1, <2>2
<1>. HIDE DEF starts
<1>3. index \in Int /\ starts[month] <= index /\ index < starts[month + 1]
  BY <1>1
<1>4. ASSUME NEW m \in 1 .. 12, starts[m] <= index, index < starts[m + 1]
      PROVE  m = month
  <2>1. CASE m < month
    <3>1. starts[m + 1] <= starts[month]
      BY <1>1, <1>2, <2>1
    <3>. QED
      BY <1>1, <1>3, <1>4, <3>1
  <2>2. CASE month < m
    <3>1. starts[month + 1] <= starts[m]
      BY <1>1, <1>2, <2>2
    <3>. QED
      BY <1>1, <1>3, <1>4, <3>1
  <2>. QED
    BY <2>1, <2>2
<1>. DEFINE Fits(m) == starts[m] <= index /\ index < starts[m + 1]
<1>5. (CHOOSE m \in 1 .. 12 : Fits(m)) = month
  <2>. HIDE DEF index
  <2>1. \A m \in 1 .. 12 : Fits(m) <=> m = month
    BY <1>3, <1>4
  <2>. QED
    BY <2>1
<1>6. index - starts[month] + 1 = day
  BY <1>1
<1>. QED
  BY <1>5, <1>6 DEF ExtractMonthAndDay, starts

\* Whatever valid date is stored, its year, month and day are read back
\* (Date::Date and Date::year, month and day).
THEOREM StoredDateIsReadBack ==
  ASSUME NEW year, NEW month, NEW day, IsValidDate(year, month, day)
  PROVE  DateOf(DaysSinceEpoch(year, month, day)) = <<year, month, day>>
<1>1. /\ year \in Years \ {0}
      /\ month \in 1 .. 12
      /\ day \in 1 .. DaysInMonth(year, month)
  BY DEF IsValidDate
<1>. DEFINE index == MonthStarts(year)[month] + (day - 1)
<1>2. index \in Nat /\ index < IF IsLeapYear(year) THEN 366 ELSE 365
  <2>1. CASE IsLeapYear(year)
    BY <1>1, <2>1, SMTT(60) DEF MonthStarts, DaysInMonth
  <2>2. CASE ~IsLeapYear(year)
    BY <1>1, <2>2, SMTT(60) DEF MonthStarts, DaysInMonth
  <2>. QED
    BY <2>1, <2>2
<1>3. DaysSinceEpoch(year, month, day) = DaysBeforeYear(year) + index
  <2>1. DaysBeforeYear(year) \in Int /\ MonthStarts(year)[month] \in Int /\ day - 1 \in Int
    <3>1. PICK q \in 0 .. 24, c \in 0 .. 3, f \in 0 .. 24, t \in 0 .. 3 :
            SplitsInto(year, q, c, f, t)
      BY <1>1, CyclesOfYear
    <3>2. DaysBeforeYear(year) \in Int
      <4>. DEFINE q0 == year \div 400
                  r0 == year % 400
                  c0 == r0 \div 100
                  s0 == r0 % 100
                  f0 == s0 \div 4
                  t0 == s0 % 4
      <4>1. DaysBeforeYear(year) =
              146097 * q0 + (IF r0 > 0 THEN 1 ELSE 0) + 36524 * c0
                - (IF s0 > 0 THEN 1 ELSE 0) + 1461 * f0
                + (IF t0 > 0 THEN 1 ELSE 0) + t0 * 365
        BY DEF DaysBeforeYear, DaysPerCycle400, DaysPerCycle100, DaysPerCycle4
      <4>2. /\ q0 = q /\ r0 = 100 * c + 4 * f + t /\ c0 = c
            /\ s0 = 4 * f + t /\ f0 = f /\ t0 = t
        BY <3>1 DEF SplitsInto
      <4>. HIDE DEF q0, r0, c0, s0, f0, t0
      <4>. QED
        BY <4>1, <4>2
    <3>3. MonthStarts(year)[month] \in Int /\ day - 1 \in Int
      <4>1. CASE IsLeapYear(year)
        BY <1>1, <4>1, SMTT(60) DEF MonthStarts, DaysInMonth
      <4>2. CASE ~IsLeapYear(year)
        BY <1>1, <4>2, SMTT(60) DEF MonthStarts, DaysInMonth
      <4>. QED
        BY <4>1, <4>2
    <3>. QED
      BY <3>2, <3>3
  <2>. QED
    BY <2>1 DEF DaysSinceEpoch
<1>4. ExtractYearAndDays(DaysBeforeYear(year) + index) = <<year, index>>
  BY <1>1, <1>2, YearRoundTrip
<1>5. ExtractMonthAndDay(year, index) = <<month, day>>
  BY <1>1, MonthRoundTrip
<1>. DEFINE days == DaysSinceEpoch(year, month, day)
            yearAndDay == ExtractYearAndDays(days)
            monthAndDay == ExtractMonthAndDay(yearAndDay[1], yearAndDay[2])
<1>6. DateOf(days) = <<yearAndDay[1], monthAndDay[1], monthAndDay[2]>>
  BY DEF DateOf
<1>. HIDE DEF index
<1>7. yearAndDay = <<year, index>>
  BY <1>3, <1>4
<1>. HIDE DEF yearAndDay
<1>8. yearAndDay[1] = year /\ yearAndDay[2] = index
  BY <1>7
<1>9. monthAndDay = <<month, day>>
  BY <1>5, <1>8
<1>. HIDE DEF monthAndDay
<1>. QED
  BY <1>6, <1>8, <1>9

-----------------------------------------------------------------------------
(* The saturating casts clamp, for integer types of every width.           *)

\* The remainder of a number below the modulus is the number.
LEMMA SmallRemainder ==
  ASSUME NEW x \in Nat, NEW n \in Nat, x < n
  PROVE x % n = x
  BY Z3

\* Converting a value that fits the type (static_cast) does not change it.
LEMMA CastKeepsFitting ==
  ASSUME NEW h \in Nat, NEW type \in IntegerTypes({h}), h > 0, NEW value \in ValuesOf(type)
  PROVE StaticCast(type, value) = value
<1> DEFINE x == value - MinOf(type)
<1>1. type.half = h /\ type.signed \in BOOLEAN
  BY DEF IntegerTypes
<1>2. x \in Nat /\ x < 2 * h /\ MinOf(type) \in Int /\ value \in Int
  BY <1>1 DEF ValuesOf, MinOf, MaxOf
<1>3. x % (2 * h) = x
  BY <1>2, SmallRemainder
<1> QED BY <1>1, <1>2, <1>3 DEF StaticCast
\* Twice the size: the halves of two types that differ are apart by a factor of two.
DoublingHalves(halves) ==
  /\ halves \subseteq Nat \ {0}
  /\ \A a, b \in halves : a < b => 2 * a <= b

\* A limit of the target that is compared fits the source type, so that its
\* conversion to the source type does not change it.
LEMMA ComparedLimitsFit ==
  ASSUME NEW halves, DoublingHalves(halves),
         NEW target \in IntegerTypes(halves), NEW source \in IntegerTypes(halves)
  PROVE  /\ TestsMinimum(target, source) => StaticCast(source, MinOf(target)) = MinOf(target)
         /\ TestsMaximum(target, source) => StaticCast(source, MaxOf(target)) = MaxOf(target)
<1>1. /\ target.half \in Nat \ {0} /\ target.signed \in BOOLEAN
      /\ source.half \in Nat \ {0} /\ source.signed \in BOOLEAN
  BY DEF IntegerTypes, DoublingHalves
<1>2. source \in IntegerTypes({source.half})
  BY <1>1 DEF IntegerTypes
<1>3. target.half < source.half => 2 * target.half <= source.half
  BY DEF IntegerTypes, DoublingHalves
<1>4. TestsMinimum(target, source) => MinOf(target) \in ValuesOf(source)
  BY <1>1, <1>3 DEF TestsMinimum, ValuesOf, MinOf, MaxOf
<1>5. TestsMaximum(target, source) => MaxOf(target) \in ValuesOf(source)
  BY <1>1, <1>3 DEF TestsMaximum, ValuesOf, MinOf, MaxOf
<1> QED BY <1>1, <1>2, <1>4, <1>5, CastKeepsFitting

\* A value that no comparison finds below or above the target type fits it.
LEMMA UntestedValuesFit ==
  ASSUME NEW halves, DoublingHalves(halves),
         NEW target \in IntegerTypes(halves), NEW source \in IntegerTypes(halves),
         NEW value \in ValuesOf(source)
  PROVE  /\ IsBelow(target, source, value) <=> value < MinOf(target)
         /\ IsAbove(target, source, value) <=> value > MaxOf(target)
<1>1. /\ target.half \in Nat \ {0} /\ target.signed \in BOOLEAN
      /\ source.half \in Nat \ {0} /\ source.signed \in BOOLEAN
  BY DEF IntegerTypes, DoublingHalves
<1>2. /\ target.half < source.half => 2 * target.half <= source.half
      /\ source.half < target.half => 2 * source.half <= target.half
  BY DEF IntegerTypes, DoublingHalves
<1>3. ~TestsMinimum(target, source) => value >= MinOf(target)
  BY <1>1, <1>2 DEF TestsMinimum, ValuesOf, MinOf, MaxOf
<1>4. ~TestsMaximum(target, source) => value <= MaxOf(target)
  BY <1>1, <1>2 DEF TestsMaximum, ValuesOf, MinOf, MaxOf
<1>5. value \in Int /\ MinOf(target) \in Int /\ MaxOf(target) \in Int
  BY <1>1 DEF ValuesOf, MinOf, MaxOf
<1> QED BY <1>3, <1>4, <1>5, ComparedLimitsFit DEF IsBelow, IsAbove

\* saturatingCast returns the value of the target type that is nearest to the
\* source value, for signed and unsigned types of all sizes: no conversion of a
\* limit between the types wraps around.
THEOREM SaturatingCastIsNearest ==
  ASSUME NEW halves, DoublingHalves(halves),
         NEW target \in IntegerTypes(halves), NEW source \in IntegerTypes(halves),
         NEW value \in ValuesOf(source)
  PROVE SaturatingCast(target, source, value) = Nearest(target, value)
<1>1. target.half \in Nat \ {0} /\ target.signed \in BOOLEAN
  BY DEF IntegerTypes, DoublingHalves
<1>2. value \in Int /\ MinOf(target) \in Int /\ MaxOf(target) \in Int
  BY <1>1 DEF ValuesOf, MinOf, MaxOf, IntegerTypes, DoublingHalves
<1>3. target \in IntegerTypes({target.half})
  BY <1>1 DEF IntegerTypes
<1>4. value \in ValuesOf(target) => StaticCast(target, value) = value
  BY <1>1, <1>3, CastKeepsFitting
<1>5. CASE target = source
  BY <1>2, <1>5 DEF SaturatingCast, Nearest, ValuesOf
<1>6. CASE target # source
  <2>1. ~IsBelow(target, source, value) /\ ~IsAbove(target, source, value)
          => value \in ValuesOf(target)
    BY <1>2, UntestedValuesFit DEF ValuesOf
  <2>2. MinOf(target) <= MaxOf(target)
    BY <1>1 DEF MinOf, MaxOf
  <2> QED BY <1>2, <1>4, <1>6, <2>1, <2>2, UntestedValuesFit DEF SaturatingCast, Nearest
<1> QED BY <1>5, <1>6

\* willSaturatingCastOverflow announces exactly the casts that change the value.
THEOREM OverflowIsAnnounced ==
  ASSUME NEW halves, DoublingHalves(halves),
         NEW target \in IntegerTypes(halves), NEW source \in IntegerTypes(halves),
         NEW value \in ValuesOf(source)
  PROVE WillSaturatingCastOverflow(target, source, value)
          <=> SaturatingCast(target, source, value) # value
<1>1. target.half \in Nat \ {0} /\ target.signed \in BOOLEAN
  BY DEF IntegerTypes, DoublingHalves
<1>2. value \in Int /\ MinOf(target) \in Int /\ MaxOf(target) \in Int
  BY <1>1 DEF ValuesOf, MinOf, MaxOf, IntegerTypes, DoublingHalves
<1> QED BY <1>2, UntestedValuesFit, SaturatingCastIsNearest
        DEF WillSaturatingCastOverflow, Nearest

-----------------------------------------------------------------------------
(* FastNameDecoder: what a rollback leads to can be decoded.               *)

\* The inductive invariant: what is read next, and where a rollback can lead,
\* has a decodable character.
DecoderInv == DecoderTypeOK /\ IndexesAgree /\ RollbackDecodes

\* The buffer is a sequence of bytes.
LEMMA BufferIsBytes ==
  ASSUME DecoderTypeOK
  PROVE  buffer \in Seq(Bytes) /\ Size \in Nat
BY BuffersAssumption DEF DecoderTypeOK, Size

\* The front and the last element of a stack that is not empty.
LEMMA InnermostElement ==
  ASSUME NEW S, NEW stack \in Seq(S), stack # <<>>
  PROVE  /\ Len(stack) \in Nat \ {0}
         /\ Front(stack) \in Seq(S)
         /\ Front(stack) = [i \in 1 .. Len(stack) - 1 |-> stack[i]]
         /\ Last(stack) = stack[Len(stack)]
         /\ Last(stack) \in S
<1>1. Len(stack) \in Nat \ {0}
  OBVIOUS
<1>2. Front(stack) = SubSeq(stack, 1, Len(stack) - 1) /\ Last(stack) = stack[Len(stack)]
  BY DEF Front, Last
<1>3. Front(stack) = [i \in 1 .. Len(stack) - 1 |-> stack[i]]
  BY <1>1, <1>2
<1>4. Front(stack) \in Seq(S) /\ Last(stack) \in S
  BY <1>1, <1>2, <1>3
<1> QED
  BY <1>1, <1>2, <1>3, <1>4

\* The transactions that stay open and the one that is closed.
LEMMA InnermostTransaction ==
  ASSUME DecoderTypeOK, transactions # <<>>
  PROVE  /\ Len(transactions) \in Nat \ {0}
         /\ Front(transactions) = [i \in 1 .. Len(transactions) - 1 |-> transactions[i]]
         /\ Front(transactions) \in Seq(0 .. Size)
         /\ Last(transactions) = transactions[Len(transactions)]
         /\ Last(transactions) \in 0 .. Size
BY InnermostElement DEF DecoderTypeOK

\* Decoding depends on the buffer only.
LEMMA DecodingIsStable ==
  ASSUME UNCHANGED buffer
  PROVE  \A i : Decodable(i)' = Decodable(i) /\ Behind(i)' = Behind(i)
BY DEF Decodable, Behind, Byte, Size

\* A decodable character ends inside of the buffer.
LEMMA BehindIsInBuffer ==
  ASSUME DecoderTypeOK, NEW i \in 0 .. Size, Decodable(i)
  PROVE  /\ Behind(i) \in 0 .. Size
         /\ i < Size => Behind(i) \in {i + 1, i + 2}
         /\ i = Size => Behind(i) = Size
<1>1. CASE i >= Size
  BY <1>1, BufferIsBytes DEF Behind
<1>2. CASE i < Size /\ Byte(i) = "ascii"
  BY <1>2, BufferIsBytes DEF Behind
<1>3. CASE i < Size /\ Byte(i) = "lead" /\ Byte(i + 1) = "tail"
  <2>1. i + 1 < Size
    BY <1>3, BufferIsBytes DEF Byte
  <2> QED
    BY <1>3, <2>1, BufferIsBytes DEF Behind
<1> QED
  BY <1>1, <1>2, <1>3, BufferIsBytes DEF Decodable

\* Stepping over a decodable character passes exactly one character.
LEMMA BehindIsNextCharacter ==
  ASSUME DecoderTypeOK, NEW i \in 0 .. Size, Decodable(i)
  PROVE  CharactersBefore(Behind(i)) =
           IF i = Size THEN CharactersBefore(i) ELSE CharactersBefore(i) + 1
<1> DEFINE Starts(n) == {j \in 1 .. n : buffer[j] # "tail"}
<1>1. CASE i = Size
  BY <1>1, BehindIsInBuffer
<1>2. CASE i < Size
  <2>1. Starts(Behind(i)) = Starts(i) \cup {i + 1}
    <3>1. CASE Byte(i) = "ascii"
      <4>1. Behind(i) = i + 1 /\ buffer[i + 1] = "ascii"
        BY <1>2, <3>1, BufferIsBytes DEF Behind, Byte
      <4> QED
        BY <4>1, BufferIsBytes
    <3>2. CASE Byte(i) = "lead" /\ Byte(i + 1) = "tail"
      <4>1. /\ Behind(i) = i + 2 /\ i + 1 < Size
            /\ buffer[i + 1] = "lead" /\ buffer[i + 2] = "tail"
        BY <1>2, <3>2, BufferIsBytes DEF Behind, Byte
      <4> QED
        BY <4>1, BufferIsBytes
    <3> QED
      BY <1>2, <3>1, <3>2, BufferIsBytes DEF Decodable
  <2>2. IsFiniteSet(1 .. i)
    BY FS_Interval, BufferIsBytes
  <2>3. IsFiniteSet(Starts(i))
    BY <2>2, FS_Subset
  <2>4. i + 1 \notin Starts(i)
    BY BufferIsBytes
  <2>5. Cardinality(Starts(i) \cup {i + 1}) = Cardinality(Starts(i)) + 1
    BY <2>3, <2>4, FS_AddElement
  <2> QED
    BY <1>2, <2>1, <2>5 DEF CharactersBefore
<1> QED
  BY <1>1, <1>2, BufferIsBytes

LEMMA DecoderInitEstablishes == InitDecoder => DecoderInv
<1> SUFFICES ASSUME InitDecoder PROVE DecoderInv
  OBVIOUS
<1>1. buffer \in Seq(Bytes) /\ Size \in Nat
  BY BuffersAssumption DEF InitDecoder, Size
<1>2. readIndex \in 0 .. Size
  BY <1>1 DEF InitDecoder, Behind, Decodable, Byte
<1>3. transactions = <<>> /\ transactions \in Seq(0 .. Size)
  BY DEF InitDecoder
<1>4. DecoderTypeOK
  BY <1>1, <1>2, <1>3 DEF InitDecoder, DecoderTypeOK
<1>5. IndexesAgree
  BY <1>1 DEF InitDecoder, IndexesAgree
<1>6. RollbackDecodes
  BY <1>3 DEF RollbackDecodes
<1> QED
  BY <1>4, <1>5, <1>6 DEF DecoderInv

LEMMA NextCharPreserves ==
  ASSUME DecoderInv, NextChar
  PROVE  DecoderInv'
<1>1. /\ DecoderTypeOK /\ IndexesAgree /\ RollbackDecodes
      /\ UNCHANGED <<buffer, transactions>>
      /\ readIndex \in 0 .. Size /\ Size' = Size
  BY DEF DecoderInv, NextChar, DecoderTypeOK, Size
<1>2. RollbackDecodes'
  BY <1>1, DecodingIsStable DEF RollbackDecodes
<1>3. CASE Decodable(readIndex)
  <2>1. Behind(readIndex) \in 0 .. Size
    BY <1>1, <1>3, BehindIsInBuffer
  <2>2. DecoderTypeOK'
    BY <1>1, <1>3, <2>1 DEF NextChar, DecoderTypeOK
  <2>3. IndexesAgree'
    BY <1>1, <1>3, DecodingIsStable DEF NextChar, IndexesAgree
  <2> QED
    BY <1>2, <2>2, <2>3 DEF DecoderInv
<1>4. CASE ~Decodable(readIndex)
  <2>1. DecoderTypeOK'
    BY <1>1, <1>4 DEF NextChar, DecoderTypeOK
  <2>2. IndexesAgree'
    BY <1>4 DEF NextChar, IndexesAgree
  <2> QED
    BY <1>2, <2>1, <2>2 DEF DecoderInv
<1> QED
  BY <1>3, <1>4

LEMMA StartTransactionPreserves ==
  ASSUME DecoderInv, StartTransaction
  PROVE  DecoderInv'
<1>1. /\ DecoderTypeOK /\ IndexesAgree /\ RollbackDecodes /\ ~thrown
      /\ UNCHANGED <<buffer, currentChar, charIndex, readIndex, thrown>>
      /\ transactions' = Append(transactions, charIndex)
      /\ Size' = Size
  BY DEF DecoderInv, StartTransaction, Size
<1>2. transactions \in Seq(0 .. Size) /\ charIndex \in 0 .. Size /\ Decodable(charIndex)
  BY <1>1 DEF DecoderTypeOK, IndexesAgree
<1>3. DecoderTypeOK'
  BY <1>1, <1>2 DEF DecoderTypeOK
<1>4. IndexesAgree'
  BY <1>1, DecodingIsStable DEF IndexesAgree
<1>5. RollbackDecodes'
  BY <1>1, <1>2, DecodingIsStable DEF RollbackDecodes
<1> QED
  BY <1>3, <1>4, <1>5 DEF DecoderInv

LEMMA CommitTransactionPreserves ==
  ASSUME DecoderInv, CommitTransaction
  PROVE  DecoderInv'
<1>1. /\ DecoderTypeOK /\ IndexesAgree /\ RollbackDecodes /\ transactions # <<>>
      /\ UNCHANGED <<buffer, currentChar, charIndex, readIndex, thrown>>
      /\ transactions' = Front(transactions)
      /\ Size' = Size
  BY DEF DecoderInv, CommitTransaction, Size
<1>2. DecoderTypeOK'
  BY <1>1, InnermostTransaction DEF DecoderTypeOK
<1>3. IndexesAgree'
  BY <1>1, DecodingIsStable DEF IndexesAgree
<1>4. RollbackDecodes'
  BY <1>1, InnermostTransaction, DecodingIsStable DEF RollbackDecodes
<1> QED
  BY <1>2, <1>3, <1>4 DEF DecoderInv

LEMMA RollbackTransactionPreserves ==
  ASSUME DecoderInv, RollbackTransaction
  PROVE  DecoderInv'
<1>1. /\ DecoderTypeOK /\ RollbackDecodes /\ transactions # <<>>
      /\ UNCHANGED <<buffer, thrown>>
      /\ transactions' = Front(transactions)
      /\ Size' = Size
  BY DEF DecoderInv, RollbackTransaction, Size
<1>2. Last(transactions) \in 0 .. Size /\ Decodable(Last(transactions))
  BY <1>1, InnermostTransaction DEF RollbackDecodes
<1>3. DecoderTypeOK'
  BY <1>1, <1>2, InnermostTransaction, BehindIsInBuffer
     DEF DecoderTypeOK, RollbackTransaction
<1>4. IndexesAgree'
  BY <1>1, <1>2, DecodingIsStable DEF IndexesAgree, RollbackTransaction
<1>5. RollbackDecodes'
  BY <1>1, InnermostTransaction, DecodingIsStable DEF RollbackDecodes
<1> QED
  BY <1>3, <1>4, <1>5 DEF DecoderInv

LEMMA DecoderNextPreserves ==
  ASSUME DecoderInv, [NextDecoder]_decoderVars
  PROVE  DecoderInv'
<1>1. CASE ThrowError
  BY <1>1, DecodingIsStable
     DEF DecoderInv, DecoderTypeOK, IndexesAgree, RollbackDecodes, ThrowError, Size
<1>2. CASE UNCHANGED decoderVars
  BY <1>2, DecodingIsStable
     DEF DecoderInv, DecoderTypeOK, IndexesAgree, RollbackDecodes, decoderVars, Size
<1> QED
  BY <1>1, <1>2, NextCharPreserves, StartTransactionPreserves,
     CommitTransactionPreserves, RollbackTransactionPreserves DEF NextDecoder

\* The invariant holds in all behaviours.
THEOREM DecoderInvIsInvariant == SpecDecoder => []DecoderInv
  BY DecoderInitEstablishes, DecoderNextPreserves, PTL DEF SpecDecoder

\* The function that rolls back may be noexcept: it never meets a byte that it
\* cannot decode, also when it runs because an encoding error was thrown.
THEOREM RollbackNeverThrows == SpecDecoder => []RollbackDecodes
<1>1. DecoderInv => RollbackDecodes
  BY DEF DecoderInv
<1> QED
  BY <1>1, DecoderInvIsInvariant, PTL

-----------------------------------------------------------------------------
\* The refinement

LEMMA CountingIsStable ==
  ASSUME UNCHANGED buffer
  PROVE  \A i : CharactersBefore(i)' = CharactersBefore(i)
BY DEF CharactersBefore

\* Every step is a step of the cursor or leaves it where it is.
LEMMA StepIsCursorStep ==
  ASSUME DecoderInv, [NextDecoder]_decoderVars
  PROVE  [Cursor!Next]_(Cursor!vars)
<1> DEFINE Marks == [i \in DOMAIN transactions |-> CharactersBefore(transactions[i])]
           Pos == CharactersBefore(charIndex)
           Positions == {CharactersBefore(i) : i \in 0 .. Size}
<1>1. DecoderTypeOK /\ transactions \in Seq(0 .. Size) /\ charIndex \in 0 .. Size
  BY DEF DecoderInv, DecoderTypeOK
<1>0. /\ Marks \in Seq(Positions)
      /\ Len(Marks) = Len(transactions)
      /\ DOMAIN Marks = 1 .. Len(transactions)
      /\ \A i \in 1 .. Len(transactions) : Marks[i] = CharactersBefore(transactions[i])
      /\ Len(transactions) \in Nat
  <2>1. DOMAIN transactions = 1 .. Len(transactions) /\ Len(transactions) \in Nat
    BY <1>1
  <2>2. \A i \in 1 .. Len(transactions) : transactions[i] \in 0 .. Size
    BY <1>1, ElementOfSeq
  <2> QED
    BY <2>1, <2>2
<1>2. UNCHANGED buffer
  BY DEF NextDecoder, NextChar, StartTransaction, CommitTransaction,
     RollbackTransaction, ThrowError, decoderVars
<1>3. CASE NextChar
  <2>1. Marks' = Marks
    BY <1>2, <1>3, CountingIsStable DEF NextChar
  <2>2. charIndex' = Behind(charIndex) /\ Decodable(charIndex)
    BY <1>3 DEF NextChar, DecoderInv, IndexesAgree
  <2>3. Pos' = CharactersBefore(Behind(charIndex))
    BY <1>2, <2>2, CountingIsStable
  <2>4. Pos' = Pos \/ Pos' = Pos + 1
    BY <1>1, <2>2, <2>3, BehindIsNextCharacter
  <2> QED
    BY <2>1, <2>4 DEF Cursor!Next, Cursor!Advance, Cursor!vars
<1>4. CASE StartTransaction
  <2>1. transactions' = Append(transactions, charIndex) /\ charIndex' = charIndex
    BY <1>4 DEF StartTransaction
  <2>2. Pos' = Pos
    BY <1>2, <2>1, CountingIsStable
  <2>3. Marks' = [i \in DOMAIN transactions' |-> CharactersBefore(transactions'[i])]
    BY <1>2, CountingIsStable
  <2>4. /\ DOMAIN transactions' = 1 .. Len(transactions) + 1
        /\ \A i \in 1 .. Len(transactions) : transactions'[i] = transactions[i]
        /\ transactions'[Len(transactions) + 1] = charIndex
    BY <1>1, <2>1
  <2>5. /\ Append(Marks, Pos) \in Seq(Positions)
        /\ Len(Append(Marks, Pos)) = Len(transactions) + 1
        /\ \A i \in 1 .. Len(transactions) : Append(Marks, Pos)[i] = Marks[i]
        /\ Append(Marks, Pos)[Len(transactions) + 1] = Pos
    <3>1. Pos \in Positions
      BY <1>1
    <3> HIDE DEF Marks, Pos, Positions
    <3> QED
      BY <1>0, <3>1, AppendProperties
  <2>6. Marks' = Append(Marks, Pos)
    BY <1>0, <2>3, <2>4, <2>5
  <2> QED
    BY <2>2, <2>6 DEF Cursor!Next, Cursor!Begin
<1>5. ASSUME transactions # <<>>, transactions' = Front(transactions)
      PROVE  Marks # <<>> /\ Marks' = Front(Marks)
  <2>1. /\ Len(transactions) \in Nat \ {0}
        /\ DOMAIN transactions' = 1 .. Len(transactions) - 1
        /\ \A i \in 1 .. Len(transactions) - 1 : transactions'[i] = transactions[i]
    BY <1>1, <1>5, InnermostTransaction
  <2>2. Marks # <<>>
    BY <1>0, <2>1
  <2>3. Front(Marks) = [i \in 1 .. Len(transactions) - 1 |-> Marks[i]]
    BY <1>0, <2>2, InnermostElement
  <2>4. Marks' = [i \in DOMAIN transactions' |-> CharactersBefore(transactions'[i])]
    BY <1>2, CountingIsStable
  <2>5. \A i \in 1 .. Len(transactions) - 1 : Marks[i] = CharactersBefore(transactions[i])
    BY <1>0, <2>1
  <2>6. Marks' = [i \in 1 .. Len(transactions) - 1 |-> Marks[i]]
    BY <2>1, <2>4, <2>5
  <2> QED
    BY <2>2, <2>3, <2>6
<1>6. CASE CommitTransaction
  <2>1. /\ transactions # <<>> /\ transactions' = Front(transactions)
        /\ Pos' = Pos
    BY <1>2, <1>6, CountingIsStable DEF CommitTransaction
  <2> QED
    BY <1>5, <2>1 DEF Cursor!Next, Cursor!Commit, Cursor!Front, Front
<1>7. CASE RollbackTransaction
  <2>1. /\ transactions # <<>> /\ transactions' = Front(transactions)
        /\ Pos' = CharactersBefore(Last(transactions))
    BY <1>2, <1>7, CountingIsStable DEF RollbackTransaction
  <2>2. Last(Marks) = CharactersBefore(Last(transactions))
    BY <1>1, <2>1 DEF Last
  <2> QED
    BY <1>5, <2>1, <2>2
       DEF Cursor!Next, Cursor!Rollback, Cursor!Front, Cursor!Last, Front, Last
<1>8. CASE ThrowError \/ UNCHANGED decoderVars
  BY <1>2, <1>8, CountingIsStable DEF ThrowError, decoderVars, Cursor!vars
<1> QED
  BY <1>3, <1>4, <1>6, <1>7, <1>8 DEF NextDecoder

\* FastNameDecoder is a cursor with backtracking: its two indexes replace the
\* buffers of the token decoder without a difference that a scanner can see.
THEOREM FastNameDecoderImplementsCursor == SpecDecoder => ImplementsCursor
<1>1. InitDecoder => Cursor!Init
  <2> SUFFICES ASSUME InitDecoder PROVE Cursor!Init
    OBVIOUS
  <2>1. CharactersBefore(0) = 0
    BY FS_EmptySet DEF CharactersBefore
  <2> QED
    BY <2>1 DEF InitDecoder, Cursor!Init
<1>2. DecoderInv /\ [NextDecoder]_decoderVars => [Cursor!Next]_(Cursor!vars)
  BY StepIsCursorStep
<1> QED
  BY <1>1, <1>2, DecoderInvIsInvariant, PTL DEF SpecDecoder, ImplementsCursor
=============================================================================
