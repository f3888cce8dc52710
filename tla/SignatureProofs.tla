--------------------------- MODULE SignatureProofs ---------------------------
(***************************************************************************)
(* Proofs about the two sides of a signature: what CharStream hashes when  *)
(* a document is read, for documents of every length with lines of every   *)
(* length, and what Signer signs and writes, for all texts and whatever    *)
(* happens to the files in the meantime.                                   *)
(***************************************************************************)
EXTENDS CharStream, Signer, TLAPS

-----------------------------------------------------------------------------
\* The inductive invariant

Reading == ~thrown /\ ~endOfData

Ranges ==
  /\ document \in Seq(SourceLines)
  /\ linesRead \in 0..Len(document)
  /\ lineLength \in 0..MaxLineLength
  /\ currentIndex \in Nat
  /\ position \in Nat \X Nat

\* The line number is zero exactly until the first line is read.
LinesAreCounted == Reading => (Undefined(position) <=> linesRead = 0)

\* The byte has its place in a valid character.
ByteIsValid(text, i) ==
  /\ text[i] # "control"
  /\ text[i] = "lead" => i < Len(text) /\ text[i + 1] = "tail"
  /\ text[i] = "tail" => i > 1 /\ text[i - 1] = "lead"

\* The line buffer begins with the last line that was read, and the bytes in
\* front of the index are valid, unless a cut-off character was completed with
\* what is behind the line: then the index never comes back to the line's end.
LineIsLoaded ==
  Reading =>
    IF linesRead = 0 THEN lineLength = 0 /\ currentIndex = 0
    ELSE /\ lineLength = Len(document[linesRead])
         /\ \A i \in 1..lineLength : line[i - 1] = document[linesRead][i]
         /\ currentIndex <= lineLength =>
              \A i \in 1..currentIndex : ByteIsValid(document[linesRead], i)

LinesBeforeAreValid == Reading => \A n \in 1..linesRead - 1 : IsValid(document[n])

EndIsLast == sourceAtEnd => linesRead = Len(document)

Inv ==
  /\ Ranges
  /\ LinesAreCounted
  /\ LineIsLoaded
  /\ LinesBeforeAreValid
  /\ EndIsLast
  /\ EndMeansValid
  /\ HashCoversContent

-----------------------------------------------------------------------------
\* Lemmas

LEMMA ValidByteByByte ==
  ASSUME NEW text \in SourceLines
  PROVE IsValid(text) <=> \A i \in 1..Len(text) : ByteIsValid(text, i)
<1>1. DOMAIN text = 1..Len(text)
  BY DEF SourceLines
<1> QED BY <1>1 DEF IsValid, ByteIsValid

\* Decoding the character at the index moves over valid bytes only.
LEMMA DecodingVerifies ==
  ASSUME NEW text \in SourceLines, NEW buffer, NEW start \in Nat, NEW pos, start < Len(text),
         \A i \in 1..Len(text) : buffer[i - 1] = text[i],
         \A i \in 1..start : ByteIsValid(text, i),
         DecodeAt(buffer, start, pos), ~thrown'
  PROVE /\ currentIndex' \in Nat
        /\ currentIndex' <= Len(text) => \A i \in 1..currentIndex' : ByteIsValid(text, i)
<1> DEFINE kind == Decoded(buffer, start)
<1>1. buffer[start] = text[start + 1] /\ text[start + 1] \in Bytes
  BY DEF SourceLines
<1>2. kind # "encoding" /\ kind # "control" /\ currentIndex' = Behind(buffer, start)
  BY DEF DecodeAt
<1>3. CASE kind = "two"
  <2>1. text[start + 1] = "lead" /\ start < MaxLineLength /\ buffer[start + 1] = "tail"
    BY <1>1, <1>3 DEF Decoded, Bytes
  <2>2. currentIndex' = start + 2
    BY <1>2, <1>3 DEF Behind
  <2>3. ASSUME start + 2 <= Len(text)
        PROVE ByteIsValid(text, start + 1) /\ ByteIsValid(text, start + 2)
    <3>1. text[start + 2] = "tail"
      BY <2>1, <2>3, start + 2 \in 1..Len(text) DEF SourceLines
    <3> QED BY <2>1, <2>3, <3>1 DEF ByteIsValid, SourceLines
  <2> QED BY <2>2, <2>3
<1>4. CASE kind # "two"
  <2>1. kind = text[start + 1] /\ text[start + 1] \notin {"lead", "tail", "control"}
    BY <1>1, <1>2, <1>4 DEF Decoded, Bytes
  <2>2. currentIndex' = start + 1
    BY <1>2, <1>4 DEF Behind
  <2>3. ByteIsValid(text, start + 1)
    BY <2>1 DEF ByteIsValid
  <2> QED BY <2>2, <2>3
<1> QED BY <1>3, <1>4

-----------------------------------------------------------------------------
\* The steps

LEMMA InitEstablishesInv == Init => Inv
BY DocumentsAssumption, MaxLineAssumption DEF Init, Inv, Ranges, LinesAreCounted, LineIsLoaded,
   LinesBeforeAreValid, EndIsLast, EndMeansValid, HashCoversContent, Reading, Undefined

LEMMA NextInLinePreserves == Inv /\ NextInLine => Inv'
<1> SUFFICES ASSUME Inv, NextInLine PROVE Inv'
  OBVIOUS
<1> USE DEF Inv
<1>1. UNCHANGED lineVars /\ UNCHANGED <<captureStart, endOfData>> /\ Reading
  BY DEF NextInLine, DecodeAt, Reading
<1>2. position' = NextColumn(position) /\ currentIndex' \in Nat /\ currentIndex' >= currentIndex
  BY DEF NextInLine, DecodeAt, Behind, Ranges
<1>3. Ranges'
  BY <1>1, <1>2 DEF Ranges, lineVars, NextColumn
<1>4. LinesAreCounted'
  BY <1>1, <1>2 DEF LinesAreCounted, Reading, Undefined, NextColumn, lineVars, Ranges
<1>5. LineIsLoaded'
  <2> SUFFICES ASSUME Reading' PROVE LineIsLoaded'
    BY DEF LineIsLoaded
  <2>1. linesRead # 0
    BY <1>1 DEF LineIsLoaded, NextInLine
  <2> DEFINE text == document[linesRead]
  <2>2. /\ text \in SourceLines
        /\ lineLength = Len(text)
        /\ \A i \in 1..lineLength : line[i - 1] = text[i]
        /\ currentIndex <= lineLength => \A i \in 1..currentIndex : ByteIsValid(text, i)
    BY <1>1, <2>1 DEF LineIsLoaded, Ranges
  <2>3. currentIndex' <= lineLength => \A i \in 1..currentIndex' : ByteIsValid(text, i)
    <3>1. CASE currentIndex < lineLength
      BY <2>2, <3>1, DecodingVerifies DEF NextInLine, Ranges, Reading
    <3>2. CASE currentIndex > lineLength
      BY <1>2, <3>2 DEF Ranges
    <3> QED BY <3>1, <3>2 DEF NextInLine, Ranges
  <2> QED BY <1>1, <2>1, <2>2, <2>3 DEF LineIsLoaded, lineVars
<1>6. LinesBeforeAreValid' /\ EndIsLast' /\ EndMeansValid' /\ HashCoversContent'
  BY <1>1 DEF LinesBeforeAreValid, EndIsLast, EndMeansValid, HashCoversContent, Reading, lineVars
<1> QED BY <1>3, <1>4, <1>5, <1>6

\* At the end of the last line, every line is known to be valid.
LEMMA LinesAreValid ==
  ASSUME Inv, Reading, currentIndex = lineLength
  PROVE \A n \in 1..linesRead : IsValid(document[n])
<1> USE DEF Inv
<1>1. ASSUME linesRead # 0 PROVE IsValid(document[linesRead])
  <2>1. document[linesRead] \in SourceLines
    BY <1>1 DEF Ranges
  <2> QED BY <1>1, <2>1, ValidByteByByte DEF LineIsLoaded, Ranges
<1> QED BY <1>1 DEF LinesBeforeAreValid, Ranges

LEMMA NextAtEndPreserves == Inv /\ NextAtEnd => Inv'
<1> SUFFICES ASSUME Inv, NextAtEnd PROVE Inv'
  OBVIOUS
<1> USE DEF Inv
<1>1. UNCHANGED lineVars /\ currentIndex' = currentIndex /\ endOfData' /\ Reading
  BY DEF NextAtEnd, CreateEndOfData, Reading
<1>2. Ranges'
  BY <1>1 DEF NextAtEnd, CreateEndOfData, Ranges, lineVars, NextColumn
<1>3. EndMeansValid'
  BY <1>1, LinesAreValid DEF NextAtEnd, EndIsLast, EndMeansValid, lineVars
<1> QED BY <1>1, <1>2, <1>3 DEF LinesAreCounted, LineIsLoaded, LinesBeforeAreValid, EndIsLast,
          HashCoversContent, Reading, lineVars

LEMMA NextOnEmptyLinePreserves == Inv /\ NextOnEmptyLine => Inv'
<1> SUFFICES ASSUME Inv, NextOnEmptyLine PROVE Inv'
  OBVIOUS
<1> USE DEF Inv
<1>1. UNCHANGED <<document, linesRead, hashEnabled, hashed>> /\ endOfData' /\ Reading
  BY DEF NextOnEmptyLine, CreateEndOfData, Reading
<1>2. Ranges'
  BY <1>1, MaxLineAssumption DEF NextOnEmptyLine, CreateEndOfData, Ranges, NextColumn
<1>3. EndMeansValid' /\ EndIsLast'
  BY <1>1, LinesAreValid DEF NextOnEmptyLine, EndMeansValid, EndIsLast
<1> QED BY <1>1, <1>2, <1>3 DEF LinesAreCounted, LineIsLoaded, LinesBeforeAreValid,
          HashCoversContent, Reading

\* The line that is read is in the buffer, and its first character is verified.
LEMMA FirstIsVerified ==
  ASSUME Inv, NextOnNewLine, ~thrown'
  PROVE /\ position'[1] > 0 /\ position' \in Nat \X Nat /\ currentIndex' \in Nat
        /\ lineLength' = Len(document[linesRead + 1])
        /\ \A i \in 1..lineLength' : line'[i - 1] = document[linesRead + 1][i]
        /\ currentIndex' <= lineLength' =>
             \A i \in 1..currentIndex' : ByteIsValid(document[linesRead + 1], i)
<1> DEFINE text == document[linesRead + 1]
<1> USE DEF Inv
<1>1. /\ linesRead < Len(document) /\ linesRead' = linesRead + 1 /\ document' = document
      /\ ReadNextLine(text) /\ DecodeFirst(line', lineLength') /\ ~thrown
  BY DEF NextOnNewLine, ReadNextLine
<1>2. text \in SourceLines /\ Len(text) \in 1..MaxLineLength
  BY <1>1 DEF Ranges, SourceLines
<1>3. lineLength' = Len(text) /\ \A i \in 1..Len(text) : line'[i - 1] = text[i]
  BY <1>1, <1>2, MaxLineAssumption DEF ReadNextLine
<1>4. CASE DecodeAt(line', 0, NextLine(position))
  <2>1. position' = NextLine(position)
    BY <1>4 DEF DecodeAt
  <2>2. currentIndex' \in Nat /\ (currentIndex' <= Len(text)
          => \A i \in 1..currentIndex' : ByteIsValid(text, i))
    BY <1>2, <1>3, <1>4, DecodingVerifies
  <2> QED BY <1>3, <2>1, <2>2 DEF NextLine, Ranges
<1>5. CASE line'[0] = "bom" /\ lineLength' > 1 /\ DecodeAt(line', 1, NextColumn(<<1, 1>>))
  <2>1. position' = NextColumn(<<1, 1>>)
    BY <1>5 DEF DecodeAt
  <2>2. \A i \in 1..1 : ByteIsValid(text, i)
    BY <1>2, <1>3, <1>5 DEF ByteIsValid
  <2>3. currentIndex' \in Nat /\ (currentIndex' <= Len(text)
          => \A i \in 1..currentIndex' : ByteIsValid(text, i))
    BY <1>2, <1>3, <1>5, <2>2, DecodingVerifies
  <2> QED BY <1>3, <2>1, <2>3 DEF NextColumn
<1>6. CASE line'[0] = "bom" /\ currentIndex' = 1 /\ position' = <<1, 1>>
  <2>1. ByteIsValid(text, 1)
    BY <1>2, <1>3, <1>6 DEF ByteIsValid
  <2> QED BY <1>3, <1>6, <2>1
<1> QED BY <1>1, <1>4, <1>5, <1>6 DEF DecodeFirst

LEMMA NextOnNewLinePreserves == Inv /\ NextOnNewLine => Inv'
<1> SUFFICES ASSUME Inv, NextOnNewLine PROVE Inv'
  OBVIOUS
<1> USE DEF Inv
<1>1. /\ linesRead < Len(document) /\ linesRead' = linesRead + 1 /\ document' = document
      /\ ReadNextLine(document[linesRead']) /\ endOfData' = endOfData /\ Reading
      /\ sourceAtEnd' \in {FALSE, linesRead' = Len(document)}
      /\ currentIndex = lineLength
  BY DEF NextOnNewLine, DecodeFirst, DecodeAt, Reading
<1>2. document[linesRead'] \in SourceLines /\ linesRead' \in 1..Len(document)
  BY <1>1 DEF Ranges
<1>3. lineLength' \in 1..MaxLineLength
  BY <1>1, <1>2 DEF ReadNextLine, SourceLines
<1>4. currentIndex' \in Nat /\ position' \in Nat \X Nat
  BY <1>3 DEF NextOnNewLine, DecodeFirst, DecodeAt, Behind, Ranges, NextLine, NextColumn
<1>5. Ranges'
  BY <1>1, <1>2, <1>3, <1>4 DEF Ranges
<1>6. LinesAreCounted' /\ LineIsLoaded'
  <2> SUFFICES ASSUME Reading' PROVE LinesAreCounted' /\ LineIsLoaded'
    BY DEF LinesAreCounted, LineIsLoaded
  <2>1. ~thrown'
    BY DEF Reading
  <2> QED BY <1>1, <1>2, <2>1, FirstIsVerified DEF LinesAreCounted, LineIsLoaded, Undefined
<1>7. LinesBeforeAreValid' /\ EndIsLast' /\ EndMeansValid'
  <2>1. \A n \in 1..linesRead : IsValid(document[n])
    BY <1>1, LinesAreValid
  <2>2. linesRead' - 1 = linesRead
    BY <1>1 DEF Ranges
  <2> QED BY <1>1, <2>1, <2>2 DEF LinesBeforeAreValid, EndIsLast, EndMeansValid, Reading
<1>8. HashCoversContent'
  <2> DEFINE signed == linesRead > 0 /\ IsSignatureLine(document[1])
  <2>1. (position[1] = 0) <=> (linesRead = 0)
    BY <1>1 DEF LinesAreCounted, Undefined
  <2>2. CASE linesRead = 0 /\ IsSignatureLine(document[1])
    BY <1>1, <2>1, <2>2 DEF ReadNextLine, HashCoversContent
  <2>3. CASE linesRead = 0 /\ ~IsSignatureLine(document[1])
    BY <1>1, <2>1, <2>3 DEF ReadNextLine, HashCoversContent
  <2>4. CASE linesRead # 0
    <3>1. signed' <=> signed
      BY <1>1, <2>4 DEF Ranges
    <3>2. hashed' = (IF hashEnabled THEN hashed \cup {linesRead + 1} ELSE hashed)
          /\ hashEnabled' = hashEnabled
      BY <1>1, <2>1, <2>4 DEF ReadNextLine
    <3>3. 1..linesRead + 1 = (1..linesRead) \cup {linesRead + 1} /\ linesRead + 1 # 1
      BY <2>4 DEF Ranges
    <3> QED BY <1>1, <2>4, <3>1, <3>2, <3>3 DEF HashCoversContent, Ranges
  <2> QED BY <2>2, <2>3, <2>4
<1> QED BY <1>5, <1>6, <1>7, <1>8

LEMMA OtherStepsPreserve ==
  Inv /\ (NextFails \/ CaptureTo \/ CaptureToEndOfLine \/ UNCHANGED vars) => Inv'
<1> SUFFICES ASSUME Inv, NextFails \/ CaptureTo \/ CaptureToEndOfLine \/ UNCHANGED vars
             PROVE Inv'
  OBVIOUS
<1>1. /\ UNCHANGED <<lineVars, currentIndex, position, endOfData>>
      /\ Reading' => Reading
  BY DEF NextFails, CaptureTo, CaptureToEndOfLine, vars, lineVars, Reading
<1> QED BY <1>1 DEF Inv, Ranges, LinesAreCounted, LineIsLoaded, LinesBeforeAreValid,
          EndIsLast, EndMeansValid, HashCoversContent, lineVars

-----------------------------------------------------------------------------
\* The theorems

\* The invariant holds in all behaviours.
THEOREM InvIsInvariant == Spec => []Inv
<1>1. Inv /\ [Next]_vars => Inv'
  BY NextInLinePreserves, NextAtEndPreserves, NextOnNewLinePreserves,
     NextOnEmptyLinePreserves, OtherStepsPreserve DEF Next
<1> QED BY <1>1, InitEstablishesInv, PTL DEF Spec

\* The hash of a signed document is that of its content: every line behind the
\* one with the signature, and nothing else.
THEOREM ContentIsHashed == Spec => []HashCoversContent
<1>1. Inv => HashCoversContent
  BY DEF Inv
<1> QED BY <1>1, InvIsInvariant, PTL

\* No document that is read to its end has an encoding error, although
\* characters are decoded from a buffer with bytes of earlier lines in it.
THEOREM EndIsValid == Spec => []EndMeansValid
<1>1. Inv => EndMeansValid
  BY DEF Inv
<1> QED BY <1>1, InvIsInvariant, PTL

-----------------------------------------------------------------------------
(* Signer *)


\* The signature is written by the last step only.
SignedLast ==
  /\ step # "end" => files[destination].signature # "real" /\ result = "none"
  /\ step = "end" => result # "none"

\* The digest that is signed is that of a valid text.
DigestIsOfText ==
  step \in {"sign", "open", "write", "signature"} => digest.body \in Bodies \ {Invalid}

\* The signature is written behind the text that was signed.
TextIsWritten ==
  step = "signature" /\ ~streamFailed => files[destination].body = digest.body

\* Until the destination is opened, both files are documents of somebody.
NothingIsWritten ==
  step \in {"digest", "sign", "open"} => files \in [{"source", "other"} -> SourceDocuments]

SignerInv ==
  /\ SignerTypeOK
  /\ NothingIsWritten
  /\ SignatureFitsText
  /\ SignedIsWritten
  /\ SignedLast
  /\ DigestIsOfText
  /\ TextIsWritten

USE DEF SignerFiles, SourceDocuments, Digests, Signatures, Steps, Categories

\* What can be in the destination behind a write.
LEMMA WrittenFile ==
  ASSUME SignerTypeOK, NEW file \in SignerFiles, Write(file)
  PROVE  /\ files' \in [{"source", "other"} -> SignerFiles]
         /\ \A p \in {"source", "other"} \ {destination} : files'[p] = files[p]
         /\ streamFailed' \in BOOLEAN
         /\ streamFailed => streamFailed'
         /\ ~streamFailed' => files'[destination] = file
         /\ files'[destination] \in {file, files[destination]}
<1>1. /\ files \in [{"source", "other"} -> SignerFiles]
      /\ destination \in {"source", "other"}
      /\ streamFailed \in BOOLEAN
  BY DEF SignerTypeOK
<1> HIDE DEF SignerFiles
<1>2. CASE /\ ~streamFailed
           /\ files' = [files EXCEPT ![destination] = file]
           /\ UNCHANGED streamFailed
  BY <1>1, <1>2
<1>3. CASE streamFailed' = TRUE /\ UNCHANGED files
  BY <1>1, <1>3
<1> QED
  BY <1>2, <1>3 DEF Write

\* The text is written as a whole, or in part, or not at all.
LEMMA WrittenText ==
  ASSUME SignerTypeOK, NEW text \in Bodies \cup {Torn}, WriteText(text)
  PROVE  /\ files' \in [{"source", "other"} -> SignerFiles]
         /\ \A p \in {"source", "other"} \ {destination} : files'[p] = files[p]
         /\ streamFailed' \in BOOLEAN
         /\ ~streamFailed' => files'[destination] = WithPlaceholder(text)
         /\ \/ files'[destination] = files[destination]
            \/ files'[destination].signature = "placeholder"
<1>1. /\ WithPlaceholder(text) \in SignerFiles
      /\ WithPlaceholder(Torn) \in SignerFiles
      /\ WithPlaceholder(text).signature = "placeholder"
      /\ WithPlaceholder(Torn).signature = "placeholder"
  BY DEF WithPlaceholder
<1>2. CASE Write(WithPlaceholder(text))
  BY <1>1, <1>2, WrittenFile
<1>3. CASE /\ streamFailed'
           /\ files' = [files EXCEPT ![destination] = WithPlaceholder(Torn)]
  BY <1>1, <1>3 DEF SignerTypeOK
<1> QED
  BY <1>2, <1>3 DEF WriteText

LEMMA InitEstablishes == SignerInit => SignerInv
<1> SUFFICES ASSUME SignerInit PROVE SignerInv
  OBVIOUS
<1>1. NoDigest \in Digests
  BY DEF NoDigest
<1>2. SignerTypeOK
  BY <1>1 DEF SignerInit, SignerTypeOK
<1>3. files[destination].signature # "real"
  BY DEF SignerInit
<1> QED
  BY <1>2, <1>3 DEF SignerInit, SignerInv, NothingIsWritten, SignatureFitsText, SignedIsWritten, SignedLast,
     DigestIsOfText, TextIsWritten

\* The digest is that of the source, which is a valid text.
LEMMA BuildDigestPreserves == SignerInv /\ BuildDigest => SignerInv'
<1> SUFFICES ASSUME SignerInv, BuildDigest PROVE SignerInv'
  OBVIOUS
<1>1. files["source"].body \in Bodies
  BY DEF SignerInv, NothingIsWritten, BuildDigest
<1>2. /\ UNCHANGED <<files, destination, streamFailed>>
      /\ step = "digest"
      /\ \/ step' = "end" /\ result' \in Categories /\ digest' = digest
         \/ /\ step' = "sign" /\ result' = result
            /\ digest' = DigestOf(files["source"])
            /\ digest'.body = files["source"].body
            /\ files["source"].body # Invalid
  <2>1. UNCHANGED <<files, destination, streamFailed>> /\ step = "digest"
    BY DEF BuildDigest
  <2>2. CASE \E how \in Categories : End(how) /\ UNCHANGED digest
    BY <2>1, <2>2 DEF End
  <2>3. CASE /\ files["source"].body # Invalid
             /\ digest' = DigestOf(files["source"])
             /\ GoOn("sign")
    <3>1. DigestOf(files["source"]).body = files["source"].body
      BY DEF DigestOf
    <3> QED
      BY <2>1, <2>3, <3>1 DEF GoOn
  <2> QED
    BY <2>2, <2>3 DEF BuildDigest
<1>3. digest' \in Digests
  <2>1. DigestOf(files["source"]) \in Digests
    BY <1>1 DEF SignerInv, SignerTypeOK, DigestOf
  <2> QED
    BY <1>2, <2>1 DEF SignerInv, SignerTypeOK
<1>4. SignerTypeOK'
  BY <1>2, <1>3 DEF SignerInv, SignerTypeOK
<1>5. (DigestIsOfText /\ SignedLast)'
  BY <1>1, <1>2 DEF SignerInv, DigestIsOfText, SignedLast
<1>6. (NothingIsWritten /\ SignatureFitsText /\ SignedIsWritten /\ TextIsWritten)'
  BY <1>2 DEF SignerInv, NothingIsWritten, SignatureFitsText, SignedIsWritten, SignedLast,
     TextIsWritten
<1> QED
  BY <1>4, <1>5, <1>6 DEF SignerInv

\* The callback writes nothing.
LEMMA SignPreserves == SignerInv /\ Sign => SignerInv'
<1> SUFFICES ASSUME SignerInv, Sign PROVE SignerInv'
  OBVIOUS
<1>1. /\ UNCHANGED <<files, destination, digest, streamFailed>>
      /\ step = "sign"
      /\ \/ step' = "end" /\ result' = "Signature"
         \/ step' = "open" /\ result' = result
  BY DEF Sign, End, GoOn
<1>2. SignerTypeOK'
  BY <1>1 DEF SignerInv, SignerTypeOK
<1>3. (NothingIsWritten /\ SignatureFitsText /\ SignedIsWritten)'
  BY <1>1 DEF SignerInv, NothingIsWritten, SignatureFitsText, SignedIsWritten, SignedLast
<1>4. (SignedLast /\ DigestIsOfText /\ TextIsWritten)'
  BY <1>1 DEF SignerInv, SignedLast, DigestIsOfText, TextIsWritten
<1> QED
  BY <1>2, <1>3, <1>4 DEF SignerInv

\* The destination becomes empty, or stays as it was.
LEMMA OpenDestinationPreserves == SignerInv /\ OpenDestination => SignerInv'
<1> SUFFICES ASSUME SignerInv, OpenDestination PROVE SignerInv'
  OBVIOUS
<1>1. EmptyFile \in SignerFiles /\ EmptyFile.signature = "none"
  BY BodiesAssumption DEF EmptyFile
<1>2. /\ step = "open" /\ step' = "write" /\ result' = result
      /\ UNCHANGED <<destination, digest>>
      /\ Write(EmptyFile)
  BY DEF OpenDestination, GoOn
<1>3. /\ files' \in [{"source", "other"} -> SignerFiles]
      /\ \A p \in {"source", "other"} \ {destination} : files'[p] = files[p]
      /\ streamFailed' \in BOOLEAN
      /\ files'[destination] \in {EmptyFile, files[destination]}
  BY <1>1, <1>2, WrittenFile DEF SignerInv
<1>4. files'[destination].signature # "real"
  BY <1>1, <1>2, <1>3 DEF SignerInv, SignedLast
<1>5. SignerTypeOK'
  BY <1>2, <1>3 DEF SignerInv, SignerTypeOK
<1>6. (SignedLast /\ DigestIsOfText)'
  BY <1>2, <1>4 DEF SignerInv, SignedLast, DigestIsOfText
<1>7. (NothingIsWritten /\ SignatureFitsText /\ SignedIsWritten /\ TextIsWritten)'
  BY <1>2, <1>4 DEF SignerInv, NothingIsWritten, SignatureFitsText, SignedIsWritten, SignedLast,
     TextIsWritten
<1> QED
  BY <1>5, <1>6, <1>7 DEF SignerInv

\* It goes on to the signature only if what was read has the digest that was
\* signed, and then, unless writing failed, this is what was written.
LEMMA WriteConfigurationPreserves == SignerInv /\ WriteConfiguration => SignerInv'
<1> SUFFICES ASSUME SignerInv, WriteConfiguration PROVE SignerInv'
  OBVIOUS
<1>1. /\ step = "write"
      /\ UNCHANGED <<destination, digest>>
  BY DEF WriteConfiguration
<1>2. PICK text \in Bodies \cup {Torn} :
        /\ WriteText(text)
        /\ \/ step' = "end" /\ result' \in Categories
           \/ /\ step' = "signature" /\ result' = result
              /\ text = digest.body
  <2>1. CASE End("IO") /\ \E text \in {NoText, Torn} : WriteText(text)
    BY <2>1, BodiesAssumption DEF End
  <2>2. CASE End("Encoding") /\ WriteText(Torn)
    BY <2>2 DEF End
  <2>3. CASE /\ WriteText(files["source"].body)
             /\ IF DigestIsUnchanged THEN GoOn("signature") ELSE End("Signature")
    <3>1. files["source"].body \in Bodies \cup {Torn}
      BY DEF SignerInv, SignerTypeOK
    <3>2. DigestIsUnchanged => files["source"].body = digest.body
      BY DEF DigestIsUnchanged, DigestOf
    <3> QED
      BY <2>3, <3>1, <3>2 DEF End, GoOn
  <2> QED
    BY <2>1, <2>2, <2>3 DEF WriteConfiguration
<1>3. /\ files' \in [{"source", "other"} -> SignerFiles]
      /\ \A p \in {"source", "other"} \ {destination} : files'[p] = files[p]
      /\ streamFailed' \in BOOLEAN
      /\ ~streamFailed' => files'[destination] = WithPlaceholder(text)
      /\ files'[destination].signature # "real"
  BY <1>1, <1>2, WrittenText DEF SignerInv, SignedLast
<1>4. SignerTypeOK'
  BY <1>1, <1>2, <1>3 DEF SignerInv, SignerTypeOK
<1>5. (SignedLast /\ DigestIsOfText)'
  BY <1>1, <1>2, <1>3 DEF SignerInv, SignedLast, DigestIsOfText
<1>6. TextIsWritten'
  BY <1>1, <1>2, <1>3 DEF TextIsWritten, WithPlaceholder
<1>7. (NothingIsWritten /\ SignatureFitsText /\ SignedIsWritten)'
  BY <1>1, <1>2, <1>3 DEF SignerInv, NothingIsWritten, SignatureFitsText, SignedIsWritten,
     SignedLast
<1> QED
  BY <1>4, <1>5, <1>6, <1>7 DEF SignerInv

\* The placeholder is overwritten behind the text that was signed, or not at all.
LEMMA WriteRealSignaturePreserves == SignerInv /\ WriteRealSignature => SignerInv'
<1> SUFFICES ASSUME SignerInv, WriteRealSignature PROVE SignerInv'
  OBVIOUS
<1> DEFINE signed == [files[destination] EXCEPT !.signature = "real"]
<1>1. /\ files[destination] \in SignerFiles
      /\ signed \in SignerFiles
      /\ signed.signature = "real"
      /\ signed.body = files[destination].body
  BY DEF SignerInv, SignerTypeOK
<1>2. /\ step = "signature" /\ step' = "end" /\ result' = "ok"
      /\ UNCHANGED <<destination, digest>>
      /\ Write(signed)
  BY DEF WriteRealSignature, End
<1> HIDE DEF signed
<1>3. /\ files' \in [{"source", "other"} -> SignerFiles]
      /\ \A p \in {"source", "other"} \ {destination} : files'[p] = files[p]
      /\ streamFailed' \in BOOLEAN
      /\ streamFailed => streamFailed'
      /\ ~streamFailed' => files'[destination] = signed
  BY <1>1, <1>2, WrittenFile DEF SignerInv
<1>4. \/ ~streamFailed /\ files'[destination] = signed
      \/ streamFailed' /\ files' = files
  BY <1>1, <1>2 DEF Write, SignerInv, SignerTypeOK
<1>5. SignerTypeOK'
  BY <1>2, <1>3 DEF SignerInv, SignerTypeOK
<1>6. SignatureFitsText'
  BY <1>1, <1>2, <1>4 DEF SignerInv, SignatureFitsText, TextIsWritten
<1>7. SignedIsWritten'
  <2> SUFFICES ASSUME ~streamFailed'
               PROVE  /\ files'[destination].signature = "real"
                      /\ files'[destination].body = digest.body
                      /\ files'[destination].body \in Bodies \ {Invalid}
    BY <1>2 DEF SignedIsWritten
  <2>1. ~streamFailed /\ files'[destination] = signed
    BY <1>4
  <2> QED
    BY <1>1, <1>2, <2>1 DEF SignerInv, TextIsWritten, DigestIsOfText
<1>8. (NothingIsWritten /\ SignedLast /\ DigestIsOfText /\ TextIsWritten)'
  BY <1>2 DEF NothingIsWritten, SignedLast, DigestIsOfText, TextIsWritten
<1> QED
  BY <1>5, <1>6, <1>7, <1>8 DEF SignerInv

\* Others change the source, but never the destination.
LEMMA SourceChangesPreserves == SignerInv /\ SourceChanges => SignerInv'
<1> SUFFICES ASSUME SignerInv, SourceChanges PROVE SignerInv'
  OBVIOUS
<1>1. /\ destination # "source"
      /\ UNCHANGED <<destination, step, digest, streamFailed, result>>
  BY DEF SourceChanges
<1>2. PICK file \in SourceDocuments : files' = [files EXCEPT !["source"] = file]
  BY DEF SourceChanges
<1>3. SignerTypeOK' /\ NothingIsWritten' /\ files'[destination] = files[destination]
  BY <1>1, <1>2 DEF SignerInv, SignerTypeOK, NothingIsWritten
<1>4. (SignatureFitsText /\ SignedIsWritten)'
  BY <1>1, <1>3 DEF SignerInv, SignatureFitsText, SignedIsWritten
<1>5. (SignedLast /\ DigestIsOfText /\ TextIsWritten)'
  BY <1>1, <1>3 DEF SignerInv, SignedLast, DigestIsOfText, TextIsWritten
<1> QED
  BY <1>3, <1>4, <1>5 DEF SignerInv

LEMMA NextPreserves == SignerInv /\ [SignerNext]_signerVars => SignerInv'
<1>1. SignerInv /\ UNCHANGED signerVars => SignerInv'
  BY DEF signerVars, SignerInv, SignerTypeOK, NothingIsWritten, SignatureFitsText, SignedIsWritten,
     SignedLast, DigestIsOfText, TextIsWritten
<1> QED
  BY <1>1, BuildDigestPreserves, SignPreserves, OpenDestinationPreserves,
     WriteConfigurationPreserves, WriteRealSignaturePreserves, SourceChangesPreserves
     DEF SignerNext

\* The invariant holds in all behaviours.
THEOREM SignerInvIsInvariant == SignerSpec => []SignerInv
  BY InitEstablishes, NextPreserves, PTL DEF SignerSpec

\* Whenever the program is stopped, and whatever other programs write into the
\* source: no signature stands in front of a text that was not signed with it.
THEOREM SignaturesFit == SignerSpec => []SignatureFitsText
<1>1. SignerInv => SignatureFitsText
  BY DEF SignerInv
<1> QED
  BY <1>1, SignerInvIsInvariant, PTL

\* A call that returns, and whose writes did not fail, has written the whole text
\* that the callback was asked to sign.
THEOREM SignedTextIsWritten == SignerSpec => []SignedIsWritten
<1>1. SignerInv => SignedIsWritten
  BY DEF SignerInv
<1> QED
  BY <1>1, SignerInvIsInvariant, PTL

\* Nothing is written before the signature was given, and never a file that is
\* not the destination.
THEOREM OthersAreLeftAlone == SignerSpec => OnlyDestinationIsWritten
<1> DEFINE Step ==
      /\ step \in {"digest", "sign"} => UNCHANGED files \/ SourceChanges
      /\ step' # step => \A p \in DOMAIN files \ {destination} : files'[p] = files[p]
<1>1. SignerInv /\ [SignerNext]_signerVars => [Step]_signerVars
  <2> SUFFICES ASSUME SignerInv, SignerNext PROVE Step
    OBVIOUS
  <2>1. CASE BuildDigest
    BY <2>1 DEF BuildDigest
  <2>2. CASE Sign
    BY <2>2 DEF Sign
  <2>3. CASE OpenDestination
    BY <2>3 DEF OpenDestination, Write, SignerInv, SignerTypeOK
  <2>4. CASE WriteConfiguration
    <3>1. step = "write"
      BY <2>4 DEF WriteConfiguration
    <3>2. \/ files' = files
          \/ \E file : files' = [files EXCEPT ![destination] = file]
      BY <2>4 DEF WriteConfiguration, WriteText, Write
    <3> QED
      BY <3>1, <3>2 DEF SignerInv, SignerTypeOK
  <2>5. CASE WriteRealSignature
    BY <2>5 DEF WriteRealSignature, Write, SignerInv, SignerTypeOK
  <2>6. CASE SourceChanges
    BY <2>6 DEF SourceChanges
  <2> QED
    BY <2>1, <2>2, <2>3, <2>4, <2>5, <2>6 DEF SignerNext
<1> QED
  BY <1>1, SignerInvIsInvariant, PTL DEF SignerSpec, OnlyDestinationIsWritten
=============================================================================
