-------------------------- MODULE TokenDecoderProofs --------------------------
(***************************************************************************)
(* Proofs about TokenDecoder, for all documents and any nesting of         *)
(* transactions.                                                           *)
(***************************************************************************)
EXTENDS TokenDecoder, SequenceTheorems, TLAPS

\* A sequence without its last element.
LEMMA FrontProperties ==
  ASSUME NEW S, NEW seq \in Seq(S), seq # <<>>
  PROVE  /\ Front(seq) \in Seq(S)
         /\ Len(Front(seq)) = Len(seq) - 1
         /\ \A i \in 1 .. Len(seq) - 1 : Front(seq)[i] = seq[i]
         /\ Last(seq) = seq[Len(seq)]
         /\ Len(seq) \in Nat \ {0}
<1>1. Len(seq) \in Nat \ {0}
  OBVIOUS
<1>2. Front(seq) = SubSeq(seq, 1, Len(seq) - 1) /\ Last(seq) = seq[Len(seq)]
  BY DEF Front, Last
<1>3. Front(seq) = [i \in 1 .. Len(seq) - 1 |-> seq[i]]
  BY <1>1, <1>2
<1>4. Front(seq) \in Seq(S) /\ Len(Front(seq)) = Len(seq) - 1
  BY <1>1, <1>3
<1> QED
  BY <1>1, <1>2, <1>3, <1>4

\* What a rollback reads again: everything that was recorded since the start of
\* the transaction, and the current character.
LEMMA ReplayedCharacters ==
  ASSUME transactionBuffer \in Seq(Positions), current \in Positions,
         NEW start \in 0 .. Len(transactionBuffer)
  PROVE  /\ Replayed(start) \in Seq(Positions)
         /\ Len(Replayed(start)) = Len(transactionBuffer) - start + 1
         /\ \A m \in 1 .. Len(transactionBuffer) - start :
              Replayed(start)[m] = transactionBuffer[start + m]
         /\ Replayed(start)[Len(transactionBuffer) - start + 1] = current
         /\ Head(Replayed(start)) =
              IF start < Len(transactionBuffer) THEN transactionBuffer[start + 1]
              ELSE current
<1> DEFINE recorded == SubSeq(transactionBuffer, start + 1, Len(transactionBuffer))
<1>1. recorded \in Seq(Positions) /\ Len(recorded) = Len(transactionBuffer) - start
  OBVIOUS
<1>2. \A m \in 1 .. Len(recorded) : recorded[m] = transactionBuffer[start + m]
  OBVIOUS
<1>3. Replayed(start) = Append(recorded, current)
  BY DEF Replayed
<1> HIDE DEF recorded
<1> QED
  BY <1>1, <1>2, <1>3

\* The buffer behind a rollback: the replayed characters are put on top of the
\* ones that were waiting already, the last one first.
PutBack(waiting, again) == waiting \o Reverse(Tail(again))

LEMMA CharactersPutBack ==
  ASSUME NEW S, NEW waiting \in Seq(S), NEW again \in Seq(S), again # <<>>
  PROVE  /\ PutBack(waiting, again) \in Seq(S)
         /\ Len(PutBack(waiting, again)) = Len(waiting) + Len(again) - 1
         /\ \A j \in 1 .. Len(waiting) : PutBack(waiting, again)[j] = waiting[j]
         /\ \A j \in Len(waiting) + 1 .. Len(waiting) + Len(again) - 1 :
              PutBack(waiting, again)[j] = again[Len(again) + 1 - (j - Len(waiting))]
<1> DEFINE tail == Tail(again)
           back == Reverse(tail)
           result == PutBack(waiting, again)
<1>1. tail \in Seq(S) /\ Len(tail) = Len(again) - 1
  OBVIOUS
<1>2. \A m \in 1 .. Len(tail) : tail[m] = again[m + 1]
  OBVIOUS
<1>3. back = [m \in 1 .. Len(tail) |-> tail[Len(tail) - m + 1]]
  BY DEF Reverse
<1>4. result = waiting \o back
  BY DEF PutBack
<1> HIDE DEF tail, result
<1>5. back \in Seq(S) /\ Len(back) = Len(tail)
  BY <1>1, <1>3
<1>6. \A m \in 1 .. Len(back) : back[m] = tail[Len(tail) - m + 1]
  BY <1>1, <1>3, <1>5
<1>7. \A m \in 1 .. Len(back) : back[m] = again[Len(again) + 1 - m]
  <2> TAKE m \in 1 .. Len(back)
  <2> DEFINE i == Len(tail) - m + 1
  <2>1. i \in 1 .. Len(tail) /\ i + 1 = Len(again) + 1 - m
    BY <1>1, <1>5
  <2>2. back[m] = tail[i] /\ tail[i] = again[i + 1]
    BY <1>2, <1>6, <2>1
  <2> QED
    BY <2>1, <2>2
<1> HIDE DEF back
<1>8. result \in Seq(S) /\ Len(result) = Len(waiting) + Len(back)
  BY <1>4, <1>5, ConcatProperties
<1>9. \A j \in 1 .. Len(waiting) : result[j] = waiting[j]
  BY <1>4, <1>5
<1>10. ASSUME NEW j \in Len(waiting) + 1 .. Len(waiting) + Len(back)
       PROVE  result[j] = again[Len(again) + 1 - (j - Len(waiting))]
  <2> DEFINE m == j - Len(waiting)
  <2>1. m \in 1 .. Len(back)
    BY <1>5
  <2>2. result[j] = back[m]
    BY <1>4, <1>5
  <2> QED
    BY <1>7, <2>1, <2>2
<1> QED
  BY <1>1, <1>5, <1>8, <1>9, <1>10 DEF result

-----------------------------------------------------------------------------
\* The transactions are nested: none starts before the one that encloses it or
\* behind what has been recorded.
TransactionsAreNested ==
  \A i \in DOMAIN transactions :
    /\ transactions[i] <= Len(transactionBuffer)
    /\ \A j \in 1 .. i : transactions[j] <= transactions[i]

\* The inductive invariant: the buffers hold the text around the current
\* character, at any depth of transactions.
Inv ==
  /\ TypeOK
  /\ TransactionsAreNested
  /\ RecordedIsWhatPrecedes
  /\ ReplayIsWhatFollows
  /\ UpcomingErrorIsAhead

\* When nothing waits to be read again, the decoder is at the end of what was
\* read from the stream; otherwise the next character is the one on the stack.
LEMMA NextCharacter ==
  ASSUME Inv, thrown = "none"
  PROVE  /\ characterBuffer = <<>> => current = streamPos
         /\ characterBuffer # <<>> =>
              /\ Last(characterBuffer) = current + 1
              /\ Front(characterBuffer) \in Seq(Positions)
              /\ Len(Front(characterBuffer)) = Len(characterBuffer) - 1
              /\ \A j \in 1 .. Len(characterBuffer) - 1 :
                   Front(characterBuffer)[j] = characterBuffer[j]
<1>1. /\ characterBuffer \in Seq(Positions)
      /\ current \in Nat /\ streamPos \in Nat
      /\ streamPos = current + Len(characterBuffer)
      /\ \A j \in DOMAIN characterBuffer :
           characterBuffer[j] \in Nat /\ characterBuffer[j] + j = streamPos + 1
  BY DEF Inv, TypeOK, Positions, ReplayIsWhatFollows
<1>2. characterBuffer = <<>> => current = streamPos
  BY <1>1
<1>3. ASSUME characterBuffer # <<>>
      PROVE  Last(characterBuffer) = current + 1
  <2>1. characterBuffer \in Seq(Positions)
    BY <1>1
  <2>2. /\ Last(characterBuffer) = characterBuffer[Len(characterBuffer)]
        /\ Len(characterBuffer) \in Nat \ {0}
    BY <1>3, <2>1, FrontProperties
  <2>3. Len(characterBuffer) \in DOMAIN characterBuffer
    BY <2>1, <2>2
  <2> QED
    BY <1>1, <2>2, <2>3
<1>4. ASSUME characterBuffer # <<>>
      PROVE  /\ Front(characterBuffer) \in Seq(Positions)
             /\ Len(Front(characterBuffer)) = Len(characterBuffer) - 1
             /\ \A j \in 1 .. Len(characterBuffer) - 1 :
                  Front(characterBuffer)[j] = characterBuffer[j]
  BY <1>1, <1>4, FrontProperties
<1> QED
  BY <1>2, <1>3, <1>4

\* What the decoder sees at an index depends only on the document.
LEMMA KindIsStable ==
  ASSUME UNCHANGED document
  PROVE  \A i : Kind(i)' = Kind(i) /\ LineBreakOrEnd(i)' = LineBreakOrEnd(i)
BY DEF Kind, LineBreakOrEnd

\* Steps that do not touch the buffers preserve the invariant.
LEMMA BuffersUntouched ==
  ASSUME Inv,
         UNCHANGED <<document, streamPos, current, characterBuffer,
                     transactionBuffer, transactions, hasUpcomingError>>,
         captureStart' \in Positions,
         thrown' \in Outcomes, thrown = "io" => thrown' = "io"
  PROVE  Inv'
<1>1. TypeOK'
  BY DEF Inv, TypeOK, Positions
<1>2. TransactionsAreNested'
  BY DEF Inv, TransactionsAreNested
<1>3. RecordedIsWhatPrecedes'
  BY KindIsStable DEF Inv, RecordedIsWhatPrecedes
<1>4. ReplayIsWhatFollows'
  BY KindIsStable DEF Inv, ReplayIsWhatFollows
<1>5. UpcomingErrorIsAhead'
  BY KindIsStable DEF Inv, UpcomingErrorIsAhead
<1> QED
  BY <1>1, <1>2, <1>3, <1>4, <1>5 DEF Inv

\* What an open transaction records when the current character is replaced.
LEMMA RecordedCharacters ==
  ASSUME Inv, RecordCurrent
  PROVE  /\ transactionBuffer' \in Seq(Positions)
         /\ transactions = <<>> => transactionBuffer' = transactionBuffer
         /\ transactions # <<>> =>
              /\ Len(transactionBuffer') = Len(transactionBuffer) + 1
              /\ \A i \in 1 .. Len(transactionBuffer) :
                   transactionBuffer'[i] = transactionBuffer[i]
              /\ transactionBuffer'[Len(transactionBuffer) + 1] = current
<1>1. transactionBuffer \in Seq(Positions) /\ current \in Positions
  BY DEF Inv, TypeOK
<1>2. CASE transactions = <<>>
  BY <1>1, <1>2 DEF RecordCurrent
<1>3. CASE transactions # <<>>
  <2>1. transactionBuffer' = Append(transactionBuffer, current)
    BY <1>3 DEF RecordCurrent
  <2> QED
    BY <1>1, <1>3, <2>1, AppendProperties
<1> QED
  BY <1>2, <1>3

\* A recorded step forward keeps the transactions nested.
LEMMA RecordingKeepsNesting ==
  ASSUME Inv, RecordCurrent, UNCHANGED transactions
  PROVE  TransactionsAreNested'
<1>1. transactions \in Seq(Nat) /\ transactionBuffer \in Seq(Positions)
  BY DEF Inv, TypeOK
<1>2. Len(transactionBuffer') >= Len(transactionBuffer)
  BY <1>1, RecordedCharacters
<1>3. Len(transactionBuffer') \in Nat
  BY RecordedCharacters
<1> QED
  BY <1>1, <1>2, <1>3 DEF Inv, TransactionsAreNested

\* A recorded step forward extends the recorded text by the character it leaves.
LEMMA RecordingExtendsText ==
  ASSUME Inv, thrown = "none", RecordCurrent, UNCHANGED <<document, transactions>>,
         transactions # <<>> => current' = current + 1 /\ ~LineBreakOrEnd(current)
  PROVE  RecordedIsWhatPrecedes'
<1> SUFFICES ASSUME transactions # <<>>,
                    NEW i \in transactions[1] + 1 .. Len(transactionBuffer')
             PROVE  /\ transactionBuffer'[i] + (Len(transactionBuffer') - i) + 1 = current'
                    /\ ~LineBreakOrEnd(transactionBuffer'[i])
  BY DEF RecordedIsWhatPrecedes, LineBreakOrEnd, Kind
<1>1. /\ transactions[1] \in Nat
      /\ transactionBuffer \in Seq(Positions)
      /\ current \in Nat
      /\ \A j \in 1 .. Len(transactionBuffer) : transactionBuffer[j] \in Nat
  <2>1. transactionBuffer \in Seq(Positions) /\ transactions \in Seq(Nat)
    BY DEF Inv, TypeOK
  <2>2. \A p \in Positions : p \in Nat
    BY DEF Positions
  <2>3. transactions[1] \in Nat
    BY <2>1
  <2> QED
    BY <2>1, <2>2, <2>3 DEF Inv, TypeOK
<1>2. /\ Len(transactionBuffer') = Len(transactionBuffer) + 1
      /\ transactionBuffer'[Len(transactionBuffer) + 1] = current
      /\ \A j \in 1 .. Len(transactionBuffer) :
           transactionBuffer'[j] = transactionBuffer[j]
  BY RecordedCharacters
<1>3. CASE i = Len(transactionBuffer) + 1
  BY <1>1, <1>2, <1>3
<1>4. CASE i # Len(transactionBuffer) + 1
  <2>1. i \in transactions[1] + 1 .. Len(transactionBuffer)
    BY <1>1, <1>2, <1>4
  <2>2. /\ transactionBuffer[i] + (Len(transactionBuffer) - i) + 1 = current
        /\ ~LineBreakOrEnd(transactionBuffer[i])
    BY <2>1 DEF Inv, RecordedIsWhatPrecedes
  <2>3. transactionBuffer'[i] = transactionBuffer[i] /\ transactionBuffer[i] \in Nat
    BY <1>1, <1>2, <2>1
  <2> QED
    BY <1>1, <1>2, <2>1, <2>2, <2>3
<1> QED
  BY <1>3, <1>4

\* Reading from the stream.  An error mark that was read before is the current
\* character, so it stops next() before it comes here.
LEMMA NextFromStreamPreserves ==
  ASSUME Inv, thrown = "none", NextFromStream, UNCHANGED <<document, transactions>>,
         Kind(current) # "bad", transactions = <<>> \/ ~LineBreakOrEnd(current),
         captureStart' \in Positions
  PROVE  Inv'
<1>1. /\ characterBuffer = <<>> /\ characterBuffer' = <<>>
      /\ RecordCurrent
      /\ current' = NextInStream /\ streamPos' = NextInStream
      /\ thrown' = thrown
  BY DEF NextFromStream
<1>2. current = streamPos
  BY <1>1, NextCharacter
<1>3. /\ streamPos \in Positions
      /\ Len(document) \in Nat
  BY DocumentsAssumption DEF Inv, TypeOK, Positions
<1>4. NextInStream \in Positions
  BY <1>3 DEF NextInStream, Positions
<1>5. transactions # <<>> => current' = current + 1 /\ ~LineBreakOrEnd(current)
  <2> SUFFICES ASSUME transactions # <<>>
               PROVE  streamPos # Len(document) + 1
    BY <1>1, <1>2 DEF NextInStream
  <2>1. Kind(streamPos) # "end"
    BY <1>2 DEF LineBreakOrEnd
  <2> QED
    BY <1>3, <2>1, DocumentsAssumption DEF Kind, Inv, TypeOK
<1>6. TypeOK'
  <2>1. transactionBuffer' \in Seq(Positions)
    BY <1>1, RecordedCharacters
  <2>2. hasUpcomingError' \in BOOLEAN
    BY DEF NextFromStream
  <2> QED
    BY <1>1, <1>4, <2>1, <2>2 DEF Inv, TypeOK, Positions
<1>7. TransactionsAreNested'
  BY <1>1, RecordingKeepsNesting
<1>8. RecordedIsWhatPrecedes'
  BY <1>1, <1>5, RecordingExtendsText
<1>9. ReplayIsWhatFollows'
  BY <1>1, <1>3, <1>4 DEF ReplayIsWhatFollows, Positions
<1>10. UpcomingErrorIsAhead'
  <2>1. ~hasUpcomingError
    BY <1>2 DEF Inv, UpcomingErrorIsAhead
  <2> QED
    BY <1>1, <2>1, KindIsStable DEF NextFromStream, UpcomingErrorIsAhead
<1> QED
  BY <1>6, <1>7, <1>8, <1>9, <1>10 DEF Inv

\* Reading a character again that was put back.
LEMMA NextFromBufferPreserves ==
  ASSUME Inv, thrown = "none", NextFromBuffer, UNCHANGED <<document, transactions>>,
         captureStart' \in Positions
  PROVE  Inv'
<1>1. /\ characterBuffer # <<>> /\ RecordCurrent
      /\ current' = Last(characterBuffer)
      /\ characterBuffer' = Front(characterBuffer)
      /\ UNCHANGED <<streamPos, hasUpcomingError, thrown>>
  BY DEF NextFromBuffer
<1>2. /\ characterBuffer \in Seq(Positions)
      /\ current \in Nat /\ streamPos \in Nat
      /\ streamPos = current + Len(characterBuffer)
      /\ ~LineBreakOrEnd(current)
      /\ \A j \in DOMAIN characterBuffer :
           /\ characterBuffer[j] + j = streamPos + 1
           /\ j > 1 => ~LineBreakOrEnd(characterBuffer[j])
  BY <1>1 DEF Inv, TypeOK, Positions, ReplayIsWhatFollows
<1>3. /\ current' = current + 1
      /\ characterBuffer' \in Seq(Positions)
      /\ Len(characterBuffer') = Len(characterBuffer) - 1
      /\ \A j \in 1 .. Len(characterBuffer) - 1 : characterBuffer'[j] = characterBuffer[j]
  BY <1>1, NextCharacter
<1>4. /\ Len(characterBuffer) \in Nat \ {0}
      /\ current' = characterBuffer[Len(characterBuffer)]
  BY <1>1, <1>2, FrontProperties
<1>5. TypeOK'
  <2>1. current' \in Positions
    BY <1>2, <1>4
  <2>2. transactionBuffer' \in Seq(Positions)
    BY <1>1, RecordedCharacters
  <2> QED
    BY <1>1, <1>3, <2>1, <2>2 DEF Inv, TypeOK, Positions
<1>6. TransactionsAreNested'
  BY <1>1, RecordingKeepsNesting
<1>7. RecordedIsWhatPrecedes'
  BY <1>1, <1>2, <1>3, RecordingExtendsText
<1>8. ReplayIsWhatFollows'
  <2>1. streamPos' = current' + Len(characterBuffer')
    BY <1>1, <1>2, <1>3, <1>4
  <2>2. ASSUME NEW j \in DOMAIN characterBuffer'
        PROVE  /\ characterBuffer'[j] + j = streamPos' + 1
               /\ j > 1 => ~LineBreakOrEnd(characterBuffer'[j])
    <3>1. j \in DOMAIN characterBuffer /\ characterBuffer'[j] = characterBuffer[j]
      BY <1>2, <1>3, <1>4
    <3> QED
      BY <1>1, <1>2, <3>1
  <2>3. ASSUME characterBuffer' # <<>>
        PROVE  ~LineBreakOrEnd(current')
    <3>1. Len(characterBuffer) > 1
      BY <1>3, <1>4, <2>3
    <3> QED
      BY <1>2, <1>4, <3>1
  <2> QED
    BY <2>1, <2>2, <2>3 DEF ReplayIsWhatFollows, LineBreakOrEnd, Kind
<1>9. UpcomingErrorIsAhead'
  BY <1>1, KindIsStable DEF Inv, UpcomingErrorIsAhead
<1> QED
  BY <1>5, <1>6, <1>7, <1>8, <1>9 DEF Inv

\* TokenDecoder::next.  Crossing the end of a line is an error, and no error
\* mark can be pending then: it would be the current character.
LEMMA NextCharPreserves ==
  ASSUME Inv, NextChar, captureStart' \in Positions
  PROVE  Inv'
<1>1. thrown = "none" /\ UNCHANGED <<document, transactions>>
  BY DEF NextChar
<1>2. CASE Kind(current) = "bad" /\ NextAfterError
  <2>1. thrown' \in Outcomes
    BY <1>2 DEF NextAfterError, Outcomes
  <2> QED
    BY <1>1, <1>2, <2>1, BuffersUntouched DEF NextAfterError
<1>3. CASE transactions # <<>> /\ LineBreakOrEnd(current) /\ NextAcrossLineEnd
  <2>1. characterBuffer = <<>>
    BY <1>1, <1>3 DEF Inv, ReplayIsWhatFollows
  <2>2. ~hasUpcomingError
    BY <1>1, <1>3, <2>1, NextCharacter DEF Inv, UpcomingErrorIsAhead, LineBreakOrEnd
  <2>3. thrown' \in Outcomes
    BY <1>3, <2>2 DEF NextAcrossLineEnd, Outcomes
  <2> QED
    BY <1>1, <1>3, <2>2, <2>3, BuffersUntouched DEF NextAcrossLineEnd
<1>4. CASE /\ Kind(current) # "bad"
           /\ transactions = <<>> \/ ~LineBreakOrEnd(current)
           /\ NextFromStream
  BY <1>1, <1>4, NextFromStreamPreserves
<1>5. CASE NextFailsInSource
  <2>1. /\ RecordCurrent /\ thrown' = "io"
        /\ UNCHANGED <<streamPos, current, characterBuffer, hasUpcomingError>>
    BY <1>5 DEF NextFailsInSource
  <2>2. TypeOK'
    <3>1. transactionBuffer' \in Seq(Positions)
      BY <2>1, RecordedCharacters
    <3> QED
      BY <1>1, <2>1, <3>1 DEF Inv, TypeOK, Positions, Outcomes
  <2>3. TransactionsAreNested'
    BY <1>1, <2>1, RecordingKeepsNesting
  <2>4. RecordedIsWhatPrecedes' /\ ReplayIsWhatFollows'
    BY <2>1 DEF RecordedIsWhatPrecedes, ReplayIsWhatFollows
  <2>5. UpcomingErrorIsAhead'
    BY <1>1, <2>1, KindIsStable DEF Inv, UpcomingErrorIsAhead
  <2> QED
    BY <2>2, <2>3, <2>4, <2>5 DEF Inv
<1>6. CASE NextFromBuffer
  BY <1>1, <1>6, NextFromBufferPreserves
<1> QED
  BY <1>2, <1>3, <1>4, <1>5, <1>6 DEF NextChar

LEMMA StartTransactionPreserves ==
  ASSUME Inv, StartTransaction
  PROVE  Inv'
<1>1. /\ thrown = "none"
      /\ transactions' = Append(transactions, Len(transactionBuffer))
      /\ UNCHANGED <<document, streamPos, current, characterBuffer,
                     transactionBuffer, hasUpcomingError, captureStart, thrown>>
  BY DEF StartTransaction
<1>2. transactions \in Seq(Nat) /\ transactionBuffer \in Seq(Positions)
  BY DEF Inv, TypeOK
<1>3. Len(transactionBuffer) \in Nat
  BY <1>2
<1>4. /\ transactions' \in Seq(Nat)
      /\ Len(transactions') = Len(transactions) + 1
      /\ \A i \in 1 .. Len(transactions) : transactions'[i] = transactions[i]
      /\ transactions'[Len(transactions) + 1] = Len(transactionBuffer)
  BY <1>1, <1>2, <1>3, AppendProperties
<1>5. TypeOK'
  BY <1>1, <1>4 DEF Inv, TypeOK, Positions
<1>6. TransactionsAreNested'
  <2>1. \A i \in 1 .. Len(transactions) :
          /\ transactions[i] \in Nat
          /\ transactions[i] <= Len(transactionBuffer)
          /\ \A j \in 1 .. i : transactions[j] <= transactions[i]
    BY <1>2 DEF Inv, TransactionsAreNested
  <2> SUFFICES ASSUME NEW i \in 1 .. Len(transactions) + 1
               PROVE  /\ transactions'[i] <= Len(transactionBuffer)
                      /\ \A j \in 1 .. i : transactions'[j] <= transactions'[i]
    BY <1>1, <1>4 DEF TransactionsAreNested
  <2>2. CASE i \in 1 .. Len(transactions)
    <3>1. transactions'[i] = transactions[i]
      BY <1>4, <2>2
    <3>2. ASSUME NEW j \in 1 .. i
          PROVE  transactions'[j] = transactions[j] /\ transactions[j] <= transactions[i]
      BY <1>2, <1>4, <2>1, <2>2
    <3> QED
      BY <2>1, <2>2, <3>1, <3>2
  <2>3. CASE i = Len(transactions) + 1
    <3>1. ASSUME NEW j \in 1 .. i
          PROVE  transactions'[j] <= Len(transactionBuffer)
      <4>1. CASE j = i
        BY <1>3, <1>4, <2>3, <4>1
      <4>2. CASE j \in 1 .. Len(transactions)
        BY <1>4, <2>1, <4>2
      <4> QED
        BY <1>2, <2>3, <4>1, <4>2
    <3> QED
      BY <1>3, <1>4, <2>3, <3>1
  <2> QED
    BY <1>2, <2>2, <2>3
<1>7. RecordedIsWhatPrecedes'
  <2>1. CASE transactions = <<>>
    <3>1. transactions'[1] = Len(transactionBuffer)
      BY <1>2, <1>4, <2>1
    <3> QED
      BY <1>1, <1>3, <3>1 DEF RecordedIsWhatPrecedes
  <2>2. CASE transactions # <<>>
    <3>1. transactions'[1] = transactions[1]
      BY <1>2, <1>4, <2>2
    <3> QED
      BY <1>1, <2>2, <3>1, KindIsStable DEF Inv, RecordedIsWhatPrecedes
  <2> QED
    BY <2>1, <2>2
<1>8. ReplayIsWhatFollows' /\ UpcomingErrorIsAhead'
  BY <1>1, KindIsStable DEF Inv, ReplayIsWhatFollows, UpcomingErrorIsAhead
<1> QED
  BY <1>5, <1>6, <1>7, <1>8 DEF Inv

\* What is left when the innermost transaction is closed.
LEMMA OuterTransactions ==
  ASSUME Inv, transactions # <<>>, transactions' = Front(transactions)
  PROVE  /\ transactions' \in Seq(Nat)
         /\ Len(transactions') = Len(transactions) - 1
         /\ \A i \in 1 .. Len(transactions) - 1 : transactions'[i] = transactions[i]
         /\ Last(transactions) \in 0 .. Len(transactionBuffer)
         /\ \A i \in 1 .. Len(transactions) :
              /\ transactions[i] \in 0 .. Last(transactions)
              /\ \A j \in 1 .. i : transactions[j] <= transactions[i]
<1>1. transactions \in Seq(Nat) /\ transactionBuffer \in Seq(Positions)
  BY DEF Inv, TypeOK
<1>2. /\ transactions' \in Seq(Nat)
      /\ Len(transactions') = Len(transactions) - 1
      /\ \A i \in 1 .. Len(transactions) - 1 : transactions'[i] = transactions[i]
      /\ Last(transactions) = transactions[Len(transactions)]
      /\ Len(transactions) \in Nat \ {0}
  BY <1>1, FrontProperties
<1>3. \A i \in 1 .. Len(transactions) :
        /\ transactions[i] \in Nat
        /\ transactions[i] <= Len(transactionBuffer)
        /\ \A j \in 1 .. i : transactions[j] <= transactions[i]
  BY <1>1 DEF Inv, TransactionsAreNested
<1>4. Last(transactions) \in 0 .. Len(transactionBuffer)
  BY <1>1, <1>2, <1>3
<1>5. \A i \in 1 .. Len(transactions) : transactions[i] \in 0 .. Last(transactions)
  BY <1>2, <1>3, <1>4
<1> QED
  BY <1>2, <1>3, <1>4, <1>5

LEMMA CommitTransactionPreserves ==
  ASSUME Inv, CommitTransaction
  PROVE  Inv'
<1>1. /\ thrown = "none" /\ transactions # <<>>
      /\ transactions' = Front(transactions)
      /\ UNCHANGED <<document, streamPos, current, characterBuffer,
                     transactionBuffer, hasUpcomingError, captureStart, thrown>>
  BY DEF CommitTransaction
<1>2. transactions \in Seq(Nat) /\ transactionBuffer \in Seq(Positions)
  BY DEF Inv, TypeOK
<1>3. TypeOK'
  BY <1>1, OuterTransactions DEF Inv, TypeOK, Positions
<1>4. TransactionsAreNested'
  <2> SUFFICES ASSUME NEW i \in 1 .. Len(transactions) - 1
               PROVE  /\ transactions'[i] <= Len(transactionBuffer)
                      /\ \A j \in 1 .. i : transactions'[j] <= transactions'[i]
    BY <1>1, OuterTransactions DEF TransactionsAreNested
  <2>1. transactions'[i] = transactions[i] /\ i \in 1 .. Len(transactions)
    BY <1>1, <1>2, OuterTransactions
  <2>2. transactions[i] <= Len(transactionBuffer)
    BY <1>2, <2>1 DEF Inv, TransactionsAreNested
  <2>3. ASSUME NEW j \in 1 .. i
        PROVE  transactions'[j] = transactions[j] /\ transactions[j] <= transactions[i]
    <3>1. j \in 1 .. Len(transactions) - 1
      BY <1>2
    <3>2. transactions'[j] = transactions[j]
      BY <1>1, <3>1, OuterTransactions
    <3> QED
      BY <1>2, <2>1, <3>2 DEF Inv, TransactionsAreNested
  <2> QED
    BY <2>1, <2>2, <2>3
<1>5. RecordedIsWhatPrecedes'
  <2> SUFFICES ASSUME transactions' # <<>>
               PROVE  transactions'[1] = transactions[1]
    BY <1>1, KindIsStable DEF Inv, RecordedIsWhatPrecedes
  <2> QED
    BY <1>1, <1>2, OuterTransactions
<1>6. ReplayIsWhatFollows' /\ UpcomingErrorIsAhead'
  BY <1>1, KindIsStable DEF Inv, ReplayIsWhatFollows, UpcomingErrorIsAhead
<1> QED
  BY <1>3, <1>4, <1>5, <1>6 DEF Inv

\* What a rollback does to the buffers.
LEMMA RolledBackCharacters ==
  ASSUME Inv, RollbackTransaction, NEW start, start = Last(transactions)
  PROVE  /\ current' = IF start < Len(transactionBuffer)
                       THEN transactionBuffer[start + 1] ELSE current
         /\ current' \in Positions
         /\ transactionBuffer' \in Seq(Positions)
         /\ Len(transactionBuffer') = start
         /\ \A i \in 1 .. start : transactionBuffer'[i] = transactionBuffer[i]
         /\ characterBuffer' \in Seq(Positions)
         /\ Len(characterBuffer') = Len(characterBuffer) + Len(transactionBuffer) - start
         /\ \A j \in 1 .. Len(characterBuffer) : characterBuffer'[j] = characterBuffer[j]
         /\ \A k \in 1 .. Len(transactionBuffer) - start :
              characterBuffer'[Len(characterBuffer) + k] =
                IF k = 1 THEN current
                ELSE transactionBuffer[Len(transactionBuffer) + 2 - k]
<1> DEFINE n == Len(transactionBuffer)
           again == Replayed(start)
<1>1. /\ transactionBuffer \in Seq(Positions) /\ current \in Positions
      /\ characterBuffer \in Seq(Positions)
      /\ n \in Nat
  BY DEF Inv, TypeOK
<1>2. /\ current' = Head(again)
      /\ characterBuffer' = characterBuffer \o Reverse(Tail(again))
      /\ transactionBuffer' = SubSeq(transactionBuffer, 1, start)
      /\ transactions # <<>> /\ transactions' = Front(transactions)
  BY DEF RollbackTransaction, RewindTo
<1>3. start \in 0 .. n
  BY <1>2, OuterTransactions
<1>4. /\ again \in Seq(Positions)
      /\ Len(again) = n - start + 1
      /\ \A m \in 1 .. n - start : again[m] = transactionBuffer[start + m]
      /\ again[n - start + 1] = current
      /\ Head(again) = IF start < n THEN transactionBuffer[start + 1] ELSE current
  BY <1>1, <1>3, ReplayedCharacters
<1> HIDE DEF again
<1>5. again # <<>>
  BY <1>1, <1>3, <1>4
<1>6. current' \in Positions
  BY <1>2, <1>4, <1>5, HeadTailProperties
<1>7. /\ transactionBuffer' \in Seq(Positions)
      /\ Len(transactionBuffer') = start
      /\ \A i \in 1 .. start : transactionBuffer'[i] = transactionBuffer[i]
  BY <1>1, <1>2, <1>3
<1>8. /\ characterBuffer' \in Seq(Positions)
      /\ Len(characterBuffer') = Len(characterBuffer) + Len(again) - 1
      /\ \A j \in 1 .. Len(characterBuffer) : characterBuffer'[j] = characterBuffer[j]
      /\ \A j \in Len(characterBuffer) + 1 .. Len(characterBuffer) + Len(again) - 1 :
           characterBuffer'[j] = again[Len(again) + 1 - (j - Len(characterBuffer))]
  <2>1. characterBuffer' = PutBack(characterBuffer, again)
    BY <1>2 DEF PutBack
  <2> DEFINE result == PutBack(characterBuffer, again)
  <2>2. characterBuffer \in Seq(Positions) /\ again \in Seq(Positions)
    BY <1>1, <1>4
  <2>3. /\ result \in Seq(Positions)
        /\ Len(result) = Len(characterBuffer) + Len(again) - 1
        /\ \A j \in 1 .. Len(characterBuffer) : result[j] = characterBuffer[j]
        /\ \A j \in Len(characterBuffer) + 1 .. Len(characterBuffer) + Len(again) - 1 :
             result[j] = again[Len(again) + 1 - (j - Len(characterBuffer))]
    BY <1>5, <2>2, CharactersPutBack
  <2> QED
    BY <2>1, <2>3
<1>9. ASSUME NEW k \in 1 .. n - start
      PROVE  characterBuffer'[Len(characterBuffer) + k] =
               IF k = 1 THEN current ELSE transactionBuffer[n + 2 - k]
  <2> DEFINE j == Len(characterBuffer) + k
             m == Len(again) + 1 - k
  <2>1. /\ j \in Len(characterBuffer) + 1 .. Len(characterBuffer) + Len(again) - 1
        /\ j - Len(characterBuffer) = k
    BY <1>1, <1>3, <1>4
  <2>2. characterBuffer'[j] = again[m]
    BY <1>8, <2>1
  <2>3. CASE k = 1
    BY <1>1, <1>3, <1>4, <2>2, <2>3
  <2>4. CASE k # 1
    <3>1. m = n - start + 2 - k
      BY <1>1, <1>3, <1>4
    <3>2. k \in 2 .. n - start
      BY <1>1, <1>3, <2>4
    <3>3. m \in 1 .. n - start /\ start + m = n + 2 - k
      BY <1>1, <1>3, <3>1, <3>2
    <3>4. again[m] = transactionBuffer[start + m]
      BY <1>4, <3>3
    <3> QED
      BY <2>2, <2>4, <3>3, <3>4
  <2> QED
    BY <2>3, <2>4
<1>10. current' = IF start < n THEN transactionBuffer[start + 1] ELSE current
  BY <1>2, <1>4
<1>11. Len(characterBuffer') = Len(characterBuffer) + n - start
  BY <1>1, <1>3, <1>4, <1>8
<1> QED
  BY <1>6, <1>7, <1>8, <1>9, <1>10, <1>11

\* A rollback moves the text that was recorded since the start of the
\* transaction from one buffer to the other.
LEMMA RollbackTransactionPreserves ==
  ASSUME Inv, RollbackTransaction
  PROVE  Inv'
<1> DEFINE start == Last(transactions)
           n == Len(transactionBuffer)
           c == Len(characterBuffer)
<1>1. /\ transactions # <<>> /\ transactions' = Front(transactions)
      /\ UNCHANGED <<document, streamPos, hasUpcomingError, captureStart, thrown>>
  BY DEF RollbackTransaction
<1>2. /\ transactionBuffer \in Seq(Positions) /\ characterBuffer \in Seq(Positions)
      /\ transactions \in Seq(Nat)
      /\ current \in Nat /\ streamPos \in Nat /\ n \in Nat /\ c \in Nat
      /\ Len(transactions) \in Nat \ {0}
  BY <1>1, FrontProperties DEF Inv, TypeOK, Positions
<1>3. /\ transactions' \in Seq(Nat)
      /\ Len(transactions') = Len(transactions) - 1
      /\ \A i \in 1 .. Len(transactions) - 1 : transactions'[i] = transactions[i]
      /\ start \in 0 .. n
      /\ \A i \in 1 .. Len(transactions) :
           /\ transactions[i] \in 0 .. start
           /\ \A j \in 1 .. i : transactions[j] <= transactions[i]
  BY <1>1, OuterTransactions
<1>4. /\ current' = IF start < n THEN transactionBuffer[start + 1] ELSE current
      /\ current' \in Positions
      /\ transactionBuffer' \in Seq(Positions)
      /\ Len(transactionBuffer') = start
      /\ \A i \in 1 .. start : transactionBuffer'[i] = transactionBuffer[i]
      /\ characterBuffer' \in Seq(Positions)
      /\ Len(characterBuffer') = c + n - start
      /\ \A j \in 1 .. c : characterBuffer'[j] = characterBuffer[j]
      /\ \A k \in 1 .. n - start :
           characterBuffer'[c + k] =
             IF k = 1 THEN current ELSE transactionBuffer[n + 2 - k]
  BY RolledBackCharacters
<1> HIDE DEF start, n, c
<1>5. TypeOK'
  BY <1>1, <1>3, <1>4 DEF Inv, TypeOK, Positions
<1>6. TransactionsAreNested'
  <2> SUFFICES ASSUME NEW i \in 1 .. Len(transactions) - 1
               PROVE  /\ transactions'[i] <= start
                      /\ \A j \in 1 .. i : transactions'[j] <= transactions'[i]
    BY <1>3, <1>4 DEF TransactionsAreNested
  <2>1. i \in 1 .. Len(transactions) /\ transactions'[i] = transactions[i]
    BY <1>2, <1>3
  <2>2. transactions[i] <= start
    BY <1>3, <2>1
  <2>3. ASSUME NEW j \in 1 .. i
        PROVE  transactions'[j] = transactions[j] /\ transactions[j] <= transactions[i]
    <3>1. j \in 1 .. Len(transactions) - 1
      BY <1>2
    <3> QED
      BY <1>3, <2>1, <3>1
  <2> QED
    BY <2>1, <2>2, <2>3
<1>7. UpcomingErrorIsAhead'
  BY <1>1, KindIsStable DEF Inv, UpcomingErrorIsAhead
<1>8. CASE thrown = "io"
  <2>1. RecordedIsWhatPrecedes' /\ ReplayIsWhatFollows'
    BY <1>1, <1>8 DEF RecordedIsWhatPrecedes, ReplayIsWhatFollows
  <2> QED
    BY <1>5, <1>6, <1>7, <2>1 DEF Inv
<1>9. CASE thrown # "io"
  <2>1. transactions[1] \in 0 .. start
    BY <1>2, <1>3
  <2>2. \A i \in transactions[1] + 1 .. n :
          /\ transactionBuffer[i] + (n - i) + 1 = current
          /\ ~LineBreakOrEnd(transactionBuffer[i])
    BY <1>1, <1>9 DEF Inv, RecordedIsWhatPrecedes, n
  <2>3. /\ streamPos = current + c
        /\ \A j \in 1 .. c :
             /\ characterBuffer[j] + j = streamPos + 1
             /\ j > 1 => ~LineBreakOrEnd(characterBuffer[j])
        /\ c # 0 => ~LineBreakOrEnd(current)
    BY <1>2, <1>9 DEF Inv, ReplayIsWhatFollows, c
  <2>4. \A i \in 1 .. n : transactionBuffer[i] \in Nat
    BY <1>2 DEF n, Positions
  <2>5. /\ current = current' + (n - start)
        /\ start < n => ~LineBreakOrEnd(current')
    <3>1. CASE start < n
      <4>1. start + 1 \in transactions[1] + 1 .. n /\ start + 1 \in 1 .. n
        BY <1>2, <1>3, <2>1, <3>1
      <4>2. current' = transactionBuffer[start + 1] /\ transactionBuffer[start + 1] \in Nat
        BY <1>4, <2>4, <3>1, <4>1
      <4>3. /\ transactionBuffer[start + 1] + (n - (start + 1)) + 1 = current
            /\ ~LineBreakOrEnd(transactionBuffer[start + 1])
        BY <2>2, <4>1
      <4>4. ~LineBreakOrEnd(current')
        BY <4>2, <4>3, Zenon
      <4>5. current = current' + (n - start)
        BY <1>2, <1>3, <4>2, <4>3
      <4> QED
        BY <4>4, <4>5
    <3>2. CASE ~(start < n)
      <4>1. n - start = 0 /\ current' = current
        BY <1>2, <1>3, <1>4, <3>2
      <4> QED
        BY <1>2, <3>2, <4>1
    <3> QED
      BY <3>1, <3>2
  <2>6. /\ start \in Int /\ n \in Int /\ c \in Int /\ streamPos \in Int
        /\ current \in Int /\ current' \in Int
    BY <1>2, <1>3, <1>4 DEF Positions
  <2>7. RecordedIsWhatPrecedes'
    <3> SUFFICES ASSUME transactions' # <<>>,
                        NEW i \in transactions'[1] + 1 .. start
                 PROVE  /\ transactionBuffer'[i] + (start - i) + 1 = current'
                        /\ ~LineBreakOrEnd(transactionBuffer'[i])
      BY <1>1, <1>4 DEF RecordedIsWhatPrecedes, LineBreakOrEnd, Kind
    <3>1. transactions'[1] = transactions[1]
      BY <1>2, <1>3
    <3>2. i \in transactions[1] + 1 .. n /\ i \in 1 .. start /\ i \in 1 .. n
      BY <1>2, <1>3, <2>1, <3>1
    <3>3. transactionBuffer'[i] = transactionBuffer[i] /\ transactionBuffer[i] \in Nat
      BY <1>4, <2>4, <3>2
    <3>4. /\ transactionBuffer[i] + (n - i) + 1 = current
          /\ ~LineBreakOrEnd(transactionBuffer[i])
      BY <2>2, <3>2
    <3>5. i \in Int /\ transactionBuffer[i] \in Int
      BY <3>2, <3>3
    <3>6. transactionBuffer[i] + (start - i) + 1 = current'
      <4>1. /\ transactionBuffer[i] + (n - i) + 1 = current
            /\ current = current' + (n - start)
        BY <2>5, <3>4
      <4> QED
        BY <2>6, <3>5, <4>1
    <3> QED
      BY <3>3, <3>4, <3>6
  <2>8. ReplayIsWhatFollows'
    <3>1. Len(characterBuffer') = c + n - start
      BY <1>4
    <3>2. streamPos = current' + Len(characterBuffer')
      <4>1. streamPos = current + c /\ current = current' + (n - start)
        BY <2>3, <2>5
      <4>2. streamPos = current' + (c + n - start)
        BY <2>6, <4>1
      <4> QED
        BY <3>1, <4>2
    <3>3. ASSUME NEW j \in 1 .. c + n - start
          PROVE  /\ characterBuffer'[j] + j = streamPos + 1
                 /\ j > 1 => ~LineBreakOrEnd(characterBuffer'[j])
      <4>1. CASE j \in 1 .. c
        BY <1>4, <2>3, <4>1
      <4>2. CASE j = c + 1
        <5>1. characterBuffer'[j] = current
          <6>1. 1 \in 1 .. n - start
            BY <1>2, <1>3, <4>2
          <6> QED
            BY <1>4, <4>2, <6>1
        <5>2. current + j = streamPos + 1
          BY <1>2, <2>3, <4>2
        <5>3. j > 1 => ~LineBreakOrEnd(current)
          BY <1>2, <2>3, <4>2
        <5> QED
          BY <5>1, <5>2, <5>3
      <4>3. CASE j > c + 1
        <5> DEFINE k == j - c
                   i == n + 2 - k
        <5>1. k \in 1 .. n - start /\ k # 1 /\ c + k = j
          BY <1>2, <1>3, <4>3
        <5>2. i \in transactions[1] + 1 .. n /\ i \in 1 .. n
          BY <1>2, <1>3, <2>1, <5>1
        <5>3. characterBuffer'[j] = transactionBuffer[i]
          BY <1>4, <5>1
        <5>4. /\ transactionBuffer[i] + (n - i) + 1 = current
              /\ ~LineBreakOrEnd(transactionBuffer[i])
              /\ transactionBuffer[i] \in Nat
          BY <2>2, <2>4, <5>2
        <5>5. transactionBuffer[i] + j = streamPos + 1
          BY <2>3, <2>6, <5>1, <5>4
        <5> QED
          BY <5>3, <5>4, <5>5
      <4> QED
        BY <1>2, <1>3, <4>1, <4>2, <4>3
    <3>4. ASSUME characterBuffer' # <<>>
          PROVE  ~LineBreakOrEnd(current')
      <4>1. c + n - start # 0
        BY <1>4, <3>4
      <4>2. CASE start < n
        BY <2>5, <4>2
      <4>3. CASE start = n
        <5>1. c # 0 /\ current' = current
          BY <1>2, <1>4, <4>1, <4>3
        <5> QED
          BY <2>3, <5>1
      <4> QED
        BY <1>2, <1>3, <4>2, <4>3
    <3>5. DOMAIN characterBuffer' = 1 .. c + n - start
      BY <1>4
    <3> QED
      BY <1>1, <3>2, <3>3, <3>4, <3>5 DEF ReplayIsWhatFollows, LineBreakOrEnd, Kind
  <2> QED
    BY <1>5, <1>6, <1>7, <2>7, <2>8 DEF Inv
<1> QED
  BY <1>8, <1>9

-----------------------------------------------------------------------------
LEMMA InitEstablishes == Init => Inv
<1> SUFFICES ASSUME Init PROVE Inv
  OBVIOUS
<1>1. Len(document) \in Nat
  BY DocumentsAssumption DEF Init
<1>2. Kind(0) = "end"
  BY <1>1, DocumentsAssumption DEF Init, Kind
<1>3. TypeOK
  <2>1. 0 \in Positions /\ 1 \in Positions
    BY <1>1 DEF Positions
  <2>2. <<>> \in Seq(Positions) /\ <<>> \in Seq(Nat)
    OBVIOUS
  <2> QED
    BY <2>1, <2>2 DEF Init, TypeOK, Outcomes
<1> QED
  BY <1>2, <1>3 DEF Init, Inv, TransactionsAreNested, RecordedIsWhatPrecedes,
     ReplayIsWhatFollows, UpcomingErrorIsAhead

\* Moving the start of the capture keeps it on a position of the document.
LEMMA CaptureStaysInDocument ==
  ASSUME Inv, Advance \/ CreateEndOfLineToken
  PROVE  captureStart' \in Positions
<1>1. /\ document \in Seq(Kinds) /\ Len(document) \in Nat
      /\ streamPos \in Positions /\ captureStart \in Positions
  BY DocumentsAssumption DEF Inv, TypeOK
<1>2. CASE Advance
  <2>1. streamPos' = streamPos \/ streamPos' = NextInStream
    BY <1>2 DEF Advance, NextChar, NextAfterError, NextAcrossLineEnd,
       NextFromStream, NextFailsInSource, NextFromBuffer
  <2>2. NextInStream \in Positions
    BY <1>1 DEF NextInStream, Positions
  <2> QED
    BY <1>1, <1>2, <2>1, <2>2 DEF Advance
<1>3. CASE CreateEndOfLineToken
  <2>1. current \in DOMAIN document
    BY <1>3 DEF CreateEndOfLineToken, Kind
  <2>2. current + 1 \in 0 .. Len(document) + 1
    BY <1>1, <2>1
  <2> QED
    BY <1>3, <2>2 DEF CreateEndOfLineToken, Positions
<1> QED
  BY <1>2, <1>3

LEMMA NextPreserves == Inv /\ [Next]_vars => Inv'
<1> SUFFICES ASSUME Inv, [Next]_vars PROVE Inv'
  OBVIOUS
<1>1. CASE Advance
  BY <1>1, CaptureStaysInDocument, NextCharPreserves DEF Advance
<1>2. CASE StartTransaction
  BY <1>2, StartTransactionPreserves
<1>3. CASE CommitTransaction
  BY <1>3, CommitTransactionPreserves
<1>4. CASE RollbackTransaction
  BY <1>4, RollbackTransactionPreserves
<1>5. CASE ThrowError
  <2>1. thrown' \in Outcomes /\ captureStart' \in Positions
    BY <1>5 DEF ThrowError, Outcomes, Inv, TypeOK
  <2> QED
    BY <1>5, <2>1, BuffersUntouched DEF ThrowError
<1>6. CASE CheckForErrorAndThrowIt
  <2>1. thrown' \in Outcomes /\ captureStart' \in Positions
    BY <1>6 DEF CheckForErrorAndThrowIt, Outcomes, Inv, TypeOK
  <2> QED
    BY <1>6, <2>1, BuffersUntouched DEF CheckForErrorAndThrowIt
<1>7. CASE CreateToken
  <2>1. thrown' \in Outcomes /\ captureStart' \in Positions
    BY <1>7 DEF CreateToken, Outcomes, Inv, TypeOK
  <2> QED
    BY <1>7, <2>1, BuffersUntouched DEF CreateToken
<1>8. CASE CreateEndOfLineToken
  BY <1>8, CaptureStaysInDocument, NextCharPreserves DEF CreateEndOfLineToken
<1>9. CASE UNCHANGED vars
  <2>1. thrown' \in Outcomes /\ captureStart' \in Positions
    BY <1>9 DEF vars, Inv, TypeOK
  <2> QED
    BY <1>9, <2>1, BuffersUntouched DEF vars
<1> QED
  BY <1>1, <1>2, <1>3, <1>4, <1>5, <1>6, <1>7, <1>8, <1>9 DEF Next

\* The invariant holds in every state of every behaviour.
THEOREM InvIsInvariant == Spec => []Inv
  BY InitEstablishes, NextPreserves, PTL DEF Spec

\* Every variable keeps its type: no position leaves the document, whatever the
\* lexer asks for.
THEOREM TypeCorrect == Spec => []TypeOK
<1>1. Inv => TypeOK
  BY DEF Inv
<1> QED
  BY <1>1, InvIsInvariant, PTL

\* Backtracking loses nothing: the two buffers of TokenDecoder are always the
\* text before and behind the current character, at any depth of transactions.
THEOREM BacktrackingLosesNothing ==
  Spec => [](RecordedIsWhatPrecedes /\ ReplayIsWhatFollows)
<1>1. Inv => RecordedIsWhatPrecedes /\ ReplayIsWhatFollows
  BY DEF Inv
<1> QED
  BY <1>1, InvIsInvariant, PTL

\* The flag of a delayed error is set exactly while the error mark is the last
\* character that was read.
THEOREM ErrorIsAnnounced == Spec => []UpcomingErrorIsAhead
<1>1. Inv => UpcomingErrorIsAhead
  BY DEF Inv
<1> QED
  BY <1>1, InvIsInvariant, PTL

\* Once the encoding is broken, the stream is not read any further.
THEOREM NothingReadBehindError == Spec => NoReadBehindError
<1>1. Inv /\ [Next]_vars => [Kind(streamPos) = "bad" => UNCHANGED streamPos]_vars
  <2> SUFFICES ASSUME Inv, [Next]_vars, Kind(streamPos) = "bad"
               PROVE  UNCHANGED streamPos
    OBVIOUS
  <2>1. CASE NextChar
    <3>1. NextFromStream => thrown = "none" /\ characterBuffer = <<>> /\ Kind(current) # "bad"
      BY <2>1 DEF NextChar, NextFromStream, NextAfterError, NextAcrossLineEnd
    <3>2. ~NextFromStream
      BY <3>1, NextCharacter
    <3> QED
      BY <2>1, <3>2 DEF NextChar, NextAfterError, NextAcrossLineEnd,
         NextFailsInSource, NextFromBuffer
  <2>2. CASE ~NextChar
    BY <2>2 DEF Next, Advance, StartTransaction, CommitTransaction,
       RollbackTransaction, ThrowError, CheckForErrorAndThrowIt, CreateToken,
       CreateEndOfLineToken, vars
  <2> QED
    BY <2>1, <2>2
<1> QED
  BY <1>1, InvIsInvariant, PTL DEF Spec, NoReadBehindError

\* A delayed error is never replaced by another one.
THEOREM NothingHidesDelayedError == Spec => []DelayedErrorGoesFirst
<1>1. Init => DelayedErrorGoesFirst
  BY DEF Init, DelayedErrorGoesFirst
<1>2. DelayedErrorGoesFirst /\ [Next]_vars => DelayedErrorGoesFirst'
  BY DEF DelayedErrorGoesFirst, Next, Advance, NextChar, NextAfterError,
     NextAcrossLineEnd, NextFromStream, NextFailsInSource, NextFromBuffer,
     StartTransaction, CommitTransaction, RollbackTransaction, ThrowError,
     CheckForErrorAndThrowIt, CreateToken, CreateEndOfLineToken, vars
<1> QED
  BY <1>1, <1>2, PTL DEF Spec

-----------------------------------------------------------------------------
\* Where a transaction began, in terms of the buffers.
MarkAt(recorded, character, start) ==
  Head(Append(SubSeq(recorded, start + 1, Len(recorded)), character))

LEMMA MarkIsStart ==
  ASSUME NEW S, NEW recorded \in Seq(S), NEW character \in S,
         NEW start \in 0 .. Len(recorded)
  PROVE  MarkAt(recorded, character, start) =
           IF start < Len(recorded) THEN recorded[start + 1] ELSE character
<1> DEFINE text == SubSeq(recorded, start + 1, Len(recorded))
<1>1. text \in Seq(S) /\ Len(text) = Len(recorded) - start
  OBVIOUS
<1>2. start < Len(recorded) => text[1] = recorded[start + 1]
  OBVIOUS
<1>3. MarkAt(recorded, character, start) = Head(Append(text, character))
  BY DEF MarkAt
<1> HIDE DEF text
<1> QED
  BY <1>1, <1>2, <1>3

\* The marks of nested transactions as a sequence.
MarksOf(recorded, character, starts) ==
  [i \in DOMAIN starts |-> MarkAt(recorded, character, starts[i])]

LEMMA MarksAreStarts ==
  ASSUME NEW S, NEW recorded \in Seq(S), NEW character \in S,
         NEW starts \in Seq(Nat),
         \A i \in DOMAIN starts : starts[i] <= Len(recorded)
  PROVE  /\ MarksOf(recorded, character, starts) \in Seq(S)
         /\ Len(MarksOf(recorded, character, starts)) = Len(starts)
         /\ \A i \in 1 .. Len(starts) :
              MarksOf(recorded, character, starts)[i] =
                IF starts[i] < Len(recorded) THEN recorded[starts[i] + 1]
                ELSE character
<1>1. Len(recorded) \in Nat /\ Len(starts) \in Nat /\ DOMAIN starts = 1 .. Len(starts)
  OBVIOUS
<1>2. ASSUME NEW i \in 1 .. Len(starts)
      PROVE  /\ MarkAt(recorded, character, starts[i]) =
                  IF starts[i] < Len(recorded) THEN recorded[starts[i] + 1] ELSE character
             /\ MarkAt(recorded, character, starts[i]) \in S
  <2>1. starts[i] \in 0 .. Len(recorded)
    BY <1>1
  <2>2. MarkAt(recorded, character, starts[i]) =
          IF starts[i] < Len(recorded) THEN recorded[starts[i] + 1] ELSE character
    BY <2>1, MarkIsStart
  <2>3. starts[i] < Len(recorded) => recorded[starts[i] + 1] \in S
    BY <1>1, <2>1
  <2> QED
    BY <2>2, <2>3
<1>3. MarksOf(recorded, character, starts) =
        [i \in 1 .. Len(starts) |-> MarkAt(recorded, character, starts[i])]
  BY <1>1 DEF MarksOf
<1> QED
  BY <1>1, <1>2, <1>3

Marks == [i \in DOMAIN transactions |-> Head(Replayed(transactions[i]))]

LEMMA MarksOfTransactions ==
  /\ Marks = MarksOf(transactionBuffer, current, transactions)
  /\ Marks' = MarksOf(transactionBuffer', current', transactions')
BY DEF Marks, Replayed, MarksOf, MarkAt

\* The marks before and after a step.
LEMMA MarksOfStep ==
  ASSUME Inv, Inv', UNCHANGED document
  PROVE  /\ transactionBuffer \in Seq(Positions) /\ transactions \in Seq(Nat)
         /\ current \in Positions
         /\ \A i \in 1 .. Len(transactions) :
              transactions[i] \in 0 .. Len(transactionBuffer)
         /\ Marks \in Seq(Positions) /\ Len(Marks) = Len(transactions)
         /\ \A i \in 1 .. Len(transactions) :
              Marks[i] = IF transactions[i] < Len(transactionBuffer)
                         THEN transactionBuffer[transactions[i] + 1] ELSE current
         /\ Marks' \in Seq(Positions) /\ Len(Marks') = Len(transactions')
         /\ \A i \in 1 .. Len(transactions') :
              Marks'[i] = IF transactions'[i] < Len(transactionBuffer')
                          THEN transactionBuffer'[transactions'[i] + 1] ELSE current'
<1>1. /\ transactionBuffer \in Seq(Positions) /\ current \in Positions
      /\ transactions \in Seq(Nat)
      /\ \A i \in DOMAIN transactions : transactions[i] <= Len(transactionBuffer)
  BY DEF Inv, TypeOK, TransactionsAreNested
<1>2. /\ transactionBuffer' \in Seq(Positions) /\ current' \in Positions
      /\ transactions' \in Seq(Nat)
      /\ \A i \in DOMAIN transactions' : transactions'[i] <= Len(transactionBuffer')
  BY DEF Inv, TypeOK, TransactionsAreNested, Positions
<1>3. \A i \in 1 .. Len(transactions) : transactions[i] \in 0 .. Len(transactionBuffer)
  BY <1>1
<1>4. LET marks == MarksOf(transactionBuffer, current, transactions) IN
      /\ marks \in Seq(Positions) /\ Len(marks) = Len(transactions)
      /\ \A i \in 1 .. Len(transactions) :
           marks[i] = IF transactions[i] < Len(transactionBuffer)
                      THEN transactionBuffer[transactions[i] + 1] ELSE current
  BY <1>1, MarksAreStarts
<1>5. LET marks == MarksOf(transactionBuffer', current', transactions') IN
      /\ marks \in Seq(Positions) /\ Len(marks) = Len(transactions')
      /\ \A i \in 1 .. Len(transactions') :
           marks[i] = IF transactions'[i] < Len(transactionBuffer')
                      THEN transactionBuffer'[transactions'[i] + 1] ELSE current'
  BY <1>2, MarksAreStarts
<1> QED
  BY <1>1, <1>3, <1>4, <1>5, MarksOfTransactions

\* Recording the current character does not move a mark.
LEMMA MarksStay ==
  ASSUME Inv, Inv', RecordCurrent, UNCHANGED <<document, transactions>>
  PROVE  Marks' = Marks
<1> DEFINE n == Len(transactionBuffer)
<1>1. ASSUME NEW i \in 1 .. Len(transactions)
      PROVE  Marks'[i] = Marks[i]
  <2> DEFINE start == transactions[i]
  <2>1. /\ Len(transactionBuffer') = n + 1
        /\ \A j \in 1 .. n : transactionBuffer'[j] = transactionBuffer[j]
        /\ transactionBuffer'[n + 1] = current
    <3>1. transactions # <<>>
      BY MarksOfStep
    <3> QED
      BY <3>1, RecordedCharacters
  <2>2. start \in 0 .. n /\ n \in Nat
    BY MarksOfStep
  <2>3. /\ Marks[i] = IF start < n THEN transactionBuffer[start + 1] ELSE current
        /\ Marks'[i] = IF start < n + 1 THEN transactionBuffer'[start + 1] ELSE current'
    BY <2>1, MarksOfStep
  <2> HIDE DEF start, n
  <2>4. CASE start < n
    BY <2>1, <2>2, <2>3, <2>4
  <2>5. CASE start = n
    BY <2>1, <2>2, <2>3, <2>5
  <2> QED
    BY <2>2, <2>4, <2>5
<1> QED
  BY <1>1, MarksOfStep, SeqEqual

\* A new transaction remembers the current position.
LEMMA StartIsBegin ==
  ASSUME Inv, Inv', StartTransaction
  PROVE  Marks' = Append(Marks, current)
<1> DEFINE n == Len(transactionBuffer)
           count == Len(transactions)
<1>1. /\ transactions' = Append(transactions, n)
      /\ UNCHANGED <<document, transactionBuffer, current>>
  BY DEF StartTransaction
<1>2. n \in Nat /\ count \in Nat /\ transactions \in Seq(Nat)
  BY <1>1, MarksOfStep
<1>3. /\ Len(transactions') = count + 1
      /\ \A i \in 1 .. count : transactions'[i] = transactions[i]
      /\ transactions'[count + 1] = n
  BY <1>1, <1>2
<1>4. /\ Append(Marks, current) \in Seq(Positions)
      /\ Len(Append(Marks, current)) = count + 1
      /\ \A i \in 1 .. count : Append(Marks, current)[i] = Marks[i]
      /\ Append(Marks, current)[count + 1] = current
  BY <1>1, MarksOfStep, AppendProperties
<1>5. ASSUME NEW i \in 1 .. count
      PROVE  Marks'[i] = Marks[i]
  <2>1. i \in 1 .. Len(transactions') /\ transactions'[i] = transactions[i]
    BY <1>2, <1>3
  <2>2. Marks'[i] = IF transactions[i] < n THEN transactionBuffer[transactions[i] + 1]
                    ELSE current
    BY <1>1, <2>1, MarksOfStep
  <2> QED
    BY <1>1, <2>2, MarksOfStep
<1>6. Marks'[count + 1] = current
  BY <1>1, <1>2, <1>3, MarksOfStep
<1>7. Marks' \in Seq(Positions) /\ Len(Marks') = count + 1
  BY <1>1, <1>3, MarksOfStep
<1> HIDE DEF n, count
<1>8. ASSUME NEW i \in 1 .. count + 1
      PROVE  Append(Marks, current)[i] = Marks'[i]
  <2>1. CASE i \in 1 .. count
    BY <1>4, <1>5, <2>1
  <2>2. CASE i = count + 1
    BY <1>4, <1>6, <2>2
  <2>3. i \in 1 .. count \/ i = count + 1
    BY <1>2
  <2> QED
    BY <2>1, <2>2, <2>3
<1> QED
  BY <1>4, <1>7, <1>8, SeqEqual

\* Closing a transaction, by a commit or a rollback, leaves the other marks.
LEMMA ClosingKeepsOuterMarks ==
  ASSUME Inv, Inv', CommitTransaction \/ RollbackTransaction
  PROVE  Marks # <<>> /\ Marks' = Front(Marks)
<1> DEFINE count == Len(transactions)
           front == Front(Marks)
<1>1. transactions # <<>> /\ transactions' = Front(transactions) /\ UNCHANGED document
  BY DEF CommitTransaction, RollbackTransaction
<1>2. Marks # <<>> /\ count \in Nat \ {0}
  BY <1>1, MarksOfStep
<1>3. Len(transactions') = count - 1
  BY <1>1, OuterTransactions
<1>4. /\ front \in Seq(Positions) /\ Len(front) = count - 1
      /\ \A i \in 1 .. count - 1 : front[i] = Marks[i]
  BY <1>1, <1>2, MarksOfStep, FrontProperties
<1>5. Marks' \in Seq(Positions) /\ Len(Marks') = count - 1
  BY <1>1, <1>3, MarksOfStep
<1>6. ASSUME NEW i \in 1 .. count - 1
      PROVE  front[i] = Marks'[i]
  <2> DEFINE start == transactions[i]
  <2>1. /\ i \in 1 .. Len(transactions') /\ i \in 1 .. count
        /\ transactions'[i] = start
    BY <1>1, <1>2, <1>3, OuterTransactions
  <2>2. /\ start \in 0 .. Len(transactionBuffer)
        /\ Marks[i] = IF start < Len(transactionBuffer)
                      THEN transactionBuffer[start + 1] ELSE current
        /\ Marks'[i] = IF start < Len(transactionBuffer')
                       THEN transactionBuffer'[start + 1] ELSE current'
    BY <1>1, <2>1, MarksOfStep
  <2>3. CASE CommitTransaction
    BY <1>4, <2>2, <2>3 DEF CommitTransaction
  <2>4. CASE RollbackTransaction
    <3> DEFINE last == Last(transactions)
    <3>1. start \in 0 .. last /\ last \in 0 .. Len(transactionBuffer)
      BY <1>1, <2>1, OuterTransactions
    <3>2. /\ current' = IF last < Len(transactionBuffer)
                        THEN transactionBuffer[last + 1] ELSE current
          /\ Len(transactionBuffer') = last
          /\ \A k \in 1 .. last : transactionBuffer'[k] = transactionBuffer[k]
      BY <2>4, RolledBackCharacters
    <3> HIDE DEF last, start
    <3>3. CASE start < last
      <4>1. start + 1 \in 1 .. last /\ start < Len(transactionBuffer)
        BY <3>1, <3>3
      <4> QED
        BY <1>4, <2>2, <3>2, <3>3, <4>1
    <3>4. CASE start = last
      BY <1>4, <2>2, <3>1, <3>2, <3>4
    <3> QED
      BY <3>1, <3>3, <3>4
  <2> QED
    BY <2>3, <2>4
<1> HIDE DEF front, count
<1>7. front = Marks'
  BY <1>4, <1>5, <1>6, SeqEqual
<1> QED
  BY <1>2, <1>7 DEF front

\* A rollback returns to the innermost mark.
LEMMA RollbackReturnsToMark ==
  ASSUME Inv, Inv', RollbackTransaction
  PROVE  current' = Last(Marks)
<1> DEFINE last == Last(transactions)
<1>1. transactions # <<>> /\ UNCHANGED document
  BY DEF RollbackTransaction
<1>2. /\ Len(transactions) \in Nat \ {0}
      /\ last = transactions[Len(transactions)]
      /\ Marks # <<>>
      /\ Last(Marks) = Marks[Len(transactions)]
  <2>1. /\ transactions \in Seq(Nat) /\ Marks \in Seq(Positions)
        /\ Len(Marks) = Len(transactions)
    BY <1>1, MarksOfStep
  <2>2. Len(transactions) \in Nat \ {0} /\ last = transactions[Len(transactions)]
    BY <1>1, <2>1, FrontProperties
  <2>3. Marks # <<>>
    BY <2>1, <2>2
  <2> QED
    BY <2>1, <2>2, <2>3, FrontProperties
<1>3. current' = IF last < Len(transactionBuffer)
                 THEN transactionBuffer[last + 1] ELSE current
  BY RolledBackCharacters
<1> QED
  BY <1>1, <1>2, <1>3, MarksOfStep

\* Each step of TokenDecoder is a step of the cursor or leaves it alone.
LEMMA StepIsCursorStep ==
  ASSUME Inv, Inv', [Next]_vars
  PROVE  [Cursor!Next]_(Cursor!vars)
<1> USE DEF Marks
<1>1. ASSUME UNCHANGED <<current, transactionBuffer, transactions>>
      PROVE  UNCHANGED Cursor!vars
  BY <1>1 DEF Cursor!vars, Replayed
<1>2. CASE NextChar
  <2>1. UNCHANGED <<document, transactions>> /\ thrown = "none"
    BY <1>2 DEF NextChar
  <2>3. CASE NextAfterError
    BY <1>1, <2>1, <2>3 DEF NextAfterError
  <2>4. CASE transactions # <<>> /\ LineBreakOrEnd(current) /\ NextAcrossLineEnd
    <3>1. characterBuffer = <<>>
      BY <2>1, <2>4 DEF Inv, ReplayIsWhatFollows
    <3>2. current = streamPos
      BY <2>1, <3>1, NextCharacter
    <3> QED
      BY <1>1, <2>1, <2>4, <3>2 DEF NextAcrossLineEnd
  <2>5. CASE NextFromStream
    <3>1. Marks' = Marks
      BY <2>1, <2>5, MarksStay DEF NextFromStream
    <3>2. current = streamPos /\ current' = NextInStream
      BY <2>1, <2>5, NextCharacter DEF NextFromStream
    <3>3. current' = current \/ current' = current + 1
      BY <3>2 DEF NextInStream
    <3> QED
      BY <3>1, <3>3 DEF Cursor!Next, Cursor!Advance, Cursor!vars
  <2>6. CASE NextFailsInSource
    <3>1. Marks' = Marks
      BY <2>1, <2>6, MarksStay DEF NextFailsInSource
    <3> QED
      BY <2>6, <3>1 DEF NextFailsInSource, Cursor!vars
  <2>7. CASE NextFromBuffer
    <3>1. Marks' = Marks
      BY <2>1, <2>7, MarksStay DEF NextFromBuffer
    <3>2. current' = current + 1
      BY <2>1, <2>7, NextCharacter DEF NextFromBuffer
    <3> QED
      BY <3>1, <3>2 DEF Cursor!Next, Cursor!Advance
  <2> QED
    BY <1>2, <2>3, <2>4, <2>5, <2>6, <2>7 DEF NextChar
<1>3. CASE StartTransaction
  <2>1. Marks' = Append(Marks, current) /\ current' = current
    BY <1>3, StartIsBegin DEF StartTransaction
  <2> QED
    BY <2>1 DEF Cursor!Next, Cursor!Begin
<1>4. CASE CommitTransaction
  <2>1. Marks # <<>> /\ Marks' = Front(Marks) /\ current' = current
    BY <1>4, ClosingKeepsOuterMarks DEF CommitTransaction
  <2> QED
    BY <2>1 DEF Cursor!Next, Cursor!Commit, Cursor!Front, Front
<1>5. CASE RollbackTransaction
  <2>1. Marks # <<>> /\ Marks' = Front(Marks) /\ current' = Last(Marks)
    BY <1>5, ClosingKeepsOuterMarks, RollbackReturnsToMark
  <2> QED
    BY <2>1 DEF Cursor!Next, Cursor!Rollback, Cursor!Front, Front,
       Cursor!Last, Last
<1>6. CASE ThrowError
  BY <1>1, <1>6 DEF ThrowError
<1>7. CASE CheckForErrorAndThrowIt
  BY <1>1, <1>7 DEF CheckForErrorAndThrowIt
<1>8. CASE CreateToken
  BY <1>1, <1>8 DEF CreateToken
<1>9. CASE UNCHANGED vars
  BY <1>1, <1>9 DEF vars
<1> QED
  BY <1>2, <1>3, <1>4, <1>5, <1>6, <1>7, <1>8, <1>9
     DEF Next, Advance, CreateEndOfLineToken

\* TokenDecoder is a cursor with backtracking: whatever is read ahead, put back
\* and read again, a scanner that rolls back is where it began.
THEOREM TokenDecoderImplementsCursor == Spec => ImplementsCursor
<1>1. Init => Cursor!Init
  BY DEF Init, Cursor!Init
<1>2. Inv /\ Inv' /\ [Next]_vars => [Cursor!Next]_(Cursor!vars)
  BY StepIsCursorStep
<1> QED
  BY <1>1, <1>2, InvIsInvariant, PTL DEF Spec, ImplementsCursor

-----------------------------------------------------------------------------
\* The inductive invariant of the capture: before the first character nothing is
\* open and nothing captured, and no transaction begins there.
CaptureInv ==
  /\ current = 0 => captureStart = 1 /\ transactions = <<>>
  /\ \A i \in 1 .. Len(transactions) : Marks[i] # 0
  /\ thrown # "io" =>
       /\ current # 0 => captureStart <= current
       /\ \A i \in 1 .. Len(transactions) : captureStart <= Marks[i]
       /\ Kind(streamPos) # "end" =>
            \A i \in captureStart .. streamPos - 1 : Kind(i) # "break"

LEMMA CaptureInvImplies == Inv /\ CaptureInv => CaptureStaysInLine
<1> SUFFICES ASSUME Inv, CaptureInv PROVE CaptureStaysInLine
  OBVIOUS
<1>1. DOMAIN transactions = 1 .. Len(transactions)
  BY DEF Inv, TypeOK
<1>2. \A i \in DOMAIN transactions : Marks[i] = Head(Replayed(transactions[i]))
  BY DEF Marks
<1> QED
  BY <1>1, <1>2 DEF CaptureInv, CaptureStaysInLine

\* No character between the current one and the last one read ends a line.
LEMMA AheadInLine ==
  ASSUME Inv, thrown # "io", NEW i \in current .. streamPos - 1
  PROVE  Kind(i) # "break"
<1> DEFINE j == streamPos + 1 - i
<1>1. /\ characterBuffer \in Seq(Positions)
      /\ current \in Nat /\ streamPos \in Nat
      /\ streamPos = current + Len(characterBuffer)
  BY DEF Inv, TypeOK, Positions, ReplayIsWhatFollows
<1>2. CASE i = current
  <2>1. characterBuffer # <<>>
    BY <1>1, <1>2
  <2> QED
    BY <1>2, <2>1 DEF Inv, ReplayIsWhatFollows, LineBreakOrEnd
<1>3. CASE i # current
  <2>1. j \in 1 .. Len(characterBuffer) /\ j > 1 /\ DOMAIN characterBuffer = 1 .. Len(characterBuffer)
    BY <1>1, <1>3
  <2>2. characterBuffer[j] + j = streamPos + 1 /\ ~LineBreakOrEnd(characterBuffer[j])
    BY <2>1 DEF Inv, ReplayIsWhatFollows
  <2>3. characterBuffer[j] \in Nat
    BY <1>1, <2>1 DEF Positions
  <2>4. characterBuffer[j] = i
    BY <1>1, <2>2, <2>3
  <2> QED
    BY <2>2, <2>4 DEF LineBreakOrEnd
<1> QED
  BY <1>2, <1>3

\* What the steps of the decoder and of the lexer leave alone.
LEMMA CaptureUntouched ==
  ASSUME Inv, Inv', CaptureInv, UNCHANGED <<document, streamPos, transactions>>,
         thrown' = "io" \/ UNCHANGED captureStart, Marks' = Marks,
         thrown' # "io" => thrown # "io",
         thrown' # "io" /\ current # 0 => current' >= current,
         current' = 0 => current = 0 /\ UNCHANGED captureStart
  PROVE  CaptureInv'
<1>1. current \in Nat /\ current' \in Nat /\ streamPos \in Nat /\ captureStart \in Nat
  BY DEF Inv, TypeOK, Positions
<1>2. \A i : Kind(i)' = Kind(i)
  BY KindIsStable
<1>3. /\ current' = 0 => captureStart' = 1 /\ transactions' = <<>>
      /\ \A i \in 1 .. Len(transactions') : Marks'[i] # 0
  BY DEF CaptureInv
<1>4. ASSUME thrown' # "io"
      PROVE  /\ current' # 0 => captureStart' <= current'
             /\ \A i \in 1 .. Len(transactions') : captureStart' <= Marks'[i]
             /\ Kind(streamPos)' # "end" =>
                  \A i \in captureStart' .. streamPos' - 1 : Kind(i)' # "break"
  BY <1>1, <1>2, <1>4 DEF CaptureInv
<1> QED
  BY <1>3, <1>4 DEF CaptureInv

\* A new line can only be loaded while no transaction is open: its first
\* character is where the capture begins.
LEMMA LoadingCaptures ==
  ASSUME Inv, Inv', CaptureInv, Advance, NextFromStream, thrown = "none",
         transactions = <<>> \/ ~LineBreakOrEnd(current),
         UNCHANGED <<document, transactions>>
  PROVE  CaptureInv'
<1>1. /\ current = streamPos /\ RecordCurrent
      /\ streamPos' = NextInStream /\ current' = NextInStream
      /\ UNCHANGED thrown
  BY NextCharacter DEF NextFromStream
<1>2. /\ streamPos \in Nat /\ captureStart \in Nat /\ Len(document) \in Nat
      /\ document \in Seq(Kinds)
  BY DocumentsAssumption DEF Inv, TypeOK, Positions
<1>3. Marks' = Marks
  BY <1>1, MarksStay
<1>4. captureStart' = IF StreamReadsLine /\ streamPos' # streamPos /\ Kind(streamPos)' # "end"
                      THEN streamPos' ELSE captureStart
  BY DEF Advance, Kind
<1>5. \A i : Kind(i)' = Kind(i)
  BY KindIsStable
<1>6. CASE streamPos' = streamPos
  <2>1. UNCHANGED captureStart
    BY <1>4, <1>6
  <2>2. UNCHANGED <<current, streamPos>>
    BY <1>1, <1>6
  <2>3. thrown' # "io" /\ thrown # "io" /\ current' >= current
    BY <1>1, <1>2, <2>2
  <2>4. UNCHANGED <<document, streamPos, transactions>>
    BY <2>2
  <2> QED
    BY <1>3, <2>1, <2>2, <2>3, <2>4, CaptureUntouched
<1>7. CASE streamPos' # streamPos
  <2>1. streamPos' = streamPos + 1 /\ current' = streamPos + 1
    BY <1>1, <1>7 DEF NextInStream
  <2>2. CASE StreamReadsLine
    <3>1. transactions = <<>> /\ transactions' = <<>>
      <4>1. 0 \notin DOMAIN document
        BY <1>2
      <4>2. Kind(0) = "end"
        BY <4>1 DEF Kind
      <4> QED
        BY <1>1, <2>2, <4>2 DEF StreamReadsLine, LineBreakOrEnd
    <3>2. captureStart' <= current'
      <4>1. current = 0 => captureStart = 1
        BY DEF CaptureInv
      <4>2. current # 0 => captureStart <= current
        BY DEF CaptureInv
      <4> QED
        BY <1>1, <1>2, <1>4, <2>1, <4>1, <4>2
    <3>3. Kind(streamPos)' # "end" => captureStart' = streamPos'
      BY <1>4, <1>7, <2>2
    <3>4. 1 .. Len(transactions') = {}
      BY <3>1
    <3>5. \A i \in captureStart' .. streamPos' - 1 : captureStart' # streamPos'
      BY <1>2, <2>1
    <3> QED
      BY <1>2, <2>1, <3>1, <3>2, <3>3, <3>4, <3>5 DEF CaptureInv
  <2>3. CASE ~StreamReadsLine
    <3>1. streamPos # 0 /\ Kind(streamPos) # "break" /\ UNCHANGED captureStart
      BY <1>4, <2>3 DEF StreamReadsLine
    <3>2. captureStart <= current /\ captureStart' <= current'
      BY <1>1, <1>2, <2>1, <3>1 DEF CaptureInv
    <3>3. ASSUME NEW i \in captureStart' .. streamPos' - 1
          PROVE  Kind(i)' # "break"
      <4>1. i \in captureStart .. streamPos - 1 \/ i = streamPos
        BY <1>2, <2>1, <3>1
      <4>2. Kind(streamPos) # "end" \/ i = streamPos => Kind(i) # "break"
        BY <3>1, <4>1 DEF CaptureInv
      <4>3. streamPos \in 1 .. Len(document)
        BY <1>1, <1>2, <1>7, <3>1 DEF NextInStream, Inv, TypeOK, Positions
      <4>4. Kind(streamPos) # "end"
        BY <1>2, <4>3 DEF Kind, Kinds
      <4> QED
        BY <1>5, <4>2, <4>4
    <3>4. current' # 0
      BY <1>2, <2>1
    <3> QED
      BY <1>1, <1>3, <3>1, <3>2, <3>3, <3>4 DEF CaptureInv
  <2> QED
    BY <2>2, <2>3
<1> QED
  BY <1>6, <1>7

LEMMA AdvanceCaptures ==
  ASSUME Inv, Inv', CaptureInv, Advance
  PROVE  CaptureInv'
<1>1. /\ NextChar /\ thrown = "none" /\ UNCHANGED <<document, transactions>>
      /\ streamPos' = streamPos => UNCHANGED captureStart
  BY DEF Advance, NextChar
<1>2. current \in Nat /\ current' \in Nat /\ streamPos \in Nat
  BY DEF Inv, TypeOK, Positions
<1>3. ASSUME UNCHANGED <<current, transactionBuffer>>
      PROVE  Marks' = Marks
  BY <1>1, <1>3 DEF Marks, Replayed
<1>4. CASE NextAfterError
  BY <1>1, <1>2, <1>3, <1>4, CaptureUntouched DEF NextAfterError
<1>5. CASE transactions # <<>> /\ LineBreakOrEnd(current) /\ NextAcrossLineEnd
  <2>1. characterBuffer = <<>>
    BY <1>1, <1>5 DEF Inv, ReplayIsWhatFollows
  <2>2. current = streamPos
    BY <1>1, <2>1, NextCharacter
  <2>3. UNCHANGED <<current, streamPos, transactionBuffer>>
    BY <1>5, <2>2 DEF NextAcrossLineEnd
  <2> QED
    BY <1>1, <1>2, <1>3, <2>3, CaptureUntouched
<1>6. CASE (transactions = <<>> \/ ~LineBreakOrEnd(current)) /\ NextFromStream
  BY <1>1, <1>6, LoadingCaptures
<1>7. CASE NextFailsInSource
  <2>1. Marks' = Marks
    BY <1>1, <1>7, MarksStay DEF NextFailsInSource
  <2> QED
    BY <1>1, <1>2, <1>7, <2>1, CaptureUntouched DEF NextFailsInSource
<1>8. CASE NextFromBuffer
  <2>1. Marks' = Marks
    BY <1>1, <1>8, MarksStay DEF NextFromBuffer
  <2>2. current' = current + 1
    BY <1>1, <1>8, NextCharacter DEF NextFromBuffer
  <2> QED
    BY <1>1, <1>2, <1>8, <2>1, <2>2, CaptureUntouched DEF NextFromBuffer
<1> QED
  BY <1>1, <1>4, <1>5, <1>6, <1>7, <1>8 DEF NextChar

\* A token of the end of a line takes the whole line, and the next one is loaded.
LEMMA EndOfLineCaptures ==
  ASSUME Inv, Inv', CaptureInv, CreateEndOfLineToken
  PROVE  CaptureInv'
<1>1. /\ Kind(current) = "break" /\ transactions = <<>>
      /\ NextChar /\ thrown = "none" /\ UNCHANGED <<document, transactions>>
      /\ captureStart' = current + 1
  BY DEF CreateEndOfLineToken, NextChar
<1>2. characterBuffer = <<>> /\ current = streamPos
  <2>1. characterBuffer = <<>>
    BY <1>1 DEF Inv, ReplayIsWhatFollows, LineBreakOrEnd
  <2> QED
    BY <1>1, <2>1, NextCharacter
<1>3. /\ current \in 1 .. Len(document) /\ Len(document) \in Nat
      /\ 1 .. Len(transactions') = {} /\ transactions' = <<>>
  BY <1>1, DocumentsAssumption DEF Kind, Inv, TypeOK
<1>4. CASE NextFromStream
  <2>1. current' = current + 1 /\ streamPos' = current + 1
    BY <1>2, <1>3, <1>4 DEF NextFromStream, NextInStream
  <2>2. captureStart' .. streamPos' - 1 = {}
    BY <1>1, <1>3, <2>1
  <2> QED
    BY <1>1, <1>3, <2>1, <2>2 DEF CaptureInv
<1>5. CASE NextFailsInSource
  BY <1>3, <1>5 DEF NextFailsInSource, CaptureInv
<1> QED
  BY <1>1, <1>2, <1>4, <1>5 DEF NextChar, NextFromBuffer

LEMMA StartTransactionCaptures ==
  ASSUME Inv, Inv', CaptureInv, StartTransaction
  PROVE  CaptureInv'
<1> DEFINE count == Len(transactions)
<1>1. /\ current # 0 /\ thrown = "none"
      /\ UNCHANGED <<document, streamPos, current, captureStart, thrown>>
      /\ Len(transactions') = count + 1 /\ count \in Nat
  BY AppendProperties DEF StartTransaction, Inv, TypeOK
<1>2. Marks' = Append(Marks, current) /\ Marks \in Seq(Positions) /\ Len(Marks) = count
  BY <1>1, StartIsBegin, MarksOfStep
<1>3. \A i \in 1 .. count + 1 : Marks'[i] = IF i = count + 1 THEN current ELSE Marks[i]
  BY <1>1, <1>2
<1>4. captureStart <= current
  BY <1>1 DEF CaptureInv
<1>5. \A i \in 1 .. count + 1 : i = count + 1 \/ i \in 1 .. count
  BY <1>1
<1>6. \A i : Kind(i)' = Kind(i)
  BY <1>1, KindIsStable
<1> HIDE DEF count
<1>7. \A i \in 1 .. count + 1 : Marks'[i] # 0 /\ captureStart <= Marks'[i]
  BY <1>1, <1>3, <1>4, <1>5 DEF CaptureInv, count
<1> QED
  BY <1>1, <1>4, <1>6, <1>7 DEF CaptureInv, count

\* Closing a transaction: a rollback returns to a position behind the captured text.
LEMMA ClosingCaptures ==
  ASSUME Inv, Inv', CaptureInv, CommitTransaction \/ RollbackTransaction
  PROVE  CaptureInv'
<1> DEFINE count == Len(transactions)
<1>1. /\ transactions # <<>> /\ transactions \in Seq(Nat) /\ transactions' = Front(transactions)
      /\ UNCHANGED <<document, streamPos, captureStart, thrown>>
  BY DEF CommitTransaction, RollbackTransaction, Inv, TypeOK
<1>2. count \in Nat \ {0} /\ Len(transactions') = count - 1
  BY <1>1, FrontProperties
<1>3. Marks' = Front(Marks) /\ Marks # <<>> /\ Marks \in Seq(Positions) /\ Len(Marks) = count
  BY <1>1, ClosingKeepsOuterMarks, MarksOfStep
<1>4. /\ \A i \in 1 .. count - 1 : Marks'[i] = Marks[i]
      /\ Last(Marks) = Marks[count]
  BY <1>3, FrontProperties
<1>5. current # 0
  BY <1>1 DEF CaptureInv
<1>6. current' = current \/ current' = Marks[count]
  BY <1>4, RollbackReturnsToMark DEF CommitTransaction
<1>7. \A i : Kind(i)' = Kind(i)
  BY <1>1, KindIsStable
<1>8. count \in 1 .. count /\ \A i \in 1 .. count - 1 : i \in 1 .. count
  BY <1>2
<1> HIDE DEF count
<1>9. \A i \in 1 .. count : Marks[i] # 0 /\ (thrown # "io" => captureStart <= Marks[i])
  BY DEF CaptureInv, count
<1>10. current' # 0 /\ (thrown # "io" => captureStart <= current')
  BY <1>5, <1>6, <1>8, <1>9 DEF CaptureInv
<1> QED
  BY <1>1, <1>2, <1>4, <1>7, <1>8, <1>9, <1>10 DEF CaptureInv

LEMMA CreateTokenCaptures ==
  ASSUME Inv, Inv', CaptureInv, CreateToken
  PROVE  CaptureInv'
<1>1. /\ UNCHANGED <<document, streamPos, current, transactionBuffer, transactions>>
      /\ thrown = "none" /\ thrown' # "io" /\ current # 0
      /\ transactions = <<>>
      /\ captureStart' = current \/ UNCHANGED captureStart
  BY DEF CreateToken
<1>2. current \in Nat /\ captureStart \in Nat
  BY DEF Inv, TypeOK, Positions
<1>3. \A i : Kind(i)' = Kind(i)
  BY <1>1, KindIsStable
<1>4. CASE captureStart' = current
  <2>1. \A i \in captureStart' .. streamPos' - 1 : Kind(i)' # "break"
    BY <1>1, <1>3, <1>4, AheadInLine
  <2> QED
    BY <1>1, <1>2, <1>4, <2>1 DEF CaptureInv
<1>5. CASE UNCHANGED captureStart
  <2>1. Marks' = Marks
    BY <1>1 DEF Marks, Replayed
  <2> QED
    BY <1>1, <1>2, <1>5, <2>1, CaptureUntouched
<1> QED
  BY <1>1, <1>4, <1>5

LEMMA NextCaptures ==
  ASSUME Inv, Inv', CaptureInv, [Next]_vars
  PROVE  CaptureInv'
<1>1. ASSUME UNCHANGED <<document, streamPos, current, transactionBuffer, transactions, captureStart>>,
             thrown' # "io" => thrown # "io"
      PROVE  CaptureInv'
  <2>1. Marks' = Marks
    BY <1>1 DEF Marks, Replayed
  <2>2. current \in Nat
    BY DEF Inv, TypeOK, Positions
  <2> QED
    BY <1>1, <2>1, <2>2, CaptureUntouched
<1>2. CASE ThrowError
  BY <1>1, <1>2 DEF ThrowError
<1>3. CASE CheckForErrorAndThrowIt
  BY <1>1, <1>3 DEF CheckForErrorAndThrowIt
<1>4. CASE UNCHANGED vars
  BY <1>1, <1>4 DEF vars
<1> QED
  BY <1>2, <1>3, <1>4, AdvanceCaptures, StartTransactionCaptures, ClosingCaptures,
     CreateTokenCaptures, EndOfLineCaptures DEF Next

\* The text that waits to be captured never starts behind the current character or
\* behind a position a rollback can return to, and never spans two lines: the raw
\* text of a token is always in the line that the stream still holds.
THEOREM CaptureIsInLine == Spec => []CaptureStaysInLine
<1>1. Init => CaptureInv
  <2> SUFFICES ASSUME Init PROVE CaptureInv
    OBVIOUS
  <2>1. captureStart .. streamPos - 1 = {} /\ 1 .. Len(transactions) = {}
    BY DEF Init
  <2> QED
    BY <2>1 DEF Init, CaptureInv
<1>2. Inv /\ Inv' /\ CaptureInv /\ [Next]_vars => CaptureInv'
  BY NextCaptures
<1>3. Inv /\ CaptureInv => CaptureStaysInLine
  BY CaptureInvImplies
<1> QED
  BY <1>1, <1>2, <1>3, InvIsInvariant, PTL DEF Spec
=============================================================================
