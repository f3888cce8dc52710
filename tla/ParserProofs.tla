----------------------------- MODULE ParserProofs -----------------------------
(***************************************************************************)
(* Proofs about Parser, for every number of sources, every list that a     *)
(* resolver may return, every limit of the nesting and documents of every  *)
(* length.                                                                 *)
(***************************************************************************)
EXTENDS Parser, FiniteSetTheorems, SequenceTheorems, WellFoundedInduction, TLAPS

\* The parts of the invariant that speak of the stack only, for any stack.
Below(stack, i) == {j \in 1 .. i - 1 : stack[j].initialized}

StackType(stack) == stack \in Seq(Contexts)

Nested(stack) ==
  \A i \in DOMAIN stack :
    /\ stack[i].level < MaxNesting
    /\ stack[i].level = Cardinality(Below(stack, i))
    /\ stack[i].parent =
         IF Below(stack, i) = {} THEN NoSource
         ELSE stack[Max(Below(stack, i))].source

Unique(stack) ==
  \A i, j \in DOMAIN stack : stack[i].source = stack[j].source => i = j

Ordered(stack) ==
  \A i, j \in DOMAIN stack :
    /\ i < j
    /\ stack[i].parent = stack[j].parent
    => stack[i].rank > stack[j].rank

\* The sources of the stack that may be open.
Reading(stack) ==
  {stack[i].source : i \in {j \in DOMAIN stack : stack[j].initialized \/ j = 1}}

StackInv(stack) ==
  StackType(stack) /\ Nested(stack) /\ Unique(stack) /\ Ordered(stack)

\* A context against what the stream of its source has yielded: as much of it was
\* read, and the signature is the one of the document or it is still ahead.  A
\* context that waits is as it was made.
Agrees(context, document) ==
  /\ context.initialized
  /\ context.read # 0
  /\ document.read = context.read
  /\ document.isComplete <=> context.ahead \in {"end", "none"}
  /\ document.signature = IF context.ahead \in SignatureTexts THEN context.ahead
                          ELSE context.signature

Waits(context) ==
  /\ ~context.initialized
  /\ context.read = 0
  /\ context.ahead = "none"
  /\ context.signature = NoText

IsRead(stack, source) ==
  \E i \in DOMAIN stack : stack[i].source = source /\ stack[i].initialized

\* What is recorded of the documents is what the contexts of the stack say, and
\* nothing is recorded of the sources that are not read.
Recorded(stack, record) ==
  /\ \A i \in DOMAIN stack :
       Waits(stack[i]) \/ Agrees(stack[i], record[stack[i].source])
  /\ \A s \in Sources : IsRead(stack, s) \/ record[s] = Unread

\* The inductive invariant.
Inv ==
  /\ TypeOK
  /\ StackInv(contextStack)
  /\ NoSourceLeaks
  /\ result = "parsing" => Recorded(contextStack, documents)
  /\ SignatureIsVerified

-----------------------------------------------------------------------------
\* Sequences and sets

\* The front and the last element of a stack that is not empty.
LEMMA TopOfStack ==
  ASSUME NEW S, NEW stack \in Seq(S), stack # <<>>
  PROVE  /\ Len(stack) \in Nat \ {0}
         /\ Front(stack) \in Seq(S)
         /\ Len(Front(stack)) = Len(stack) - 1
         /\ \A i \in 1 .. Len(stack) - 1 : Front(stack)[i] = stack[i]
         /\ Last(stack) = stack[Len(stack)]
         /\ Last(stack) \in S
<1>1. Len(stack) \in Nat \ {0}
  OBVIOUS
<1>2. Front(stack) = SubSeq(stack, 1, Len(stack) - 1) /\ Last(stack) = stack[Len(stack)]
  BY DEF Front, Last
<1>3. Front(stack) = [i \in 1 .. Len(stack) - 1 |-> stack[i]]
  BY <1>1, <1>2
<1>4. Front(stack) \in Seq(S) /\ Len(Front(stack)) = Len(stack) - 1
  BY <1>1, <1>3
<1>5. Last(stack) \in S
  BY <1>1, <1>2, ElementOfSeq
<1> QED
  BY <1>1, <1>2, <1>3, <1>4, <1>5

\* A stack with another element on top.
LEMMA OtherTop ==
  ASSUME NEW S, NEW stack \in Seq(S), stack # <<>>, NEW x \in S
  PROVE  /\ Append(Front(stack), x) \in Seq(S)
         /\ Append(Front(stack), x) # <<>>
         /\ Len(Append(Front(stack), x)) = Len(stack)
         /\ \A i \in 1 .. Len(stack) - 1 : Append(Front(stack), x)[i] = stack[i]
         /\ Append(Front(stack), x)[Len(stack)] = x
<1> DEFINE front == Front(stack)
<1>1. /\ Len(stack) \in Nat \ {0}
      /\ front \in Seq(S)
      /\ Len(front) = Len(stack) - 1
      /\ \A i \in 1 .. Len(stack) - 1 : front[i] = stack[i]
  BY TopOfStack
<1> HIDE DEF front
<1>2. /\ Append(front, x) \in Seq(S)
      /\ Append(front, x) # <<>>
      /\ Len(Append(front, x)) = Len(front) + 1
      /\ \A i \in 1 .. Len(front) : Append(front, x)[i] = front[i]
      /\ Append(front, x)[Len(front) + 1] = x
  BY <1>1, AppendProperties
<1>3. Len(front) + 1 = Len(stack)
  BY <1>1
<1> QED
  BY <1>1, <1>2, <1>3 DEF front

\* A set of indexes has a greatest one.
LEMMA GreatestIndex ==
  ASSUME NEW n \in Nat, NEW S \in SUBSET (1 .. n), S # {}
  PROVE  Max(S) \in S /\ \A i \in S : i <= Max(S)
<1> DEFINE Distances == {n - i : i \in S}
           Less == OpToRel(<, Nat)
<1>1. Distances \subseteq Nat /\ Distances # {}
  <2> HIDE DEF Less
  <2>1. ASSUME NEW i \in S PROVE n - i \in Nat
    OBVIOUS
  <2>2. PICK i \in S : TRUE
    OBVIOUS
  <2>3. n - i \in Distances
    BY <2>2
  <2> QED
    BY <2>1, <2>3
<1>2. IsWellFoundedOn(Less, Nat)
  BY NatLessThanWellFounded
<1>3. PICK d \in Distances : \A e \in Distances : ~(<<e, d>> \in Less)
  <2> HIDE DEF Distances, Less
  <2> QED
    BY <1>1, <1>2, WFMin
<1>4. ASSUME NEW e \in Distances
      PROVE  d <= e
  <2>1. d \in Nat /\ e \in Nat /\ <<e, d>> \notin Less
    BY <1>1, <1>3
  <2>2. e < d => <<e, d>> \in Less
    BY <2>1 DEF OpToRel
  <2> HIDE DEF Less, Distances
  <2> QED
    BY <2>1, <2>2
<1>5. PICK i \in S : d = n - i
  BY <1>3
<1>6. \A j \in S : i >= j
  BY <1>4, <1>5
<1> QED
  BY <1>5, <1>6 DEF Max

\* One greatest element is the only one.
LEMMA GreatestIs ==
  ASSUME NEW n \in Nat, NEW S \in SUBSET (1 .. n), NEW m \in S, \A i \in S : i <= m
  PROVE  Max(S) = m
<1>1. \A x \in S : (\A y \in S : x >= y) => x = m
  OBVIOUS
<1>2. \A y \in S : m >= y
  OBVIOUS
<1>3. \E x \in S : \A y \in S : x >= y
  BY <1>2
<1>4. Max(S) \in S /\ \A y \in S : Max(S) >= y
  BY <1>3 DEF Max
<1> QED
  BY <1>1, <1>4

-----------------------------------------------------------------------------
\* Contexts and the stack

\* The properties of the run are those of the stack.
LEMMA StackProperties ==
  /\ Nested(contextStack) <=> NestingIsBounded
  /\ Unique(contextStack) <=> SourcesAreUnique
  /\ Ordered(contextStack) <=> IncludesInOrder
BY DEF Nested, NestingIsBounded, Below, ReadBelow, Unique, SourcesAreUnique,
   Ordered, IncludesInOrder

\* Reading ahead changes what the stream of a document yields and nothing else.
LEMMA ReadingAhead ==
  ASSUME NEW context \in Contexts, NEW next \in ReadAhead(context)
  PROVE  /\ next \in Contexts
         /\ next.source = context.source
         /\ next.parent = context.parent
         /\ next.level = context.level
         /\ next.rank = context.rank
         /\ next.initialized = context.initialized
         /\ next.signature = context.signature
<1>1. CASE context.ahead = "end"
  <2>1. next = [context EXCEPT !.ahead = "none"]
    BY <1>1 DEF ReadAhead
  <2> QED
    BY <2>1 DEF Contexts, Assignments, Kinds
<1>2. CASE context.ahead # "end"
  <2>1. PICK assignment \in Offers(context) :
          next = [context EXCEPT !.ahead = assignment,
                                 !.read = @ + 1,
                                 !.inSection = InSectionAfter(assignment, context)]
    BY <1>2 DEF ReadAhead
  <2>2. assignment \in Assignments
    BY DEF Offers, Assignments, Kinds
  <2>3. InSectionAfter(assignment, context) \in BOOLEAN
    BY DEF InSectionAfter, Contexts
  <2>4. context.read + 1 \in Nat
    BY DEF Contexts
  <2> DEFINE first == [context EXCEPT !.ahead = assignment]
             second == [first EXCEPT !.read = context.read + 1]
  <2>5. first \in Contexts
    BY <2>2 DEF Contexts
  <2>6. second \in Contexts
    BY <2>4, <2>5 DEF Contexts
  <2>7. next = [second EXCEPT !.inSection = InSectionAfter(assignment, context)]
    BY <2>1
  <2>8. next \in Contexts
    BY <2>3, <2>6, <2>7 DEF Contexts
  <2> QED
    BY <2>1, <2>8 DEF Contexts
<1> QED
  BY <1>1, <1>2

\* A context that reads ahead agrees with what is recorded then, once it knows the
\* signature that was ahead.
LEMMA ReadingAheadAgrees ==
  ASSUME NEW context \in Contexts, NEW next \in ReadAhead(context),
         NEW document \in Documents,
         \/ Waits(context) /\ document = Unread
         \/ Agrees(context, document) /\ context.ahead # "none",
         NEW new,
         new.initialized, new.read = next.read, new.ahead = next.ahead,
         new.signature = IF context.ahead \in SignatureTexts THEN context.ahead
                         ELSE context.signature
  PROVE  /\ Yielded(document, next.ahead) \in Documents
         /\ Agrees(new, Yielded(document, next.ahead))
<1>1. "end" \notin SignatureTexts /\ "none" \notin SignatureTexts
  BY TextsAssumption DEF Kinds
<1>2. CASE context.ahead = "end"
  <2>1. Agrees(context, document) /\ document.isComplete
    BY <1>2 DEF Agrees, Waits
  <2>2. Yielded(document, next.ahead) = document
    BY <2>1 DEF Yielded
  <2>3. next = [context EXCEPT !.ahead = "none"]
    BY <1>2 DEF ReadAhead
  <2>4. next.read = context.read /\ next.ahead = "none"
    BY <2>3 DEF Contexts
  <2> QED
    BY <1>1, <1>2, <2>1, <2>2, <2>4 DEF Agrees
<1>3. CASE context.ahead # "end"
  <2>1. PICK assignment \in Offers(context) :
          next = [context EXCEPT !.ahead = assignment,
                                 !.read = @ + 1,
                                 !.inSection = InSectionAfter(assignment, context)]
    BY <1>3 DEF ReadAhead
  <2>2. next.ahead = assignment /\ next.read = context.read + 1
    BY <2>1 DEF Contexts
  <2>3. /\ assignment # "none"
        /\ assignment \in SignatureTexts => context.read = 0
    BY <1>1, TextsAssumption DEF Offers, Kinds
  <2>4. /\ ~document.isComplete
        /\ document.read = context.read
        /\ document.signature = IF context.ahead \in SignatureTexts THEN context.ahead
                                ELSE context.signature
        /\ context.read = 0 => Waits(context)
    BY <1>1, <1>3 DEF Agrees, Waits, Unread
  <2>5. Yielded(document, assignment) =
          [signature |-> IF assignment \in SignatureTexts THEN assignment
                         ELSE document.signature,
           read |-> document.read + 1,
           isComplete |-> assignment = "end"]
    BY <2>4 DEF Yielded
  <2>6. context.read + 1 \in Nat /\ context.read + 1 # 0
    BY DEF Contexts
  <2>7. Yielded(document, assignment) \in Documents
    BY <2>5, <2>4, <2>6 DEF Documents
  <2> DEFINE yielded == Yielded(document, assignment)
  <2>8. Agrees(new, yielded)
    <3>1. yielded.read = new.read /\ new.read # 0 /\ new.ahead = assignment
      BY <2>2, <2>4, <2>5, <2>6
    <3>4. yielded.isComplete = (assignment = "end")
      <4> DEFINE isEnd == assignment = "end"
                 signature == IF assignment \in SignatureTexts THEN assignment
                              ELSE document.signature
      <4>1. yielded = [signature |-> signature, read |-> document.read + 1,
                       isComplete |-> isEnd]
        BY <2>5
      <4> HIDE DEF isEnd, signature, yielded
      <4>2. yielded.isComplete = isEnd
        BY <4>1
      <4> QED
        BY <4>2 DEF isEnd
    <3>2. CASE assignment \in SignatureTexts
      <4>1. yielded.signature = assignment
        BY <2>5, <3>2
      <4> HIDE DEF yielded
      <4> QED
        BY <2>3, <3>1, <3>2, <3>4, <4>1 DEF Agrees
    <3>3. CASE assignment \notin SignatureTexts
      <4>1. yielded.signature = document.signature
        BY <2>5, <3>3
      <4> HIDE DEF yielded
      <4> QED
        BY <2>3, <2>4, <3>1, <3>3, <3>4, <4>1 DEF Agrees
    <3> QED
      BY <3>2, <3>3
  <2> QED
    BY <2>2, <2>7, <2>8
<1> QED
  BY <1>2, <1>3

\* The top can be replaced by a context of the same document, and it can be
\* initialized, as no context is above it.
LEMMA ReplacedTop ==
  ASSUME NEW stack, StackInv(stack), stack # <<>>,
         NEW context \in Contexts,
         context.source = Last(stack).source,
         context.parent = Last(stack).parent,
         context.level = Last(stack).level,
         context.rank = Last(stack).rank
  PROVE  /\ StackInv(Append(Front(stack), context))
         /\ Append(Front(stack), context) # <<>>
         /\ Last(Append(Front(stack), context)) = context
         /\ OnStack(Append(Front(stack), context)) = OnStack(stack)
         /\ (Last(stack).initialized => context.initialized) =>
              Reading(stack) \subseteq Reading(Append(Front(stack), context))
         /\ context.initialized =>
              context.source \in Reading(Append(Front(stack), context))
         /\ \A record \in [Sources -> Documents], document \in Documents :
              Recorded(stack, record) /\ Agrees(context, document) =>
                Recorded(Append(Front(stack), context),
                         [record EXCEPT ![context.source] = document])
<1> DEFINE new == Append(Front(stack), context)
           n == Len(stack)
<1>0. stack \in Seq(Contexts)
  BY DEF StackInv, StackType
<1>1. n \in Nat \ {0} /\ DOMAIN stack = 1 .. n /\ Last(stack) = stack[n]
  BY <1>0 DEF Last
<1>2. /\ new \in Seq(Contexts)
      /\ Len(new) = n
      /\ \A i \in 1 .. n - 1 : new[i] = stack[i]
      /\ new[n] = context
      /\ new # <<>>
  BY <1>0, OtherTop
<1> HIDE DEF new, n
<1>3. /\ DOMAIN new = 1 .. n
      /\ \A i \in 1 .. n : /\ new[i].source = stack[i].source
                           /\ new[i].parent = stack[i].parent
                           /\ new[i].level = stack[i].level
                           /\ new[i].rank = stack[i].rank
  <2>1. DOMAIN new = 1 .. n
    BY <1>2
  <2>2. \A i \in 1 .. n : i = n \/ i \in 1 .. n - 1
    BY <1>1
  <2> QED
    BY <1>1, <1>2, <2>1, <2>2
<1>4. \A i \in 1 .. n : Below(new, i) = Below(stack, i)
  BY <1>1, <1>2 DEF Below
<1>5. Nested(new)
  <2> SUFFICES ASSUME NEW i \in 1 .. n
               PROVE  /\ new[i].level < MaxNesting
                      /\ new[i].level = Cardinality(Below(new, i))
                      /\ new[i].parent =
                           IF Below(new, i) = {} THEN NoSource
                           ELSE new[Max(Below(new, i))].source
    BY <1>2 DEF Nested
  <2>1. Below(stack, i) # {} => Max(Below(stack, i)) \in 1 .. n
    <3>1. i - 1 \in Nat /\ Below(stack, i) \in SUBSET (1 .. i - 1)
      BY <1>1 DEF Below
    <3>2. Below(stack, i) # {} => Max(Below(stack, i)) \in Below(stack, i)
      BY <3>1, GreatestIndex
    <3> QED
      BY <1>1, <3>1, <3>2
  <2> QED
    BY <1>1, <1>3, <1>4, <2>1 DEF StackInv, Nested
<1>6. Unique(new)
  BY <1>1, <1>2, <1>3 DEF StackInv, Unique
<1>7. Ordered(new)
  BY <1>1, <1>2, <1>3 DEF StackInv, Ordered
<1>8. OnStack(new) = OnStack(stack)
  BY <1>1, <1>2, <1>3 DEF OnStack
<1>9. Last(new) = context
  BY <1>2 DEF Last
<1>10. StackInv(new) /\ new # <<>> /\ Last(new) = context /\ OnStack(new) = OnStack(stack)
  BY <1>2, <1>5, <1>6, <1>7, <1>8, <1>9 DEF StackInv, StackType
<1>11. ASSUME Last(stack).initialized => context.initialized,
              NEW i \in 1 .. n, stack[i].initialized \/ i = 1
       PROVE  new[i].initialized \/ i = 1
  <2>1. i = n \/ i \in 1 .. n - 1
    BY <1>1
  <2> QED
    BY <1>1, <1>2, <1>11, <2>1
<1>12. (Last(stack).initialized => context.initialized) =>
         Reading(stack) \subseteq Reading(new)
  BY <1>1, <1>3, <1>11 DEF Reading
<1>13. context.initialized => context.source \in Reading(new)
  BY <1>1, <1>2, <1>3 DEF Reading
<1>14. ASSUME NEW record \in [Sources -> Documents], NEW document \in Documents,
              Recorded(stack, record), Agrees(context, document)
       PROVE  Recorded(new, [record EXCEPT ![context.source] = document])
  <2> DEFINE record2 == [record EXCEPT ![context.source] = document]
  <2>1. /\ context.source \in Sources
        /\ \A i \in 1 .. n : stack[i].source \in Sources
    <3>1. \A i \in 1 .. n : stack[i] \in Contexts
      BY <1>0, <1>1, ElementOfSeq DEF n
    <3>2. \A x \in Contexts : x.source \in Sources
      BY DEF Contexts
    <3> QED
      BY <3>1, <3>2
  <2>2. /\ record2[context.source] = document
        /\ \A s \in Sources : s # context.source => record2[s] = record[s]
    BY <2>1
  <2> HIDE DEF record2
  <2>3. ASSUME NEW i \in 1 .. n - 1
        PROVE  /\ i \in 1 .. n
               /\ new[i] = stack[i]
               /\ stack[i].source # context.source
               /\ record2[stack[i].source] = record[stack[i].source]
    <3>1. i \in 1 .. n /\ n \in 1 .. n /\ i # n
      BY <1>1
    <3>2. stack[i].source # context.source
      BY <1>1, <3>1 DEF StackInv, Unique
    <3> QED
      BY <1>2, <2>1, <2>2, <3>1, <3>2
  <2>4. ASSUME NEW i \in DOMAIN new
        PROVE  Waits(new[i]) \/ Agrees(new[i], record2[new[i].source])
    <3>1. i = n \/ i \in 1 .. n - 1
      BY <1>1, <1>3
    <3>2. CASE i = n
      BY <1>2, <1>14, <2>2, <3>2
    <3>3. CASE i \in 1 .. n - 1
      BY <1>1, <1>14, <2>3, <3>3 DEF Recorded
    <3> QED
      BY <3>1, <3>2, <3>3
  <2>5. ASSUME NEW s \in Sources
        PROVE  IsRead(new, s) \/ record2[s] = Unread
    <3>1. CASE s = context.source
      <4>1. n \in DOMAIN new /\ new[n].source = s /\ new[n].initialized
        BY <1>1, <1>2, <1>3, <1>14, <3>1 DEF Agrees
      <4> QED
        BY <4>1 DEF IsRead
    <3>2. CASE s # context.source
      <4>1. record2[s] = record[s]
        BY <2>2, <3>2
      <4>2. ASSUME NEW i \in DOMAIN stack, stack[i].source = s, stack[i].initialized
            PROVE  IsRead(new, s)
        <5>1. i \in 1 .. n - 1 /\ i \in DOMAIN new
          BY <1>1, <1>3, <3>2, <4>2
        <5> QED
          BY <2>3, <4>2, <5>1 DEF IsRead
      <4> QED
        BY <1>14, <4>1, <4>2 DEF Recorded, IsRead
    <3> QED
      BY <3>1, <3>2
  <2> QED
    BY <2>4, <2>5 DEF Recorded, record2
<1> QED
  BY <1>10, <1>12, <1>13, <1>14 DEF new

\* Leaving a context keeps what holds of the others.
LEMMA LeftContext ==
  ASSUME NEW stack, StackInv(stack), stack # <<>>
  PROVE  /\ StackInv(Front(stack))
         /\ Reading(stack) \ {Last(stack).source} \subseteq Reading(Front(stack))
         /\ Len(stack) = 1 => Reading(Front(stack)) = {} /\ Front(stack) = <<>>
         /\ \A record \in [Sources -> Documents] :
              Recorded(stack, record) =>
                Recorded(Front(stack), [record EXCEPT ![Last(stack).source] = Unread])
<1> DEFINE new == Front(stack)
           n == Len(stack)
<1>0. stack \in Seq(Contexts)
  BY DEF StackInv, StackType
<1>1. n \in Nat \ {0} /\ DOMAIN stack = 1 .. n
  BY <1>0
<1>2. /\ new \in Seq(Contexts)
      /\ Len(new) = n - 1
      /\ \A i \in 1 .. n - 1 : new[i] = stack[i]
  BY <1>0, TopOfStack
<1> HIDE DEF new, n
<1>3. DOMAIN new = 1 .. n - 1
  BY <1>1, <1>2
<1>4. \A i \in 1 .. n - 1 : Below(new, i) = Below(stack, i)
  BY <1>1, <1>2 DEF Below
<1>5. Nested(new)
  <2> SUFFICES ASSUME NEW i \in 1 .. n - 1
               PROVE  /\ new[i].level < MaxNesting
                      /\ new[i].level = Cardinality(Below(new, i))
                      /\ new[i].parent =
                           IF Below(new, i) = {} THEN NoSource
                           ELSE new[Max(Below(new, i))].source
    BY <1>2 DEF Nested
  <2>1. Below(stack, i) # {} => Max(Below(stack, i)) \in 1 .. n - 1
    <3>1. i - 1 \in Nat /\ Below(stack, i) \in SUBSET (1 .. i - 1)
      BY <1>1 DEF Below
    <3>2. Below(stack, i) # {} => Max(Below(stack, i)) \in Below(stack, i)
      BY <3>1, GreatestIndex
    <3> QED
      BY <1>1, <3>1, <3>2
  <2> QED
    BY <1>1, <1>2, <1>4, <2>1 DEF StackInv, Nested
<1>6. Unique(new)
  BY <1>1, <1>2 DEF StackInv, Unique
<1>7. Ordered(new)
  BY <1>1, <1>2 DEF StackInv, Ordered
<1>8. Last(stack) = stack[n]
  BY DEF Last, n
<1>9. Reading(stack) \ {stack[n].source} \subseteq Reading(new)
  <2>1. \A i \in 1 .. n : i = n \/ i \in 1 .. n - 1
    BY <1>1
  <2> QED
    BY <1>1, <1>2, <1>3, <2>1 DEF Reading
<1>10. n = 1 => Reading(new) = {} /\ new = <<>>
  BY <1>2, <1>3 DEF Reading
<1>11. StackInv(new)
  BY <1>2, <1>5, <1>6, <1>7 DEF StackInv, StackType
<1>12. ASSUME NEW record \in [Sources -> Documents], Recorded(stack, record)
       PROVE  Recorded(new, [record EXCEPT ![stack[n].source] = Unread])
  <2> DEFINE source == stack[n].source
             record2 == [record EXCEPT ![source] = Unread]
  <2>1. \A i \in 1 .. n : stack[i].source \in Sources
    <3>1. \A i \in 1 .. n : stack[i] \in Contexts
      BY <1>0, <1>1, ElementOfSeq DEF n
    <3>2. \A x \in Contexts : x.source \in Sources
      BY DEF Contexts
    <3> QED
      BY <3>1, <3>2
  <2>2. /\ record2[source] = Unread
        /\ \A s \in Sources : s # source => record2[s] = record[s]
    BY <1>1, <2>1
  <2> HIDE DEF record2
  <2>3. ASSUME NEW i \in 1 .. n - 1
        PROVE  /\ i \in 1 .. n
               /\ new[i] = stack[i]
               /\ stack[i].source # source
               /\ record2[stack[i].source] = record[stack[i].source]
    <3>1. i \in 1 .. n /\ n \in 1 .. n /\ i # n
      BY <1>1
    <3>2. stack[i].source # source
      BY <1>1, <3>1 DEF StackInv, Unique
    <3> QED
      BY <1>2, <2>1, <2>2, <3>1, <3>2
  <2> HIDE DEF source
  <2>4. \A i \in DOMAIN new : Waits(new[i]) \/ Agrees(new[i], record2[new[i].source])
    BY <1>1, <1>3, <1>12, <2>3 DEF Recorded
  <2>5. ASSUME NEW s \in Sources, s # source
        PROVE  IsRead(new, s) \/ record2[s] = Unread
    <3>1. ASSUME NEW i \in DOMAIN stack, stack[i].source = s, stack[i].initialized
          PROVE  IsRead(new, s)
      <4>1. i \in 1 .. n - 1 /\ i \in DOMAIN new
        BY <1>1, <1>3, <2>5, <3>1 DEF source
      <4> QED
        BY <2>3, <3>1, <4>1 DEF IsRead
    <3>2. IsRead(stack, s) => IsRead(new, s)
      BY <3>1 DEF IsRead
    <3> QED
      BY <1>12, <2>2, <2>5, <3>2 DEF Recorded
  <2>6. \A s \in Sources : IsRead(new, s) \/ record2[s] = Unread
    BY <2>2, <2>5
  <2> QED
    BY <2>4, <2>6 DEF Recorded, record2, source
<1> QED
  BY <1>8, <1>9, <1>10, <1>11, <1>12 DEF new, n

\* The contexts of an include, from the last source of the list down to the one
\* at first, are a level deeper than the document that includes them.
LEMMA PushedContexts ==
  ASSUME NEW stack, StackInv(stack), stack # <<>>, Last(stack).initialized,
         NEW list \in Seq(Sources), NEW first \in 1 .. Len(list) + 1,
         \A i \in first .. Len(list) : i \notin Refused(list, stack),
         Last(stack).level + 1 < MaxNesting
  PROVE  /\ StackInv(Pushed(list, first, stack, Last(stack).level + 1))
         /\ Pushed(list, first, stack, Last(stack).level + 1) # <<>>
         /\ OnStack(stack) \subseteq
              OnStack(Pushed(list, first, stack, Last(stack).level + 1))
         /\ Reading(stack) \subseteq
              Reading(Pushed(list, first, stack, Last(stack).level + 1))
         /\ \A record : Recorded(stack, record) =>
              Recorded(Pushed(list, first, stack, Last(stack).level + 1), record)
<1> DEFINE n == Len(stack)
           m == Len(list)
           top == Last(stack)
           level == top.level + 1
           count == m - first + 1
           added == [i \in 1 .. count |->
                       NewContext(list[m - i + 1], top.source, level, m - i + 1)]
           new == stack \o added
<1>1. stack \in Seq(Contexts) /\ top \in Contexts
  BY TopOfStack DEF StackInv, StackType
<1>2. n \in Nat \ {0} /\ DOMAIN stack = 1 .. n /\ top = stack[n] /\ n \in 1 .. n
  BY <1>1 DEF Last
<1>3. m \in Nat /\ count \in Nat /\ first \in Nat \ {0}
  OBVIOUS
<1>4. level \in Nat /\ top.source \in Sources
  BY <1>1 DEF Contexts
<1>5. ASSUME NEW i \in 1 .. count
      PROVE  /\ m - i + 1 \in first .. m
             /\ added[i] = NewContext(list[m - i + 1], top.source, level, m - i + 1)
             /\ added[i] \in Contexts
  <2>1. m - i + 1 \in first .. m /\ m - i + 1 \in 1 .. m
    BY <1>3
  <2>2. list[m - i + 1] \in Sources /\ m - i + 1 \in Nat
    BY <2>1, ElementOfSeq
  <2>3. added[i] = NewContext(list[m - i + 1], top.source, level, m - i + 1)
    OBVIOUS
  <2>4. added[i] \in Contexts
    BY <1>4, <2>2, <2>3 DEF NewContext, Contexts, Assignments, Kinds
  <2> QED
    BY <2>1, <2>3, <2>4
<1>6. added \in Seq(Contexts) /\ Len(added) = count
  BY <1>3, <1>5
<1>7. Pushed(list, first, stack, level) = new
  BY DEF Pushed
<1> HIDE DEF n, m, top, level, count, added
<1>8. /\ new \in Seq(Contexts)
      /\ Len(new) = n + count
      /\ \A i \in 1 .. n + count : new[i] = IF i <= n THEN stack[i] ELSE added[i - n]
  BY <1>1, <1>6, ConcatProperties DEF n
<1> HIDE DEF new
<1>9. /\ DOMAIN new = 1 .. n + count
      /\ new # <<>>
      /\ \A i \in 1 .. n : new[i] = stack[i]
  BY <1>2, <1>3, <1>8
<1>10. ASSUME NEW i \in n + 1 .. n + count
       PROVE  /\ new[i] = NewContext(list[m - (i - n) + 1], top.source, level, m - (i - n) + 1)
              /\ m - (i - n) + 1 \in first .. m
              /\ i - n \in 1 .. count
  <2>1. i - n \in 1 .. count /\ i \in 1 .. n + count /\ ~(i <= n)
    BY <1>2, <1>3
  <2> QED
    BY <1>5, <1>8, <2>1
<1>11. ASSUME NEW i \in n + 1 .. n + count
       PROVE  /\ new[i].source = list[m - (i - n) + 1]
              /\ new[i].parent = top.source
              /\ new[i].level = level
              /\ new[i].rank = m - (i - n) + 1
              /\ ~new[i].initialized
              /\ Waits(new[i])
  <2> DEFINE rank == m - (i - n) + 1
             source == list[rank]
             parent == top.source
  <2>1. new[i] = NewContext(source, parent, level, rank)
    BY <1>10
  <2> HIDE DEF source, parent, rank
  <2>2. /\ new[i].source = source
        /\ new[i].parent = parent
        /\ new[i].level = level
        /\ new[i].rank = rank
        /\ new[i].initialized = FALSE
        /\ new[i].read = 0
        /\ new[i].ahead = "none"
        /\ new[i].signature = NoText
    BY <2>1 DEF NewContext
  <2> QED
    BY <2>2 DEF source, parent, rank, Waits
<1>12. \A i \in DOMAIN new : i \in 1 .. n \/ i \in n + 1 .. n + count
  BY <1>2, <1>3, <1>9
<1>13. OnStack(stack) \subseteq OnStack(new)
  BY <1>2, <1>3, <1>9 DEF OnStack
<1>14. Reading(stack) \subseteq Reading(new)
  BY <1>2, <1>3, <1>9 DEF Reading
<1>15. Nested(new)
  <2>1. ASSUME NEW i \in 1 .. n
        PROVE  /\ new[i].level < MaxNesting
               /\ new[i].level = Cardinality(Below(new, i))
               /\ new[i].parent =
                    IF Below(new, i) = {} THEN NoSource
                    ELSE new[Max(Below(new, i))].source
    <3>1. Below(new, i) = Below(stack, i)
      BY <1>2, <1>9 DEF Below
    <3>2. Below(stack, i) # {} => Max(Below(stack, i)) \in 1 .. n
      <4>1. i - 1 \in Nat /\ Below(stack, i) \in SUBSET (1 .. i - 1)
        BY <1>2 DEF Below
      <4>2. Below(stack, i) # {} => Max(Below(stack, i)) \in Below(stack, i)
        BY <4>1, GreatestIndex
      <4> QED
        BY <1>2, <4>1, <4>2
    <3> QED
      BY <1>2, <1>9, <3>1, <3>2 DEF StackInv, Nested
  <2>2. ASSUME NEW i \in n + 1 .. n + count
        PROVE  /\ new[i].level < MaxNesting
               /\ new[i].level = Cardinality(Below(new, i))
               /\ new[i].parent =
                    IF Below(new, i) = {} THEN NoSource
                    ELSE new[Max(Below(new, i))].source
    <3>1. Below(new, i) = Below(stack, n) \cup {n}
      <4>1. \A j \in 1 .. i - 1 : j \in 1 .. n \/ j \in n + 1 .. n + count
        BY <1>2, <1>3
      <4>2. \A j \in 1 .. i - 1 : new[j].initialized => j \in 1 .. n
        BY <1>11, <4>1
      <4>3. Below(new, i) = {j \in 1 .. n : stack[j].initialized}
        BY <1>2, <1>3, <1>9, <4>2 DEF Below
      <4>4. stack[n].initialized
        BY <1>2 DEF top
      <4> QED
        BY <1>2, <4>3, <4>4 DEF Below
    <3>2. IsFiniteSet(Below(stack, n)) /\ n \notin Below(stack, n)
      <4>1. IsFiniteSet(1 .. n - 1) /\ Below(stack, n) \in SUBSET (1 .. n - 1)
        <5>1. n - 1 \in Int /\ 1 \in Int
          BY <1>2
        <5>2. IsFiniteSet(1 .. n - 1)
          BY <5>1, FS_Interval
        <5> QED
          BY <5>2 DEF Below
      <4>2. IsFiniteSet(Below(stack, n))
        BY <4>1, FS_Subset
      <4> QED
        BY <1>2, <4>2 DEF Below
    <3>3. Cardinality(Below(new, i)) = Cardinality(Below(stack, n)) + 1
      BY <3>1, <3>2, FS_AddElement
    <3>4. Cardinality(Below(stack, n)) = top.level
      BY <1>2 DEF StackInv, Nested
    <3>5. Max(Below(new, i)) = n
      <4>1. /\ Below(new, i) \in SUBSET (1 .. n)
            /\ n \in Below(new, i)
            /\ \A j \in Below(new, i) : j <= n
        BY <1>2, <3>1 DEF Below
      <4> QED
        BY <1>2, <4>1, GreatestIs
    <3>6. new[n].source = top.source
      BY <1>2, <1>9
    <3> QED
      BY <1>11, <3>1, <3>3, <3>4, <3>5, <3>6 DEF level, top
  <2> QED
    BY <1>12, <2>1, <2>2 DEF Nested
<1>16. ASSUME NEW i \in 1 .. n, NEW j \in n + 1 .. n + count
       PROVE  new[i].source # new[j].source
  <2>1. /\ m - (j - n) + 1 \in first .. m
        /\ new[j].source = list[m - (j - n) + 1]
        /\ m - (j - n) + 1 \in DOMAIN list
    BY <1>3, <1>10, <1>11 DEF m
  <2>2. list[m - (j - n) + 1] \notin OnStack(stack)
    BY <2>1 DEF Refused, m
  <2>3. new[i].source \in OnStack(stack)
    BY <1>2, <1>9 DEF OnStack
  <2> QED
    BY <2>1, <2>2, <2>3
<1>17. ASSUME NEW i \in n + 1 .. n + count, NEW j \in n + 1 .. n + count, i < j
       PROVE  new[i].source # new[j].source /\ new[i].rank > new[j].rank
  <2> DEFINE k == m - (i - n) + 1
             l == m - (j - n) + 1
  <2>1. k \in first .. m /\ l \in first .. m
    BY <1>10
  <2>2. l \in DOMAIN list /\ l < k /\ k \in l + 1 .. m
    <3>1. i \in Int /\ j \in Int /\ n \in Int /\ m \in Nat /\ first \in Nat \ {0}
      BY <1>2, <1>3
    <3>2. l < k /\ l \in 1 .. m /\ k \in l + 1 .. m
      BY <1>17, <2>1, <3>1
    <3> QED
      BY <3>2 DEF m
  <2>3. list[k] # list[l]
    BY <2>1, <2>2 DEF Refused, m
  <2> QED
    BY <1>11, <2>2, <2>3
<1>18. Unique(new)
  <2> SUFFICES ASSUME NEW i \in DOMAIN new, NEW j \in DOMAIN new,
                      new[i].source = new[j].source, i # j
               PROVE  FALSE
    BY DEF Unique
  <2>1. CASE i \in 1 .. n /\ j \in 1 .. n
    BY <1>2, <1>9, <2>1 DEF StackInv, Unique
  <2>2. CASE i \in n + 1 .. n + count /\ j \in n + 1 .. n + count
    <3>1. i < j \/ j < i
      BY <1>2, <1>3, <2>2
    <3> QED
      BY <1>17, <2>2, <3>1
  <2> QED
    BY <1>12, <1>16, <2>1, <2>2
<1>19. ASSUME NEW i \in 1 .. n
       PROVE  stack[i].parent # top.source
  <2>1. i - 1 \in Nat /\ Below(stack, i) \in SUBSET (1 .. i - 1)
    BY <1>2 DEF Below
  <2>2. CASE Below(stack, i) = {}
    <3>1. stack[i].parent = NoSource
      BY <1>2, <2>2 DEF StackInv, Nested
    <3> QED
      BY <1>4, <3>1, SourcesAssumption
  <2>3. CASE Below(stack, i) # {}
    <3>1. stack[i].parent = stack[Max(Below(stack, i))].source
      BY <1>2, <2>3 DEF StackInv, Nested
    <3>2. Max(Below(stack, i)) \in 1 .. i - 1
      BY <2>1, <2>3, GreatestIndex
    <3>3. Max(Below(stack, i)) \in 1 .. n /\ Max(Below(stack, i)) # n
      BY <1>2, <3>2
    <3> QED
      BY <1>2, <3>1, <3>3 DEF StackInv, Unique
  <2> QED
    BY <2>2, <2>3
<1>20. Ordered(new)
  <2> SUFFICES ASSUME NEW i \in DOMAIN new, NEW j \in DOMAIN new, i < j,
                      new[i].parent = new[j].parent
               PROVE  new[i].rank > new[j].rank
    BY DEF Ordered
  <2>1. CASE i \in 1 .. n /\ j \in 1 .. n
    BY <1>2, <1>9, <2>1 DEF StackInv, Ordered
  <2>2. CASE i \in 1 .. n /\ j \in n + 1 .. n + count
    BY <1>9, <1>11, <1>19, <2>2
  <2>3. CASE i \in n + 1 .. n + count /\ j \in n + 1 .. n + count
    BY <1>17, <2>3
  <2>4. ~(i \in n + 1 .. n + count /\ j \in 1 .. n)
    BY <1>2, <1>3
  <2> QED
    BY <1>12, <2>1, <2>2, <2>3, <2>4
<1>21. StackInv(new) /\ new # <<>>
  BY <1>8, <1>9, <1>15, <1>18, <1>20 DEF StackInv, StackType
<1>22. Pushed(list, first, stack, Last(stack).level + 1) = new
  BY <1>7 DEF level, top
<1>23. ASSUME NEW record, Recorded(stack, record)
       PROVE  Recorded(new, record)
  <2>1. \A i \in DOMAIN new : Waits(new[i]) \/ Agrees(new[i], record[new[i].source])
    BY <1>2, <1>9, <1>11, <1>12, <1>23 DEF Recorded
  <2>2. \A s \in Sources : IsRead(stack, s) => IsRead(new, s)
    BY <1>2, <1>3, <1>9 DEF IsRead
  <2> QED
    BY <1>23, <2>1, <2>2 DEF Recorded
<1> QED
  BY <1>13, <1>14, <1>21, <1>22, <1>23

-----------------------------------------------------------------------------
\* The actions

LEMMA InitEstablishes == Init => Inv
<1> SUFFICES ASSUME Init PROVE Inv
  OBVIOUS
<1> DEFINE root == NewContext(RootSource, NoSource, 0, 1)
<1>1. /\ root \in Contexts /\ root.source = RootSource /\ root.level = 0
      /\ root.parent = NoSource
  BY SourcesAssumption DEF NewContext, Contexts, Assignments, Kinds
<1>2. contextStack = <<root>>
  BY DEF Init
<1> HIDE DEF root
<1>3. /\ contextStack \in Seq(Contexts)
      /\ DOMAIN contextStack = {1}
      /\ contextStack[1] = root
  BY <1>1, <1>2
<1>4. Below(contextStack, 1) = {}
  BY DEF Below
<1>5. Nested(contextStack)
  <2>1. /\ root.level = Cardinality(Below(contextStack, 1))
        /\ root.level < MaxNesting
    BY <1>1, <1>4, FS_EmptySet, NestingAssumption
  <2> QED
    BY <1>1, <1>3, <1>4, <2>1 DEF Nested
<1>6. Unique(contextStack) /\ Ordered(contextStack)
  BY <1>3 DEF Unique, Ordered
<1>7. TypeOK
  <2>1. sourceOpen \in [Sources -> BOOLEAN]
    BY DEF Init
  <2>2. documents \in [Sources -> Documents]
    BY DEF Init, Unread, Documents
  <2> QED
    BY <1>3, <2>1, <2>2 DEF Init, TypeOK
<1>8. NoSourceLeaks
  <2>1. \A s \in Sources : sourceOpen[s] => s = RootSource
    BY DEF Init
  <2> QED
    BY <1>1, <1>3, <2>1 DEF Init, NoSourceLeaks
<1>9. SignatureIsVerified
  BY DEF Init, SignatureIsVerified
<1>10. Recorded(contextStack, documents)
  <2>1. Waits(root)
    BY DEF root, NewContext, Waits
  <2>2. \A s \in Sources : documents[s] = Unread
    BY DEF Init
  <2> QED
    BY <1>3, <2>1, <2>2 DEF Recorded
<1> QED
  BY <1>3, <1>5, <1>6, <1>7, <1>8, <1>9, <1>10 DEF Inv, StackInv, StackType

\* The invariant of the stack depends on nothing but the stack.
LEMMA NextStack ==
  ASSUME NEW new, StackInv(new), contextStack' = new
  PROVE  StackInv(contextStack)'
<1>1. StackType(contextStack)'
  BY DEF StackInv, StackType
<1>2. Nested(contextStack)'
  BY DEF StackInv, Nested, Below
<1>3. Unique(contextStack)'
  BY DEF StackInv, Unique
<1>4. Ordered(contextStack)'
  BY DEF StackInv, Ordered
<1> QED
  BY <1>1, <1>2, <1>3, <1>4 DEF StackInv

LEMMA NextRecord ==
  ASSUME NEW new, NEW record, Recorded(new, record),
         contextStack' = new, documents' = record
  PROVE  Recorded(contextStack, documents)'
BY DEF Recorded, IsRead

\* What was left stays verified.
LEMMA StaysVerified ==
  ASSUME Inv, UNCHANGED <<settings, left>>
  PROVE  SignatureIsVerified'
BY DEF Inv, SignatureIsVerified

\* Open sources by the part of the stack that is read.
LEMMA OpenIsReading ==
  NoSourceLeaks <=>
    \A s \in Sources : sourceOpen[s] => result = "parsing" /\ s \in Reading(contextStack)
BY DEF NoSourceLeaks, Reading

\* A failure closes every source that may be open.
LEMMA FailurePreserves ==
  ASSUME Inv, NEW stack, StackInv(stack), OnStack(contextStack) \subseteq OnStack(stack),
         NEW failure \in Failures, FailWith(failure, stack),
         UNCHANGED <<settings, left>>,
         documents' \in [Sources -> Documents],
         lastSection' \in Sources \cup {NoSource}
  PROVE  Inv'
<1>1. /\ contextStack' = stack
      /\ result' = failure
      /\ sourceOpen' = [s \in Sources |-> sourceOpen[s] /\ s \notin OnStack(stack)]
  BY DEF FailWith
<1>2. ASSUME NEW s \in Sources
      PROVE  sourceOpen'[s] = FALSE
  <2>1. sourceOpen[s] => s \in OnStack(contextStack)
    BY DEF Inv, NoSourceLeaks, OnStack
  <2>2. sourceOpen[s] \in BOOLEAN
    BY DEF Inv, TypeOK
  <2> QED
    BY <1>1, <2>1, <2>2
<1>3. sourceOpen' \in [Sources -> BOOLEAN]
  BY <1>1 DEF Inv, TypeOK
<1>4. TypeOK'
  BY <1>1, <1>3 DEF Inv, TypeOK, StackInv, StackType
<1>5. NoSourceLeaks'
  BY <1>2 DEF NoSourceLeaks
<1>6. StackInv(contextStack')
  BY <1>1
<1>7. SignatureIsVerified'
  BY StaysVerified
<1>8. StackInv(contextStack)'
  BY <1>6, NextStack
<1>9. result' # "parsing"
  BY <1>1 DEF Failures
<1> QED
  BY <1>4, <1>5, <1>7, <1>8, <1>9 DEF Inv

\* Processing of the top context goes on.
LEMMA ContinuingPreserves ==
  ASSUME Inv, result = "parsing", contextStack # <<>>, NEW next \in Contexts,
         next.source = Top.source, next.parent = Top.parent,
         next.level = Top.level, next.rank = Top.rank,
         next.initialized = Top.initialized,
         Continue(next),
         Yielded(documents[next.source], next.ahead) \in Documents,
         Agrees(next, Yielded(documents[next.source], next.ahead)),
         UNCHANGED <<settings, left>>,
         lastSection' \in Sources \cup {NoSource}
  PROVE  Inv'
<1> DEFINE new == ReplaceTop(next)
<1>1. TypeOK /\ StackInv(contextStack)
  BY DEF Inv
<1>2. Top = Last(contextStack)
  BY DEF Top
<1> DEFINE record == [documents EXCEPT ![next.source] =
                         Yielded(documents[next.source], next.ahead)]
<1>3. /\ StackInv(new)
      /\ Reading(contextStack) \subseteq Reading(new)
      /\ Recorded(new, record)
  <2>1. documents \in [Sources -> Documents] /\ Recorded(contextStack, documents)
    BY DEF Inv, TypeOK
  <2> QED
    BY <1>1, <1>2, <2>1, ReplacedTop DEF ReplaceTop
<1>4. contextStack' = new /\ documents' = record /\ UNCHANGED <<sourceOpen, result>>
  BY DEF Continue, Record
<1>9. record \in [Sources -> Documents]
  BY DEF Inv, TypeOK
<1> HIDE DEF new, record
<1>5. TypeOK'
  BY <1>3, <1>4, <1>9 DEF Inv, TypeOK, StackInv, StackType
<1>6. StackInv(contextStack)'
  BY <1>3, <1>4, NextStack
<1>7. NoSourceLeaks'
  <2>1. \A s \in Sources : sourceOpen[s] => result = "parsing" /\ s \in Reading(contextStack)
    BY OpenIsReading DEF Inv
  <2>2. Reading(contextStack)' = Reading(new)
    BY <1>4 DEF Reading
  <2> QED
    BY <1>3, <1>4, <2>1, <2>2 DEF NoSourceLeaks, Reading
<1>8. SignatureIsVerified'
  BY StaysVerified
<1>10. Recorded(contextStack, documents)'
  BY <1>3, <1>4, NextRecord
<1> QED
  BY <1>5, <1>6, <1>7, <1>8, <1>10 DEF Inv

\* The context that is worked with, and what it becomes by reading ahead.
LEMMA TopIsContext ==
  ASSUME Inv, contextStack # <<>>
  PROVE  /\ Top \in Contexts
         /\ Top = Last(contextStack)
         /\ \A next \in ReadAhead(Top) :
              /\ next \in Contexts
              /\ next.source = Top.source
              /\ next.parent = Top.parent
              /\ next.level = Top.level
              /\ next.rank = Top.rank
              /\ next.initialized = Top.initialized
              /\ next.signature = Top.signature
<1>1. contextStack \in Seq(Contexts)
  BY DEF Inv, TypeOK
<1>2. Top \in Contexts /\ Top = Last(contextStack)
  BY <1>1, TopOfStack DEF Top
<1> QED
  BY <1>2, ReadingAhead

\* A step that fails without a change of the stack.
LEMMA FailingPreserves ==
  ASSUME Inv, NEW failure \in Failures, Fail(failure),
         UNCHANGED <<settings, left>>,
         lastSection' \in Sources \cup {NoSource}
  PROVE  Inv'
BY FailurePreserves DEF Fail, Inv, TypeOK

\* The context that is worked with is initialized and agrees with the record, or it
\* waits and nothing is recorded of its source.
LEMMA TopAgrees ==
  ASSUME Inv, result = "parsing", contextStack # <<>>
  PROVE  /\ Top.source \in Sources
         /\ documents[Top.source] \in Documents
         /\ Top.initialized => Agrees(Top, documents[Top.source])
         /\ ~Top.initialized => Waits(Top) /\ documents[Top.source] = Unread
<1> DEFINE n == Len(contextStack)
<1>1. /\ contextStack \in Seq(Contexts)
      /\ documents \in [Sources -> Documents]
      /\ StackInv(contextStack)
      /\ Recorded(contextStack, documents)
  BY DEF Inv, TypeOK
<1>2. n \in DOMAIN contextStack /\ Top = contextStack[n] /\ Top \in Contexts
  BY <1>1, TopOfStack DEF Top
<1>3. Top.source \in Sources
  BY <1>2 DEF Contexts
<1>4. Waits(Top) \/ Agrees(Top, documents[Top.source])
  BY <1>1, <1>2 DEF Recorded
<1>5. ASSUME ~Top.initialized
      PROVE  Waits(Top) /\ documents[Top.source] = Unread
  <2>1. ~IsRead(contextStack, Top.source)
    BY <1>1, <1>2, <1>5 DEF IsRead, StackInv, Unique
  <2> QED
    BY <1>1, <1>3, <1>4, <1>5, <2>1 DEF Recorded, Agrees
<1> QED
  BY <1>1, <1>3, <1>4, <1>5 DEF Waits

\* Reading ahead with an assignment processed that is no signature.
LEMMA TopReadsAhead ==
  ASSUME Inv, HasNext, NEW context \in ReadAhead(Top), Top.ahead \notin SignatureTexts
  PROVE  /\ Yielded(documents[context.source], context.ahead) \in Documents
         /\ Agrees(context, Yielded(documents[context.source], context.ahead))
<1>1. /\ Top \in Contexts /\ context.source = Top.source
      /\ context.initialized = Top.initialized /\ context.signature = Top.signature
  BY TopIsContext DEF HasNext
<1>2. /\ documents[Top.source] \in Documents
      /\ Agrees(Top, documents[Top.source])
      /\ Top.ahead # "none" /\ Top.initialized
  BY TopAgrees DEF HasNext
<1> QED
  BY <1>1, <1>2, ReadingAheadAgrees

LEMMA InitializeCurrentContextPreserves ==
  ASSUME Inv, InitializeCurrentContext
  PROVE  Inv'
<1>1. /\ result = "parsing" /\ contextStack # <<>>
      /\ ~Top.initialized
      /\ UNCHANGED <<settings, lastSection, left>>
      /\ lastSection' \in Sources \cup {NoSource}
  BY DEF InitializeCurrentContext, Inv, TypeOK
<1>2. ASSUME NEW failure \in {"Access", "IO", "Syntax"}, Fail(failure)
      PROVE  Inv'
  BY <1>1, <1>2, FailingPreserves DEF Failures
<1>3. ASSUME NEW context \in ReadAhead(Top),
             contextStack' = ReplaceTop([context EXCEPT !.initialized = TRUE]),
             sourceOpen' = [sourceOpen EXCEPT ![Top.source] = TRUE],
             Record(context),
             UNCHANGED result
      PROVE  Inv'
  <2> DEFINE next == [context EXCEPT !.initialized = TRUE]
             new == ReplaceTop(next)
             yielded == Yielded(documents[Top.source], context.ahead)
             record == [documents EXCEPT ![Top.source] = yielded]
  <2>1. /\ next \in Contexts
        /\ next.source = Top.source /\ next.parent = Top.parent
        /\ next.level = Top.level /\ next.rank = Top.rank
        /\ next.initialized
        /\ next.read = context.read /\ next.ahead = context.ahead
        /\ next.signature = Top.signature
        /\ context.source = Top.source
        /\ Top \in Contexts
    BY <1>1, TopIsContext DEF Contexts
  <2>2. contextStack' = new /\ documents' = record
    BY <1>3, <2>1 DEF Record
  <2> HIDE DEF next
  <2>8. yielded \in Documents /\ Agrees(next, yielded)
    <3>1. /\ Waits(Top) /\ documents[Top.source] = Unread
          /\ documents[Top.source] \in Documents
      BY <1>1, TopAgrees
    <3>2. Top.ahead \notin SignatureTexts
      BY <3>1, TextsAssumption DEF Waits, Kinds
    <3> QED
      BY <1>3, <2>1, <3>1, <3>2, ReadingAheadAgrees
  <2> HIDE DEF yielded
  <2>3. /\ StackInv(new)
        /\ Reading(contextStack) \subseteq Reading(new)
        /\ Top.source \in Reading(new)
        /\ Recorded(new, record)
    <3>1. documents \in [Sources -> Documents] /\ Recorded(contextStack, documents)
      BY <1>1 DEF Inv, TypeOK
    <3> QED
      BY <1>1, <2>1, <2>8, <3>1, ReplacedTop DEF ReplaceTop, Inv, Top
  <2>9. record \in [Sources -> Documents]
    BY <2>8 DEF Inv, TypeOK
  <2> HIDE DEF new, record
  <2>4. TypeOK'
    BY <1>1, <1>3, <2>2, <2>3, <2>9 DEF Inv, TypeOK, StackInv, StackType
  <2>5. StackInv(contextStack)'
    BY <2>2, <2>3, NextStack
  <2>6. NoSourceLeaks'
    <3>1. \A s \in Sources : sourceOpen[s] => result = "parsing" /\ s \in Reading(contextStack)
      BY OpenIsReading DEF Inv
    <3>2. Reading(contextStack)' = Reading(new)
      BY <2>2 DEF Reading
    <3>3. \A s \in Sources : s # Top.source => sourceOpen'[s] = sourceOpen[s]
      BY <1>3 DEF Inv, TypeOK
    <3>4. \A s \in Sources : sourceOpen'[s] => result' = "parsing" /\ s \in Reading(contextStack)'
      BY <1>1, <1>3, <2>3, <3>1, <3>2, <3>3
    <3> QED
      BY <3>4 DEF NoSourceLeaks, Reading
  <2>7. SignatureIsVerified'
    BY <1>1, StaysVerified
  <2>10. Recorded(contextStack, documents)'
    BY <2>2, <2>3, NextRecord
  <2> QED
    BY <2>4, <2>5, <2>6, <2>7, <2>10 DEF Inv
<1> QED
  BY <1>2, <1>3 DEF InitializeCurrentContext

LEMMA NextAssignmentFailsPreserves ==
  ASSUME Inv, NextAssignmentFails
  PROVE  Inv'
BY FailingPreserves DEF NextAssignmentFails, Failures, Inv, TypeOK

\* The context of the top after reading ahead, with nothing else changed.
LEMMA ReadingAheadPreserves ==
  ASSUME Inv, HasNext, NEW context \in ReadAhead(Top), Continue(context),
         Top.ahead \in Kinds,
         UNCHANGED <<settings, left>>,
         lastSection' \in Sources \cup {NoSource}
  PROVE  Inv'
<1>1. Top.ahead \notin SignatureTexts
  BY TextsAssumption
<1>2. /\ Yielded(documents[context.source], context.ahead) \in Documents
      /\ Agrees(context, Yielded(documents[context.source], context.ahead))
  BY <1>1, TopReadsAhead
<1> QED
  BY <1>2, TopIsContext, ContinuingPreserves DEF HasNext

LEMMA ProcessSectionPreserves ==
  ASSUME Inv, ProcessSection
  PROVE  Inv'
<1>1. HasNext /\ Top.ahead \in Kinds /\ UNCHANGED <<settings, left>>
  BY DEF ProcessSection, Kinds
<1>2. Top.source \in Sources /\ lastSection \in Sources \cup {NoSource}
  BY <1>1, TopIsContext DEF HasNext, Contexts, Inv, TypeOK
<1>3. ASSUME NEW context \in ReadAhead(Top), Continue(context), lastSection' = Top.source
      PROVE  Inv'
  BY <1>1, <1>2, <1>3, ReadingAheadPreserves
<1>4. ASSUME Fail("NameConflict"), UNCHANGED lastSection
      PROVE  Inv'
  BY <1>1, <1>2, <1>4, FailingPreserves DEF Failures
<1> QED
  BY <1>3, <1>4 DEF ProcessSection

LEMMA ProcessValuePreserves ==
  ASSUME Inv, ProcessValue
  PROVE  Inv'
<1>1. /\ HasNext /\ Top.ahead \in Kinds /\ UNCHANGED <<settings, left>>
      /\ lastSection' \in Sources \cup {NoSource}
  BY DEF ProcessValue, Inv, TypeOK, Kinds
<1>2. ASSUME NEW context \in ReadAhead(Top), Continue(context)
      PROVE  Inv'
  BY <1>1, <1>2, ReadingAheadPreserves
<1>3. ASSUME NEW failure \in {"Syntax", "NameConflict"}, Fail(failure)
      PROVE  Inv'
  BY <1>1, <1>3, FailingPreserves DEF Failures
<1> QED
  BY <1>2, <1>3 DEF ProcessValue

\* The signature is set in the context on top.
LEMMA SignatureOfTop ==
  ASSUME NEW stack \in Seq(Contexts), stack # <<>>,
         NEW context \in Contexts, NEW text \in SignatureTexts
  PROVE  WithSignature(Append(Front(stack), context), text) =
           Append(Front(stack), [context EXCEPT !.signature = text])
<1> DEFINE n == Len(stack)
           next == [context EXCEPT !.signature = text]
           one == Append(Front(stack), context)
           other == Append(Front(stack), next)
<1>1. next \in Contexts
  BY DEF Contexts
<1> HIDE DEF next
<1>2. /\ n \in Nat \ {0}
      /\ one \in Seq(Contexts) /\ Len(one) = n /\ one[n] = context
      /\ other \in Seq(Contexts) /\ Len(other) = n /\ other[n] = next
      /\ \A i \in 1 .. n - 1 : one[i] = stack[i] /\ other[i] = stack[i]
  BY <1>1, OtherTop
<1> HIDE DEF one, other
<1>3. /\ one = [i \in 1 .. n |-> one[i]]
      /\ other = [i \in 1 .. n |-> other[i]]
  BY <1>2
<1>4. WithSignature(one, text) = [one EXCEPT ![n] = next]
  BY <1>2 DEF WithSignature, next
<1>5. \A i \in 1 .. n : [one EXCEPT ![n] = next][i] = other[i]
  <2>1. \A i \in 1 .. n : i = n \/ i \in 1 .. n - 1
    BY <1>2
  <2>2. n \in 1 .. n /\ DOMAIN one = 1 .. n
    BY <1>2, <1>3
  <2> QED
    BY <1>2, <2>1, <2>2
<1>6. [one EXCEPT ![n] = next] = [i \in 1 .. n |-> [one EXCEPT ![n] = next][i]]
  BY <1>3
<1> QED
  BY <1>3, <1>4, <1>5, <1>6 DEF one, other, next

LEMMA ProcessSignaturePreserves ==
  ASSUME Inv, ProcessSignature
  PROVE  Inv'
<1>1. /\ HasNext /\ UNCHANGED <<settings, sourceOpen, result, left>>
      /\ lastSection' \in Sources \cup {NoSource}
      /\ result = "parsing" /\ contextStack # <<>>
      /\ Top.ahead \in SignatureTexts
  BY DEF ProcessSignature, HasNext, Inv, TypeOK
<1>2. PICK context \in ReadAhead(Top) :
        /\ contextStack' = WithSignature(ReplaceTop(context), Top.ahead)
        /\ Record(context)
  BY DEF ProcessSignature
<1> DEFINE next == [context EXCEPT !.signature = Top.ahead]
<1>3. /\ context \in Contexts
      /\ next \in Contexts
      /\ next.source = Top.source /\ next.parent = Top.parent
      /\ next.level = Top.level /\ next.rank = Top.rank
      /\ next.initialized = Top.initialized
      /\ next.read = context.read /\ next.ahead = context.ahead
      /\ next.signature = Top.ahead
      /\ context.source = Top.source
      /\ Top \in Contexts
  BY <1>1, TopIsContext DEF Contexts
<1>4. contextStack' = ReplaceTop(next)
  <2>1. contextStack \in Seq(Contexts)
    BY DEF Inv, TypeOK
  <2> QED
    BY <1>1, <1>2, <1>3, <2>1, SignatureOfTop DEF ReplaceTop
<1> HIDE DEF next
<1>5. Continue(next)
  BY <1>1, <1>2, <1>3, <1>4 DEF Continue, Record
<1>6. /\ Yielded(documents[next.source], next.ahead) \in Documents
      /\ Agrees(next, Yielded(documents[next.source], next.ahead))
  <2>1. /\ documents[Top.source] \in Documents
        /\ Agrees(Top, documents[Top.source])
        /\ Top.ahead # "none" /\ Top.initialized
    BY <1>1, TopAgrees DEF HasNext
  <2> QED
    BY <1>1, <1>3, <2>1, ReadingAheadAgrees
<1> QED
  BY <1>1, <1>3, <1>5, <1>6, ContinuingPreserves

LEMMA ProcessEndPreserves ==
  ASSUME Inv, ProcessEnd
  PROVE  Inv'
BY ReadingAheadPreserves DEF ProcessEnd, Inv, TypeOK, Kinds

LEMMA ProcessIncludePreserves ==
  ASSUME Inv, ProcessInclude
  PROVE  Inv'
<1> DEFINE level == Top.level + 1
<1>1. /\ HasNext /\ Top.ahead \in Kinds /\ UNCHANGED <<settings, left>>
      /\ lastSection' \in Sources \cup {NoSource}
      /\ result = "parsing" /\ contextStack # <<>> /\ Top.initialized
  BY DEF ProcessInclude, HasNext, Inv, TypeOK, Kinds
<1>2. ASSUME NEW failure \in {"LimitExceeded", "Unsupported", "IO", "Syntax"}, Fail(failure)
      PROVE  Inv'
  BY <1>1, <1>2, FailingPreserves DEF Failures
<1>3. ASSUME ~NestedTooDeep(level), NEW list \in IncludeLists, NEW context \in ReadAhead(Top),
             AddSourceContexts(list, ReplaceTop(context), level),
             Record(context)
      PROVE  Inv'
  <2> DEFINE stack == ReplaceTop(context)
             yielded == Yielded(documents[context.source], context.ahead)
             record == [documents EXCEPT ![context.source] = yielded]
  <2>1. /\ context \in Contexts
        /\ context.source = Top.source /\ context.parent = Top.parent
        /\ context.level = Top.level /\ context.rank = Top.rank
        /\ context.initialized
        /\ Top = Last(contextStack)
    BY <1>1, TopIsContext
  <2>2. /\ StackInv(stack)
        /\ stack # <<>>
        /\ Last(stack) = context
        /\ OnStack(stack) = OnStack(contextStack)
        /\ Reading(contextStack) \subseteq Reading(stack)
        /\ Recorded(stack, record)
        /\ record \in [Sources -> Documents]
    <3>1. yielded \in Documents /\ Agrees(context, yielded)
      BY <1>1, TextsAssumption, TopReadsAhead
    <3>2. documents \in [Sources -> Documents] /\ Recorded(contextStack, documents)
      BY <1>1 DEF Inv, TypeOK
    <3>3. record \in [Sources -> Documents]
      BY <3>1, <3>2
    <3> HIDE DEF yielded
    <3> QED
      BY <1>1, <2>1, <3>1, <3>2, <3>3, ReplacedTop DEF ReplaceTop, Inv
  <2>8. documents' = record
    BY <1>3 DEF Record
  <2>3. list \in Seq(Sources)
    BY ListsAssumption
  <2>4. Last(stack).level + 1 = level /\ level < MaxNesting
    <3>1. level \in Nat
      BY <1>1, TopIsContext DEF Contexts
    <3> QED
      BY <1>3, <2>1, <2>2, <3>1, NestingAssumption DEF NestedTooDeep
  <2>5. AddSourceContexts(list, stack, level)
    BY <1>3
  <2> HIDE DEF stack, level, record
  <2>6. CASE Refused(list, stack) = {}
    <3> DEFINE new == Pushed(list, 1, stack, level)
    <3>1. contextStack' = new /\ UNCHANGED <<sourceOpen, result>>
      BY <2>5, <2>6 DEF AddSourceContexts
    <3>2. 1 \in 1 .. Len(list) + 1
      BY <2>3
    <3>3. /\ StackInv(new)
          /\ Reading(stack) \subseteq Reading(new)
          /\ Recorded(new, record)
      BY <2>1, <2>2, <2>3, <2>4, <2>6, <3>2, PushedContexts
    <3> HIDE DEF new
    <3>4. TypeOK'
      BY <1>1, <2>2, <2>8, <3>1, <3>3 DEF Inv, TypeOK, StackInv, StackType
    <3>5. StackInv(contextStack)'
      BY <3>1, <3>3, NextStack
    <3>6. NoSourceLeaks'
      <4>1. \A s \in Sources : sourceOpen[s] => result = "parsing" /\ s \in Reading(contextStack)
        BY OpenIsReading DEF Inv
      <4>2. Reading(contextStack)' = Reading(new)
        BY <3>1 DEF Reading
      <4> QED
        BY <2>2, <3>1, <3>3, <4>1, <4>2 DEF NoSourceLeaks, Reading
    <3>7. SignatureIsVerified'
      BY <1>1, StaysVerified
    <3>8. Recorded(contextStack, documents)'
      BY <2>8, <3>1, <3>3, NextRecord
    <3> QED
      BY <3>4, <3>5, <3>6, <3>7, <3>8 DEF Inv
  <2>7. CASE Refused(list, stack) # {}
    <3> DEFINE first == Max(Refused(list, stack)) + 1
               new == Pushed(list, first, stack, level)
    <3>1. Len(list) \in Nat /\ Refused(list, stack) \in SUBSET (1 .. Len(list))
      BY <2>3 DEF Refused
    <3>2. /\ Max(Refused(list, stack)) \in 1 .. Len(list)
          /\ \A i \in Refused(list, stack) : i <= Max(Refused(list, stack))
      BY <2>7, <3>1, GreatestIndex
    <3>3. /\ first \in 1 .. Len(list) + 1
          /\ \A i \in first .. Len(list) : i \notin Refused(list, stack)
      BY <3>1, <3>2
    <3>4. FailWith("loop", new)
      BY <2>5, <2>7 DEF AddSourceContexts
    <3> HIDE DEF first
    <3>5. StackInv(new) /\ OnStack(stack) \subseteq OnStack(new)
      BY <2>1, <2>2, <2>3, <2>4, <3>3, PushedContexts
    <3> HIDE DEF new
    <3>6. "loop" \in Failures
      BY DEF Failures
    <3> QED
      BY <1>1, <2>2, <2>8, <3>4, <3>5, <3>6, FailurePreserves
  <2> QED
    BY <2>6, <2>7
<1> QED
  BY <1>2, <1>3 DEF ProcessInclude

\* What the validator was called with is what is recorded of the document.
LEMMA LeavingIsVerified ==
  ASSUME Inv, result = "parsing", contextStack # <<>>, Top.initialized, Top.ahead = "none",
         MayAccept, UNCHANGED settings,
         left' = {[source |-> Top.source, document |-> documents[Top.source],
                   accepted |-> IF settings.validator THEN {SignatureData} ELSE {}]}
  PROVE  /\ SignatureIsVerified'
         /\ left' \subseteq [source : Sources, document : Documents,
                             accepted : SUBSET ValidatorData]
<1> DEFINE document == documents[Top.source]
           accepted == IF settings.validator THEN {SignatureData} ELSE {}
<1>1. /\ Top \in Contexts
      /\ Top.source \in Sources
      /\ document \in Documents
      /\ Agrees(Top, document)
  BY TopIsContext, TopAgrees
<1>2. "none" \notin SignatureTexts
  BY TextsAssumption DEF Kinds
<1>3. /\ document.isComplete
      /\ document.read = Top.read
      /\ document.signature = Top.signature
  BY <1>1, <1>2 DEF Agrees
<1>4. SignatureData = [source |-> Top.source, signature |-> document.signature,
                       digest |-> <<Top.source, document.read>>]
  BY <1>3 DEF SignatureData
<1>5. settings.validator \/ document.signature = NoText
  BY <1>3 DEF MayAccept
<1>6. SignatureData \in ValidatorData
  <2>1. Top.source \in Sources /\ Top.signature \in SignatureTexts \cup {NoText}
        /\ Top.read \in Nat
    BY <1>1 DEF Contexts
  <2> QED
    BY <2>1 DEF SignatureData, ValidatorData
<1> HIDE DEF document
<1>7. SignatureIsVerified'
  BY <1>3, <1>4, <1>5 DEF SignatureIsVerified, document
<1>8. accepted \in SUBSET ValidatorData
  BY <1>6
<1> HIDE DEF accepted
<1>9. left' = {[source |-> Top.source, document |-> document, accepted |-> accepted]}
  BY DEF document, accepted
<1> DEFINE record == [source |-> Top.source, document |-> document,
                       accepted |-> accepted]
<1>10. record \in [source : Sources, document : Documents,
                    accepted : SUBSET ValidatorData]
  BY <1>1, <1>8
<1> HIDE DEF record
<1>11. left' = {record}
  BY <1>9 DEF record
<1> QED
  BY <1>7, <1>10, <1>11

LEMMA LeaveContextPreserves ==
  ASSUME Inv, LeaveContext
  PROVE  Inv'
<1>1. /\ result = "parsing" /\ contextStack # <<>>
      /\ Top.initialized /\ Top.ahead = "none"
      /\ UNCHANGED <<settings, lastSection>>
      /\ lastSection' \in Sources \cup {NoSource}
  BY DEF LeaveContext, Inv, TypeOK
<1>2. ASSUME Fail("Signature"), UNCHANGED left
      PROVE  Inv'
  BY <1>1, <1>2, FailingPreserves DEF Failures
<1>3. ASSUME MayAccept,
             contextStack' = Front(contextStack),
             sourceOpen' = [sourceOpen EXCEPT ![Top.source] = FALSE],
             result' = IF Len(contextStack) = 1 THEN "done" ELSE result,
             documents' = [documents EXCEPT ![Top.source] = Unread],
             left' = {[source |-> Top.source, document |-> documents[Top.source],
                       accepted |-> IF settings.validator THEN {SignatureData} ELSE {}]}
      PROVE  Inv'
  <2> DEFINE new == Front(contextStack)
             record == [documents EXCEPT ![Top.source] = Unread]
  <2>1. /\ StackInv(new)
        /\ Reading(contextStack) \ {Top.source} \subseteq Reading(new)
        /\ Len(contextStack) = 1 => Reading(new) = {} /\ new = <<>>
        /\ Recorded(new, record)
    <3>1. documents \in [Sources -> Documents] /\ Recorded(contextStack, documents)
      BY <1>1 DEF Inv, TypeOK
    <3> QED
      BY <1>1, <3>1, LeftContext DEF Inv, Top
  <2>2. contextStack' = new /\ documents' = record
    BY <1>3
  <2>8. record \in [Sources -> Documents]
    BY DEF Inv, TypeOK, Unread, Documents
  <2> HIDE DEF new, record
  <2>7. /\ SignatureIsVerified'
        /\ left' \subseteq [source : Sources, document : Documents,
                            accepted : SUBSET ValidatorData]
    BY <1>1, <1>3, LeavingIsVerified
  <2>4. TypeOK'
    <3>1. sourceOpen' \in [Sources -> BOOLEAN]
      BY <1>3 DEF Inv, TypeOK
    <3>2. result' \in {"parsing", "done"}
      BY <1>1, <1>3
    <3> QED
      BY <1>1, <2>1, <2>2, <2>7, <2>8, <3>1, <3>2 DEF Inv, TypeOK, StackInv, StackType
  <2>5. StackInv(contextStack)'
    BY <2>1, <2>2, NextStack
  <2>6. NoSourceLeaks'
    <3>1. \A s \in Sources : sourceOpen[s] => result = "parsing" /\ s \in Reading(contextStack)
      BY OpenIsReading DEF Inv
    <3>2. Reading(contextStack)' = Reading(new)
      BY <2>2 DEF Reading
    <3>3. \A s \in Sources : sourceOpen'[s] => s # Top.source /\ sourceOpen[s]
      BY <1>3 DEF Inv, TypeOK
    <3>4. \A s \in Sources : sourceOpen'[s] => s \in Reading(new)
      BY <2>1, <3>1, <3>3
    <3>5. \A s \in Sources : sourceOpen'[s] => result' = "parsing"
      BY <1>1, <1>3, <2>1, <3>4
    <3> QED
      BY <3>2, <3>4, <3>5 DEF NoSourceLeaks, Reading
  <2>9. Recorded(contextStack, documents)'
    BY <2>1, <2>2, NextRecord
  <2> QED
    BY <2>4, <2>5, <2>6, <2>7, <2>9 DEF Inv
<1> QED
  BY <1>2, <1>3 DEF LeaveContext

LEMMA NextPreserves ==
  ASSUME Inv, [Next]_vars
  PROVE  Inv'
<1>1. CASE UNCHANGED vars
  <2>1. StackInv(contextStack)'
    BY <1>1, NextStack DEF vars, Inv
  <2>2. result' = "parsing" => Recorded(contextStack, documents)'
    BY <1>1, NextRecord DEF vars, history, Inv
  <2>3. TypeOK' /\ NoSourceLeaks'
    BY <1>1 DEF vars, history, Inv, TypeOK, NoSourceLeaks
  <2>4. SignatureIsVerified'
    BY <1>1, StaysVerified DEF vars, history
  <2> QED
    BY <2>1, <2>2, <2>3, <2>4 DEF Inv
<1> QED
  BY <1>1, InitializeCurrentContextPreserves, NextAssignmentFailsPreserves,
     ProcessSectionPreserves, ProcessValuePreserves, ProcessSignaturePreserves,
     ProcessEndPreserves, ProcessIncludePreserves, LeaveContextPreserves DEF Next

\* The invariant holds in all behaviours.
THEOREM InvIsInvariant == Spec => []Inv
  BY InitEstablishes, NextPreserves, PTL DEF Spec

\* The documents that are open around a document are as many as its include
\* level says, which is below the limit, whatever waits between them.
THEOREM NestingStaysBounded == Spec => []NestingIsBounded
<1>1. Inv => NestingIsBounded
  BY StackProperties DEF Inv, StackInv
<1> QED
  BY <1>1, InvIsInvariant, PTL

\* Whatever lists the resolver returns, no two contexts read one source.
THEOREM NoSourceTwice == Spec => []SourcesAreUnique
<1>1. Inv => SourcesAreUnique
  BY StackProperties DEF Inv, StackInv
<1> QED
  BY <1>1, InvIsInvariant, PTL

\* The documents of an include are read in the order of the resolver.
THEOREM OrderOfIncludes == Spec => []IncludesInOrder
<1>1. Inv => IncludesInOrder
  BY StackProperties DEF Inv, StackInv
<1> QED
  BY <1>1, InvIsInvariant, PTL

\* However a parse ends, it leaves no source open.
THEOREM EverySourceIsClosed == Spec => []NoSourceLeaks
<1>1. Inv => NoSourceLeaks
  BY DEF Inv
<1> QED
  BY <1>1, InvIsInvariant, PTL

\* Whatever is included by whatever document, the validator accepts every document
\* that is left with the signature that stands in it and the digest of all of it,
\* and without a validator no document with a signature is left.
THEOREM SignaturesAreVerified == Spec => []SignatureIsVerified
<1>1. Inv => SignatureIsVerified
  BY DEF Inv
<1> QED
  BY <1>1, InvIsInvariant, PTL
=============================================================================
