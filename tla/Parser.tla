-------------------------------- MODULE Parser --------------------------------
(***************************************************************************)
(* impl/parser/Parser.hpp and ParserContext.hpp: one parse of a document   *)
(* with its included documents.                                            *)
(*                                                                         *)
(* The parser keeps a stack with one context for each source that is being *)
(* read or that waits to be read.  An @include puts the contexts of the    *)
(* included sources on top of the stack.  Every loop iteration works with  *)
(* the top context: it is initialized (access check, open, first           *)
(* assignment), or its next assignment is processed, or it is left.        *)
(*                                                                         *)
(* The documents are not fixed: an assignment stream yields any sequence   *)
(* of at most MaxAssignments assignments that the code can yield, and may  *)
(* fail at any time.  The same holds for the answers of the callbacks.  A  *)
(* signature with an empty text counts as none.  The digest of a document  *)
(* is what was read of it.                                                 *)
(* The document builder is reduced to the section that takes values        *)
(* without a section path; see DocumentBuilder for the rest.               *)
(***************************************************************************)
EXTENDS Naturals, FiniteSets, SequencesExt

CONSTANTS
  Sources,        \* the sources, by their identifiers
  RootSource,     \* the source that is parsed
  NoSource,       \* not a source
  IncludeLists,   \* the lists of sources a resolver may return
  SignatureTexts, \* the texts of signatures, none is empty
  NoText,         \* the empty text
  MaxNesting,     \* limits::maxDocumentNesting
  MaxAssignments  \* bound on the assignments of one document

ASSUME SourcesAssumption == RootSource \in Sources /\ NoSource \notin Sources
ASSUME ListsAssumption == IncludeLists \subseteq Seq(Sources)
Kinds == {"section", "value", "looseValue", "include", "end", "none"}
ASSUME TextsAssumption ==
  /\ SignatureTexts \cap Kinds = {}
  /\ NoText \notin SignatureTexts
ASSUME NestingAssumption == MaxNesting \in Nat \ {0}
ASSUME AssignmentsAssumption == MaxAssignments \in Nat

VARIABLES
  settings,      \* which callbacks of ParserSettings are set
  contextStack,  \* _contextStack, the top is the last element
  sourceOpen,    \* the sources that are open
  lastSection,   \* the source that defined the last section of the builder
  result,        \* "parsing", "done" or why the parse failed
  documents,     \* history: what the stream of each source yielded so far
  left           \* history: the last document that was left, and what the
                 \* validator accepted for it

history == <<documents, left>>
vars == <<settings, contextStack, sourceOpen, lastSection, result, history>>

\* A signature is told from the others by its text.
Assignments == Kinds \cup SignatureTexts
Failures == {"Access", "IO", "Syntax", "NameConflict", "LimitExceeded",
             "Unsupported", "Signature", "loop"}

Contexts == [source : Sources, parent : Sources \cup {NoSource}, level : Nat,
             rank : Nat,  \* history: the place in the list of its include
             initialized : BOOLEAN, ahead : Assignments, read : Nat,
             inSection : BOOLEAN, signature : SignatureTexts \cup {NoText}]

Documents == [signature : SignatureTexts \cup {NoText}, read : Nat,
              isComplete : BOOLEAN]

\* SignatureValidatorData
ValidatorData == [source : Sources, signature : SignatureTexts \cup {NoText},
                  digest : Sources \X Nat]

TypeOK ==
  /\ settings \in [resolver : BOOLEAN, accessCheck : BOOLEAN, validator : BOOLEAN]
  /\ contextStack \in Seq(Contexts)
  /\ sourceOpen \in [Sources -> BOOLEAN]
  /\ lastSection \in Sources \cup {NoSource}
  /\ result \in {"parsing", "done"} \cup Failures
  /\ documents \in [Sources -> Documents]
  /\ left \subseteq [source : Sources, document : Documents,
                     accepted : SUBSET ValidatorData]

-----------------------------------------------------------------------------

\* The constructor of ParserContext
NewContext(source, parent, level, rank) ==
  [source |-> source, parent |-> parent, level |-> level, rank |-> rank,
   initialized |-> FALSE, ahead |-> "none", read |-> 0, inSection |-> FALSE,
   signature |-> NoText]

Unread == [signature |-> NoText, read |-> 0, isComplete |-> FALSE]

\* The source may have been opened by the caller.
Init ==
  /\ settings \in [resolver : BOOLEAN, accessCheck : BOOLEAN, validator : BOOLEAN]
  /\ contextStack = <<NewContext(RootSource, NoSource, 0, 1)>>
  /\ \E preopened \in BOOLEAN :
       sourceOpen = [s \in Sources |-> s = RootSource /\ preopened]
  /\ lastSection = NoSource
  /\ result = "parsing"
  /\ documents = [s \in Sources |-> Unread]
  /\ left = {}

Top == Last(contextStack)
ReplaceTop(context) == Append(Front(contextStack), context)
OnStack(stack) == {stack[i].source : i \in DOMAIN stack}

\* Mutant: only the document that failed is closed.
FailClosingTop(failure, stack) ==
  /\ result' = failure
  /\ contextStack' = stack
  /\ sourceOpen' = [sourceOpen EXCEPT ![Last(stack).source] = FALSE]

\* catch (const Error&) of Parser::parse: all contexts are closed.
FailWith(failure, stack) ==
  /\ result' = failure
  /\ contextStack' = stack
  /\ sourceOpen' = [s \in Sources |-> sourceOpen[s] /\ s \notin OnStack(stack)]

Fail(failure) == FailWith(failure, contextStack) /\ UNCHANGED documents

\* What the assignment stream of a context can yield next.  A value outside of
\* a section has a path with only its name.
Offers(context) ==
  IF context.read = MaxAssignments THEN {"end"}
  ELSE {"section", "include", "end"}
       \cup {IF context.inSection THEN "value" ELSE "looseValue"}
       \cup (IF context.read = 0 THEN SignatureTexts ELSE {})

\* The section path of the stream: set by a section, reset by an include.
InSectionAfter(assignment, context) ==
  CASE assignment = "section" -> TRUE
    [] assignment = "include" -> FALSE
    [] OTHER -> context.inSection

\* Mutant: the end of the document is yielded again and again.
ReadAheadForever(context) ==
  IF context.ahead = "end" THEN {context}
  ELSE {[context EXCEPT !.ahead = assignment,
                        !.read = @ + 1,
                        !.inSection = InSectionAfter(assignment, context)]
          : assignment \in Offers(context)}

\* Advancing the iterator of a context runs the assignment stream up to its
\* next assignment; behind the end of the document there is none.
ReadAhead(context) ==
  IF context.ahead = "end"
  THEN {[context EXCEPT !.ahead = "none"]}
  ELSE {[context EXCEPT !.ahead = assignment,
                        !.read = @ + 1,
                        !.inSection = InSectionAfter(assignment, context)]
          : assignment \in Offers(context)}

\* What a stream has yielded with one assignment more; nothing is behind the end.
Yielded(document, assignment) ==
  IF document.isComplete THEN document
  ELSE [signature |-> IF assignment \in SignatureTexts THEN assignment
                      ELSE document.signature,
        read |-> document.read + 1,
        isComplete |-> assignment = "end"]

\* A context has read one assignment more of its source.
Record(context) ==
  documents' = [documents EXCEPT ![context.source] = Yielded(@, context.ahead)]

-----------------------------------------------------------------------------

\* Parser::initializeCurrentContext and ParserContext::initialize
InitializeCurrentContext ==
  /\ result = "parsing"
  /\ contextStack # <<>>
  /\ ~Top.initialized
  /\ \/ /\ settings.accessCheck
        /\ Fail("Access")
     \/ \E failure \in {"IO", "Syntax"} : Fail(failure)
     \/ \E context \in ReadAhead(Top) :
          /\ contextStack' = ReplaceTop([context EXCEPT !.initialized = TRUE])
          /\ sourceOpen' = [sourceOpen EXCEPT ![Top.source] = TRUE]
          /\ Record(context)
          /\ UNCHANGED result
  /\ UNCHANGED <<settings, lastSection, left>>

\* The iterator of the top context is not at its end.
HasNext ==
  /\ result = "parsing"
  /\ contextStack # <<>>
  /\ Top.initialized
  /\ Top.ahead # "none"

\* Parser::nextAssignment reads one assignment ahead before the current one is
\* processed: an error behind the current assignment is thrown first.
NextAssignmentFails ==
  /\ HasNext
  /\ Top.ahead # "end"
  /\ \E failure \in {"IO", "Syntax"} : Fail(failure)
  /\ UNCHANGED <<settings, lastSection, left>>

Continue(context) ==
  /\ contextStack' = ReplaceTop(context)
  /\ Record(context)
  /\ UNCHANGED <<sourceOpen, result>>

\* Parser::processAssignment for a section: the builder makes it the last
\* section unless there is a conflict.
ProcessSection ==
  /\ HasNext
  /\ Top.ahead = "section"
  /\ \E context \in ReadAhead(Top) :
       \/ Continue(context) /\ lastSection' = Top.source
       \/ Fail("NameConflict") /\ UNCHANGED lastSection
  /\ UNCHANGED <<settings, left>>

\* A value with a section path goes to the section with this path.  A value
\* with only a name goes to the last section of the builder, and it is an error
\* if there is none.
ProcessValue ==
  /\ HasNext
  /\ Top.ahead \in {"value", "looseValue"}
  /\ \E context \in ReadAhead(Top) :
       \/ /\ Top.ahead = "looseValue" => lastSection # NoSource
          /\ Continue(context)
       \/ /\ Top.ahead = "looseValue" /\ lastSection = NoSource
          /\ Fail("Syntax")
       \/ Fail("NameConflict")
  /\ UNCHANGED <<settings, lastSection, left>>

\* Mutant: one text for the whole parse instead of one for each context.
SignatureForAll(stack, text) ==
  [i \in DOMAIN stack |-> [stack[i] EXCEPT !.signature = text]]

\* ParserContext::setSignatureText of the current context
WithSignature(stack, text) ==
  [stack EXCEPT ![Len(stack)].signature = text]

\* Parser::processMetaValue for a signature
ProcessSignature ==
  /\ HasNext
  /\ Top.ahead \in SignatureTexts
  /\ \E context \in ReadAhead(Top) :
       /\ contextStack' = WithSignature(ReplaceTop(context), Top.ahead)
       /\ Record(context)
  /\ UNCHANGED <<settings, sourceOpen, lastSection, result, left>>

\* The end-of-document assignment is ignored.
ProcessEnd ==
  /\ HasNext
  /\ Top.ahead = "end"
  /\ \E context \in ReadAhead(Top) : Continue(context)
  /\ UNCHANGED <<settings, lastSection, left>>

\* Mutant: the first source of the list is pushed first.
PushedForward(list, first, stack, level) ==
  stack \o [i \in 1 .. Len(list) - first + 1 |->
              LET rank == first + i - 1 IN
              NewContext(list[rank], Last(stack).source, level, rank)]

\* Parser::addSourceContext for the sources of a list from the last one down to
\* the one at first.
Pushed(list, first, stack, level) ==
  stack \o [i \in 1 .. Len(list) - first + 1 |->
              LET rank == Len(list) - i + 1 IN
              NewContext(list[rank], Last(stack).source, level, rank)]

\* Mutant: a list is only compared with the stack as it was before.
RefusedOnStack(list, stack) == {i \in DOMAIN list : list[i] \in OnStack(stack)}

\* A source with the identifier of any context on the stack is refused, also if
\* that one only waits to be read.
Refused(list, stack) ==
  {i \in DOMAIN list :
     \/ list[i] \in OnStack(stack)
     \/ \E j \in i + 1 .. Len(list) : list[j] = list[i]}

AddSourceContexts(list, stack, level) ==
  IF Refused(list, stack) = {}
  THEN /\ contextStack' = Pushed(list, 1, stack, level)
       /\ UNCHANGED <<sourceOpen, result>>
  ELSE FailWith("loop", Pushed(list, Max(Refused(list, stack)) + 1, stack, level))

\* Mutant: the limit is off by one.
NestedOneTooDeep(includeLevel) == includeLevel > MaxNesting

NestedTooDeep(includeLevel) == includeLevel >= MaxNesting

\* Parser::processMetaValue for an include
ProcessInclude ==
  /\ HasNext
  /\ Top.ahead = "include"
  /\ LET includeLevel == Top.level + 1 IN
       IF NestedTooDeep(includeLevel) THEN Fail("LimitExceeded")
       ELSE IF ~settings.resolver THEN Fail("Unsupported")
       ELSE \/ \E failure \in {"IO", "Syntax"} : Fail(failure)
            \/ \E list \in IncludeLists, context \in ReadAhead(Top) :
                 /\ AddSourceContexts(list, ReplaceTop(context), includeLevel)
                 /\ Record(context)
  /\ UNCHANGED <<settings, lastSection, left>>

\* Parser::preLeaveProcessing: the validator may refuse any document; without
\* one, a signature is refused.
MayReject == settings.validator \/ Top.signature # NoText
MayAccept == settings.validator \/ Top.signature = NoText

\* What the validator is called with: the signature of the current context and
\* the digest of its lexer.
SignatureData ==
  [source |-> Top.source, signature |-> Top.signature,
   digest |-> <<Top.source, Top.read>>]

\* Parser::preLeaveProcessing and Parser::leaveContext, and the return of the
\* document when the stack is empty.
LeaveContext ==
  /\ result = "parsing"
  /\ contextStack # <<>>
  /\ Top.initialized
  /\ Top.ahead = "none"
  /\ \/ /\ MayReject
        /\ Fail("Signature")
        /\ UNCHANGED left
     \/ /\ MayAccept
        /\ contextStack' = Front(contextStack)
        /\ sourceOpen' = [sourceOpen EXCEPT ![Top.source] = FALSE]
        /\ result' = IF Len(contextStack) = 1 THEN "done" ELSE result
        /\ documents' = [documents EXCEPT ![Top.source] = Unread]
        /\ left' = {[source |-> Top.source, document |-> documents[Top.source],
                     accepted |-> IF settings.validator THEN {SignatureData} ELSE {}]}
  /\ UNCHANGED <<settings, lastSection>>

Next ==
  \/ InitializeCurrentContext
  \/ NextAssignmentFails
  \/ ProcessSection
  \/ ProcessValue
  \/ ProcessSignature
  \/ ProcessEnd
  \/ ProcessInclude
  \/ LeaveContext

\* The parse loop is sequential code: it goes on until it returns or throws.
Fairness == WF_vars(Next)

Spec == Init /\ [][Next]_vars /\ Fairness

-----------------------------------------------------------------------------
\* Properties

\* The indexes of the contexts below a context that are being read.
ReadBelow(i) == {j \in 1 .. i - 1 : contextStack[j].initialized}

\* At no time are more than maxDocumentNesting documents nested: the include
\* level of a context is the number of documents that are really open around it,
\* and its parent is the innermost of them.  Contexts that wait for their turn in
\* between do not count.
NestingIsBounded ==
  \A i \in DOMAIN contextStack :
    /\ contextStack[i].level < MaxNesting
    /\ contextStack[i].level = Cardinality(ReadBelow(i))
    /\ contextStack[i].parent =
         IF ReadBelow(i) = {} THEN NoSource
         ELSE contextStack[Max(ReadBelow(i))].source

\* No source is on the stack twice: two contexts never read one source.
SourcesAreUnique ==
  \A i, j \in DOMAIN contextStack :
    contextStack[i].source = contextStack[j].source => i = j

\* A source is open only while its context is on the stack and being read,
\* except for a root that the caller opened.  However the parse ends, with
\* pending or half included contexts, it leaves no source open.
NoSourceLeaks ==
  \A s \in Sources : sourceOpen[s] =>
    /\ result = "parsing"
    /\ \E i \in DOMAIN contextStack :
         /\ contextStack[i].source = s
         /\ contextStack[i].initialized \/ i = 1

\* "The function is called for *every document*" (SignatureValidator.hpp): when a
\* document is left, it was read to its end, and the validator accepted it with
\* the signature that stands in it and the digest of all that it holds, however
\* many documents were included in between.  Without a validator no document
\* with a signature is left.
SignatureIsVerified ==
  \A d \in left :
    /\ d.document.isComplete
    /\ d.accepted =
         IF settings.validator
         THEN {[source |-> d.source, signature |-> d.document.signature,
                digest |-> <<d.source, d.document.read>>]}
         ELSE {}
    /\ settings.validator \/ d.document.signature = NoText

\* The documents of one include are read in the order of the resolver: one that
\* comes earlier in the list is on top of the later ones until it is left.
IncludesInOrder ==
  \A i, j \in DOMAIN contextStack :
    /\ i < j
    /\ contextStack[i].parent = contextStack[j].parent
    => contextStack[i].rank > contextStack[j].rank

\* Every parse comes to an end: the nesting limit and the loop detection bound
\* the documents that can be included.
ParseEnds == <>(result # "parsing")

\* AssignmentStream.hpp: the context is reset after an include, "so no value or
\* relative section is allowed after it".
LooseValueIsRejected ==
  [][ProcessValue /\ Top.ahead = "looseValue" => result' # "parsing"]_vars
=============================================================================
