--------------------------- MODULE AssignmentStream ---------------------------
(***************************************************************************)
(* impl/assignment/AssignmentStream on top of impl/lexer: the assignments  *)
(* of a document, with the absolute paths of their names.                  *)
(*                                                                         *)
(* Both are coroutines.  One step yields one assignment, or skips a token  *)
(* between them; on its way it takes as many tokens as it needs.  The      *)
(* lexer is always one token ahead: when it reaches its end or fails, it   *)
(* closes itself, while the stream still looks at the token before, and    *)
(* its error is thrown when the stream takes the next token.               *)
(*                                                                         *)
(* A document comes with its meaning, the assignments its author had in    *)
(* mind, unless it breaks a rule.                                          *)
(***************************************************************************)
EXTENDS Lexer

CONSTANTS
  Documents,         \* a sequence of records of a text, its meaning, and whether it
                     \* is wellFormed
  MaxNamePathLength  \* limits::maxNamePathLength

ASSUME MaxNamePathLengthAssumption == MaxNamePathLength \in Nat \ {0}

VARIABLES
  meaning,            \* the assignments that the document stands for
  wellFormed,         \* whether it follows the rules of the language
  tokens,             \* what the lexer offers, once the stream has started it
  current,            \* index of _token; 0 before initialize()
  readMetaVersion,    \* _readMetaVersion
  readMetaFeatures,   \* _readMetaFeatures
  inSection,          \* _documentArea is AfterSection
  lastAbsolutePath,   \* _lastAbsolutePath
  currentSectionPath, \* _currentSectionPath
  yielded,            \* the assignments that the stream yielded
  outcome             \* "running", "end", or what was thrown

vars == <<document, meaning, wellFormed, tokens, current, readMetaVersion, readMetaFeatures,
          inSection, lastAbsolutePath, currentSectionPath, yielded, outcome>>

-----------------------------------------------------------------------------
(* Tokens *)

Type(i) == tokens[i].type

\* A token that does not exist: the lexer has failed, or the stream did.
None == 0

Skipped == {"Spacing", "Comment"}

\* Mutant: comments are not skipped.
NextStopsAtComment(i) ==
  LET next == Min({j \in i + 1 .. Len(tokens) : Type(j) # "Spacing"}) IN
  IF Type(next) = "Failure" THEN None ELSE next

\* The token behind the i-th one that is neither spacing nor a comment.
NextToken(i) ==
  LET next == Min({j \in i + 1 .. Len(tokens) : Type(j) \notin Skipped}) IN
  IF i = None \/ Type(i) = "EndOfData" THEN i
  ELSE IF Type(next) = "Failure" THEN None
  ELSE next

\* The next token, if it has one of the types.
ExpectNext(i, types) ==
  LET next == NextToken(i) IN
  IF next = None THEN None ELSE IF Type(next) \in types THEN next ELSE None

\* The token behind the end of a line that is expected at i.
ConsumeEndOfLine(i) ==
  IF i = None THEN None
  ELSE IF Type(i) = "EndOfData" THEN i
  ELSE IF Type(i) = "LineBreak" THEN NextToken(i)
  ELSE None

\* Mutant: the lexer closes itself with the end-of-data token.
LexerClosesEarly(i) == i + 1 >= Len(tokens)

\* The lexer has computed the token behind the current one, and closed itself
\* if that is its error or if there is none.  Then it has no source anymore.
LexerIsClosed(i) == i = Len(tokens) \/ Type(i + 1) = "Failure"

-----------------------------------------------------------------------------
(* Values.  Every reader returns what it read and the token behind it, or  *)
(* the error that it throws.                                               *)

Read(content, next) == [content |-> content, next |-> next, error |-> "error"]
Unread == Read("", None)

\* The stream relies on the lexer for the order of the tokens.
Unexpected == [Unread EXCEPT !.error = "internal error"]

\* The next token, which is in the same line.
ExpectMoreInLine(i) ==
  LET next == NextToken(i) IN
  IF next = None \/ Type(next) \in {"LineBreak", "EndOfData"} THEN None ELSE next

SingleLineTypes ==
  {"Integer", "Float", "Boolean", "Text", "Code", "RegEx", "Date", "DateTime", "Time",
   "TimeDelta", "Bytes"}

ValueType(token) == IF token = "Code" THEN "Text" ELSE token

\* A time as it is read back from the value.
ReadTime(time) ==
  TimeOf(time.count, 10 ^ FractionDigits) \o <<OffsetOf(time.offset)>>

\* A value, as an application reads it.
ReadContent(token) ==
  CASE token.type = "Date" -> DateOf(token.content)
    [] token.type = "Time" -> ReadTime(token.content)
    [] token.type = "DateTime" -> <<DateOf(token.content[1]), ReadTime(token.content[2])>>
    [] OTHER -> token.content

ValueOf(i) == [type |-> ValueType(Type(i)), content |-> ReadContent(tokens[i])]

\* A list with a single value is this value.
ListOrValue(values) ==
  IF Len(values) = 1 THEN values[1] ELSE [type |-> "ValueList", content |-> values]

RECURSIVE ReadValues(_, _)
\* handleValueOrValueList: the values up to the end of the line.
ReadValues(i, values) ==
  LET next == NextToken(i)
      behind == IF next # None /\ Type(next) = "ValueListSeparator" THEN NextToken(next)
                ELSE next
  IN
  IF i = None THEN Unread
  ELSE IF Type(i) \in {"LineBreak", "EndOfData"} THEN Read(values, ConsumeEndOfLine(i))
  ELSE IF Type(i) \notin SingleLineTypes THEN Unexpected
  ELSE ReadValues(behind, Append(values, ValueOf(i)))

RECURSIVE ReadBullets(_, _)

ReadNextBullet(line, values) ==
  IF line.next = None THEN line
  ELSE IF Type(line.next) # "Indentation" THEN Read(values, line.next)
  ELSE ReadBullets(ExpectNext(line.next, {"MultiLineValueListSeparator"}), values)

WithBullet(line, values) ==
  ReadNextBullet(line, Append(values, ListOrValue(line.content)))

\* handleMultiLineValueList: one line for each of the values.
ReadBullets(i, values) ==
  IF i = None THEN Unread ELSE WithBullet(ReadValues(ExpectMoreInLine(i), <<>>), values)

\* The lines of a text are joined with line breaks, bytes without.
Join(text, line, isFirst) ==
  IF isFirst THEN line ELSE text \o "\n" \o line

RECURSIVE ReadLines(_, _, _, _)
\* The lines of a text, code, regular expression or bytes, from the token at
\* the start of a line on.  A text that ends with its line is not closed.
ReadLines(i, type, text, isFirst) ==
  LET empty == Type(i) = "LineBreak"
      content == IF empty THEN i
                 ELSE ExpectNext(i, {type, type \o "Close", "LineBreak"})
      written == ~empty /\ Type(content) = type
      joined == IF type = "MultiLineBytes"
                THEN IF written THEN text \o tokens[content].content ELSE text
                ELSE Join(text, IF written THEN tokens[content].content ELSE "", isFirst)
      end == IF written THEN ExpectNext(content, {"LineBreak"}) ELSE content
      next == ExpectNext(end, {"LineBreak", "Indentation"})
  IN
  IF i = None \/ content = None THEN Unread
  ELSE IF Type(content) = type \o "Close"
  THEN Read(text, ConsumeEndOfLine(NextToken(content)))
  ELSE ReadLines(next, type, joined, FALSE)

\* The rest of the first line can hold a language or a format.
ReadMultiLine(i, type) ==
  LET format == {"MultiLineCodeLanguage", "MultiLineBytesFormat"}
      next == ExpectNext(i, {"LineBreak"} \cup format)
      end == IF next # None /\ Type(next) \in format
             THEN ExpectNext(next, {"LineBreak"}) ELSE next
      line == ExpectNext(end, {"Indentation", "LineBreak"})
      lines == ReadLines(line, type, "", TRUE)
  IN
  Read([type |-> CASE type = "MultiLineRegex" -> "RegEx"
                   [] type = "MultiLineBytes" -> "Bytes"
                   [] OTHER -> "Text",
        content |-> lines.content],
       lines.next)

MultiLineTypes == {"MultiLineText", "MultiLineCode", "MultiLineRegex", "MultiLineBytes"}

\* Nothing else can be at the start of a value, or an internal error is
\* thrown: the stream relies on the lexer here.
StartsValue(i) ==
  \/ Type(i) \in SingleLineTypes \cup {"MultiLineValueListSeparator"}
  \/ \E type \in MultiLineTypes : Type(i) = type \o "Open"

\* The values of a list as the value of a name.
AsValue(values) == [values EXCEPT !.content = ListOrValue(@)]

ReadValue(i) ==
  IF Type(i) \in SingleLineTypes THEN AsValue(ReadValues(i, <<>>))
  ELSE IF Type(i) = "MultiLineValueListSeparator" THEN AsValue(ReadBullets(i, <<>>))
  ELSE ReadMultiLine(i, CHOOSE type \in MultiLineTypes : Type(i) = type \o "Open")

\* The token where the value of a name starts, in its line or in the next one.
ValueStart(name) ==
  LET next == NextToken(ExpectNext(name, {"NameValueSeparator"}))
  IN
  IF next = None THEN None
  ELSE IF Type(next) # "LineBreak" THEN next
  ELSE ExpectMoreInLine(ExpectNext(next, {"Indentation"}))

-----------------------------------------------------------------------------

Init ==
  /\ \E i \in DOMAIN Documents :
       /\ document = Documents[i].text
       /\ meaning = Documents[i].meaning
       /\ wellFormed = Documents[i].wellFormed
  /\ tokens = <<>>
  /\ current = None
  /\ readMetaVersion = FALSE
  /\ readMetaFeatures = FALSE
  /\ inSection = FALSE
  /\ lastAbsolutePath = <<>>
  /\ currentSectionPath = <<>>
  /\ yielded = <<>>
  /\ outcome = "running"

\* The stream goes on with a token, or throws if there is none.
ContinueWith(next) ==
  IF next = None THEN outcome' = "error" /\ UNCHANGED current
  ELSE current' = next /\ UNCHANGED outcome

\* Assignments and values take their location from the lexer, at the token
\* where they start: all those read here do so while it has a source.
AreLocated(next) ==
  \A i \in current .. next - 1 :
    Type(i) \notin Skipped \cup {"LineBreak"} => ~LexerIsClosed(i)

YieldAssignment(type, path, value) ==
  yielded' = Append(yielded, [type |-> type, path |-> path, value |-> value,
                              located |-> AreLocated(current')])

Throw(error) ==
  /\ outcome' = error
  /\ UNCHANGED <<current, readMetaVersion, readMetaFeatures, inSection,
                 lastAbsolutePath, currentSectionPath, yielded>>

Initialize ==
  /\ tokens = <<>>
  /\ tokens' = Tokens
  /\ ContinueWith(IF tokens'[1].type = "Failure" THEN None ELSE 1)
  /\ UNCHANGED <<document, meaning, wellFormed, readMetaVersion, readMetaFeatures, inSection,
                 lastAbsolutePath, currentSectionPath, yielded>>

\* At a token between two assignments.
IsAt(types) == outcome = "running" /\ tokens # <<>> /\ Type(current) \in types

SkipToken ==
  /\ IsAt({"LineBreak", "Indentation", "Spacing", "Comment"})
  /\ ContinueWith(NextToken(current))
  /\ UNCHANGED <<document, meaning, wellFormed, tokens, readMetaVersion, readMetaFeatures,
                 inSection, lastAbsolutePath, currentSectionPath, yielded>>

MetaNames == {"@version", "@signature", "@features", "@include"}

\* The signature belongs into the first line; the version and the features
\* belong in front of the first section.
MetaValueIsInPlace(name) ==
  /\ name = "@signature" => \A i \in 1 .. current - 1 : Type(i) # "LineBreak"
  /\ name \in {"@version", "@features"} => ~inSection

SupportedFeatures ==
  {"core", "minimum", "standard", "advanced", "all", "float", "byte-count",
   "multi-line", "section-list", "value-list", "text-names", "date-time", "code",
   "byte-data", "include", "regex", "time-delta", "validation", "signature"}

\* The words of a text between spacing.
Words(text) ==
  {SubSeq(text, i, j) : <<i, j>> \in
     {<<i, j>> \in (1 .. Len(text)) \X (1 .. Len(text)) :
        /\ \A k \in i .. j : CharAt(text, k) \notin Spacing
        /\ CharAt(text, i - 1) \in Spacing \cup {""}
        /\ CharAt(text, j + 1) \in Spacing \cup {""}
        /\ i <= j}}

\* verifyFeatures
AreSupported(features) ==
  /\ CharsOf(features) \subseteq Letter \cup Spacing \cup {"-"}
  /\ {ToLowerCase(feature) : feature \in Words(features)} \subseteq SupportedFeatures

\* Both can be given once, with what this parser supports.
IsAccepted(name, text) ==
  /\ name = "@version" => text = "1.0" /\ ~readMetaVersion
  /\ name = "@features" => AreSupported(text) /\ ~readMetaFeatures

\* Mutant: an include does not reset the path of relative sections.
PathAfterKept(name, path) == path

\* After an include there is no section anymore.
PathAfter(name, path) == IF name = "@include" THEN <<>> ELSE path

HandleMetaValue ==
  LET name == tokens[current].content
      value == ExpectNext(ExpectNext(current, {"NameValueSeparator"}), {"Text"})
      text == tokens[value].content
      end == ConsumeEndOfLine(NextToken(value))
  IN
  /\ IsAt({"MetaName"})
  /\ IF \/ name \notin MetaNames
        \/ ~MetaValueIsInPlace(name)
        \/ value = None
        \/ end = None
        \/ ~IsAccepted(name, text)
     THEN Throw("error")
     ELSE /\ current' = end
          /\ readMetaVersion' = (readMetaVersion \/ name = "@version")
          /\ readMetaFeatures' = (readMetaFeatures \/ name = "@features")
          /\ lastAbsolutePath' = PathAfter(name, lastAbsolutePath)
          /\ currentSectionPath' = PathAfter(name, currentSectionPath)
          /\ YieldAssignment("MetaValue", <<<<"Regular", name>>>>,
                             [type |-> "Text", content |-> text])
          /\ UNCHANGED <<inSection, outcome>>
  /\ UNCHANGED <<document, meaning, wellFormed, tokens>>

NameOf(i) ==
  <<IF Type(i) = "RegularName" THEN "Regular" ELSE "Text", tokens[i].content>>

Assign(value) ==
  IF value.next = None THEN Throw(value.error)
  ELSE /\ current' = value.next
       /\ YieldAssignment("Value", Append(currentSectionPath, NameOf(current)), value.content)
       /\ UNCHANGED <<readMetaVersion, readMetaFeatures, inSection,
                      lastAbsolutePath, currentSectionPath, outcome>>

HandleValue ==
  LET start == ValueStart(current) IN
  /\ IsAt({"RegularName", "TextName"})
  /\ IF start = None THEN Throw("error")
     ELSE IF ~StartsValue(start) THEN Throw("internal error")
     ELSE Assign(ReadValue(start))
  /\ UNCHANGED <<document, meaning, wellFormed, tokens>>

Names == {"RegularName", "TextName"}
SectionClose == {"SectionMapClose", "SectionListClose"}

RECURSIVE ReadNamePath(_, _)
\* The names of a section and the token that closes it.  The number of names
\* is limited for those that are written, not for the absolute path.
ReadNamePath(i, path) ==
  LET next == ExpectNext(i, SectionClose \cup {"NamePathSeparator"})
      names == Append(path, NameOf(i))
  IN
  IF i = None \/ Len(path) >= MaxNamePathLength \/ next = None THEN Unread
  ELSE IF Type(next) \in SectionClose THEN Read(names, next)
  ELSE ReadNamePath(ExpectNext(next, Names), names)

HandleSection ==
  LET first == ExpectNext(current, Names \cup {"NamePathSeparator"})
      isRelative == first # None /\ Type(first) = "NamePathSeparator"
      written == ReadNamePath(IF isRelative THEN ExpectNext(first, Names) ELSE first, <<>>)
      end == ConsumeEndOfLine(NextToken(written.next))
      path == IF isRelative THEN lastAbsolutePath \o written.content ELSE written.content
      isList == Type(current) = "SectionListOpen"
  IN
  /\ IsAt({"SectionMapOpen", "SectionListOpen"})
  /\ IF end = None \/ (isRelative /\ lastAbsolutePath = <<>>) THEN Throw("error")
     ELSE /\ current' = end
          /\ lastAbsolutePath' = (IF isRelative THEN lastAbsolutePath ELSE path)
          /\ currentSectionPath' = path
          /\ inSection' = TRUE
          /\ YieldAssignment(IF isList THEN "SectionList" ELSE "SectionMap", path, "")
          /\ UNCHANGED <<readMetaVersion, readMetaFeatures, outcome>>
  /\ UNCHANGED <<document, meaning, wellFormed, tokens>>

YieldEndOfDocument ==
  /\ IsAt({"EndOfData"})
  /\ outcome' = "end"
  /\ UNCHANGED <<document, meaning, wellFormed, tokens, current, readMetaVersion, readMetaFeatures,
                 inSection, lastAbsolutePath, currentSectionPath, yielded>>

\* Nothing is left to do once the end or an error was reached.
Finished == outcome # "running" /\ UNCHANGED vars

Next ==
  \/ Initialize
  \/ SkipToken
  \/ HandleMetaValue
  \/ HandleValue
  \/ HandleSection
  \/ YieldEndOfDocument
  \/ Finished

Spec == Init /\ [][Next]_vars

-----------------------------------------------------------------------------

\* What was yielded of a document is what its author wrote, and it is all of
\* it once the end is reached: no value is lost, changed, or ascribed to
\* another section, however its names, sections, includes and lines are laid
\* out (assignments(), handleMetaValue, handleValue, handleSection).
WrittenIsAssigned ==
  LET assigned == [i \in DOMAIN yielded |-> [type  |-> yielded[i].type,
                                            path  |-> yielded[i].path,
                                            value |-> yielded[i].value]]
  IN
  wellFormed =>
    /\ Len(assigned) <= Len(meaning)
    /\ assigned = SubSeq(meaning, 1, Len(assigned))
    /\ outcome = "end" => Len(assigned) = Len(meaning)

\* A document is read to its end if and only if it is well formed.  The lexer
\* and the stream share this work, and both have to refuse what the other one
\* leaves to it.
MalformedIsRefused ==
  /\ outcome = "end" => wellFormed
  /\ outcome = "error" => ~wellFormed

\* The stream never meets tokens in an order that it takes for a programming
\* error (ErrorCategory::Internal in handleValue, handleValueOrValueList).
NoInternalError == outcome # "internal error"

\* Every assignment and every value in it names its source, although the
\* lexer runs ahead and drops its source when it is done (currentLocation).
LocationsNameTheSource == \A i \in DOMAIN yielded : yielded[i].located
=============================================================================
