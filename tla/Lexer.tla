-------------------------------- MODULE Lexer --------------------------------
(***************************************************************************)
(* impl/lexer: the tokens of a document.                                   *)
(*                                                                         *)
(* The coroutines of the lexer yield one token after the other; what they  *)
(* yield depends on the document only.  A coroutine is an operator that    *)
(* takes and returns the progress of the lexer: its position, the tokens   *)
(* yielded so far, the indentation pattern of the value that is read and   *)
(* whether an error was thrown.  Once this is so, nothing is read anymore. *)
(***************************************************************************)
EXTENDS Scanners

NothingRead == [pos |-> 1, tokens |-> <<>>, indentation |-> "", failed |-> FALSE]

At(s) == Char(s.pos)

\* The token up to end, starting where the last one ended.
Yield(s, type, content, end) ==
  [s EXCEPT !.pos = end,
            !.tokens = Append(@, [type |-> type, content |-> content, from |-> s.pos])]

Expect(s, condition, t) ==
  IF s.failed THEN s ELSE IF condition THEN t ELSE [s EXCEPT !.failed = TRUE]

YieldScanned(s, token) ==
  Expect(s, token.is = "token", Yield(s, token.type, token.content, token.end))

\* The character c as a token of the type.
ExpectChar(s, c, type) == Expect(s, At(s) = c, Yield(s, type, "", s.pos + 1))

StartsWith(p, text) == \A i \in 1 .. Len(text) : Char(p + i - 1) = CharAt(text, i)

-----------------------------------------------------------------------------
(* Ends of lines, spacing and indentation *)

ScanForSpacing(s) ==
  IF s.failed \/ At(s) \notin Spacing THEN s
  ELSE Yield(s, "Spacing", "", Behind(s.pos, Spacing))

BehindComment(p) == Min({q \in p .. Len(document) + 1 : Char(q) \in LineBreakOrEnd})

ScanComment(s) ==
  IF s.failed \/ At(s) # CommentStart THEN s
  ELSE Yield(s, "Comment", "", BehindComment(s.pos))

ExpectLinebreak(s) ==
  IF At(s) = "\r"
  THEN Expect(s, Char(s.pos + 1) = "\n", Yield(s, "LineBreak", "", s.pos + 2))
  ELSE ExpectChar(s, "\n", "LineBreak")

\* The line can end with the document, unless more is expected behind it.
ExpectEndOfLine(s, expectMore) ==
  LET commented == ScanComment(ScanForSpacing(s)) IN
  IF At(commented) = EndOfData THEN Expect(commented, ~expectMore, commented)
  ELSE ExpectLinebreak(commented)

ExpectMore(s) == Expect(s, At(s) # EndOfData, s)

\* Mutant: a continued line can be indented in any way.
AnyIndentation(s) ==
  Expect(s, At(s) \in Spacing,
         Yield([s EXCEPT !.indentation = Text(s.pos, Behind(s.pos, Spacing))],
               "Indentation", "", Behind(s.pos, Spacing)))

\* The first continued line of a value sets the pattern.  For the other ones
\* only the pattern is read, the spacing behind it belongs to the text.
ExpectAndCheckIndentation(s) ==
  LET pattern == IF s.indentation # "" THEN s.indentation
                 ELSE Text(s.pos, Behind(s.pos, Spacing))
  IN
  Expect(s, At(s) \in Spacing /\ StartsWith(s.pos, pattern),
         Yield([s EXCEPT !.indentation = pattern],
               "Indentation", "", s.pos + Len(pattern)))

-----------------------------------------------------------------------------
(* Sections *)

ExpectName(s) ==
  YieldScanned(s, IF At(s) = "\"" THEN ExpectTextName(s.pos)
                  ELSE ExpectRegularOrMetaName(s.pos, SectionNameEnd))

ExpectSeparator(s) == ScanForSpacing(ExpectChar(s, ".", "NamePathSeparator"))

RECURSIVE ExpectNamePath(_)

ExpectNextName(named) ==
  IF named.failed \/ At(named) # "." THEN named
  ELSE ExpectNamePath(ExpectSeparator(named))

\* As many names as there are; a separator can be the last one.
ExpectNamePath(s) ==
  IF s.failed \/ At(s) \notin SectionNameStart THEN s
  ELSE ExpectNextName(ScanForSpacing(ExpectName(s)))

\* The closing bracket, with an asterisk for lists only, and dashes.
ExpectSectionClose(s, isList) ==
  LET asterisk == Char(s.pos + 1) = "*"
      end == Behind(IF asterisk THEN s.pos + 2 ELSE s.pos + 1, {"-"})
      type == IF isList THEN "SectionListClose" ELSE "SectionMapClose"
  IN
  ExpectEndOfLine(
    Expect(s, At(s) = "]" /\ (asterisk => isList), Yield(s, type, "", end)), FALSE)

ExpectSectionName(s) == ExpectNamePath(IF At(s) = "." THEN ExpectSeparator(s) ELSE s)

ExpectSection(s) ==
  LET open == Behind(s.pos, {"-"})
      isList == Char(open) = "*"
      bracket == IF isList THEN open + 1 ELSE open
      type == IF isList THEN "SectionListOpen" ELSE "SectionMapOpen"
      opened == Expect(s, Char(bracket) = "[", Yield(s, type, "", bracket + 1))
  IN
  ExpectSectionClose(ExpectSectionName(ScanForSpacing(opened)), isList)

-----------------------------------------------------------------------------
(* Values in a line *)

RECURSIVE ExpectSingleLineValueOrValueList(_)

ExpectListedValue(s) ==
  Expect(s, At(s) \notin LineBreakOrEnd, ExpectSingleLineValueOrValueList(s))

\* The end of the line behind a value, or the separator and the next value.
ExpectNextValue(value) ==
  IF At(value) # "," THEN ExpectEndOfLine(value, FALSE)
  ELSE ExpectListedValue(ScanForSpacing(ExpectChar(value, ",", "ValueListSeparator")))

ExpectSingleLineValueOrValueList(s) ==
  IF s.failed THEN s
  ELSE ExpectNextValue(ScanForSpacing(YieldScanned(s, ExpectSingleLineValue(s.pos))))

RECURSIVE ExpectMultiLineValueList(_)

\* Behind a bullet, the next line continues the list if it is indented and not
\* empty.  Then its indentation has to be that of the first line.
ExpectNextBullet(item) ==
  LET end == Behind(item.pos, Spacing)
      indented == Yield(item, "Indentation", "", end)
  IN
  IF item.failed \/ At(item) \notin Spacing \/ Char(end) \in EndOfLineStart THEN item
  ELSE IF Text(item.pos, end) # item.indentation \/ Char(end) # "*"
  THEN [indented EXCEPT !.failed = TRUE]
  ELSE ExpectMultiLineValueList(indented)

ExpectMultiLineValueList(s) ==
  ExpectNextBullet(
    ExpectSingleLineValueOrValueList(
      ExpectMore(ScanForSpacing(ExpectChar(s, "*", "MultiLineValueListSeparator")))))

-----------------------------------------------------------------------------
(* Values of several lines, by the character that opens them *)

MultiLineType(kind) ==
  CASE kind = "\"" -> "MultiLineText" [] kind = "^" -> "MultiLineCode"
    [] kind = "/" -> "MultiLineRegex" [] kind = "<" -> "MultiLineBytes"

Opening(kind) == kind \o kind \o kind
Closing(kind) == IF kind = "<" THEN ">>>" ELSE Opening(kind)

\* Comments are allowed behind regular expressions and bytes.
IsAtMultiLineEnd(kind, p) ==
  \/ Char(p) \in LineBreakOrEnd
  \/ kind \in {"/", "<"} /\ Char(p) = CommentStart

RECURSIVE ParseMultiLineString(_, _, _)

ContinueMultiLineString(kind, part, text) ==
  IF part = Error THEN Error
  ELSE ParseMultiLineString(kind, part.end, text \o part.content)

\* The text of a line, without the spacing at its end.
ParseMultiLineString(kind, p, text) ==
  LET behindSpacing == Behind(p, Spacing) IN
  IF Char(p) \in LineBreakOrEnd THEN Found(text, p)
  ELSE IF Char(p) \in Spacing
  THEN IF IsAtMultiLineEnd(kind, behindSpacing) THEN Found(text, p)
       ELSE ParseMultiLineString(kind, behindSpacing, text \o Text(p, behindSpacing))
  ELSE IF Char(p) # "\\" \/ ~HasEscapes(kind)
  THEN ParseMultiLineString(kind, p + 1, text \o Char(p))
  ELSE ContinueMultiLineString(kind, EscapeAt(kind, p + 1), text)

YieldFound(s, type, found) ==
  Expect(s, found # Error, Yield(s, type, found.content, found.end))

MultiLineContent(kind, p) ==
  IF kind = "<" THEN ParseHexBytes(p, LineBreakOrEnd \cup {CommentStart}, "")
  ELSE ParseMultiLineString(kind, p, "")

\* What stands in a line, if it is not empty, and the end of the line.
ExpectMultiLineContent(s, kind) ==
  ExpectMore(
    ExpectEndOfLine(
      IF s.failed \/ IsAtMultiLineEnd(kind, s.pos) THEN s
      ELSE YieldFound(s, MultiLineType(kind), MultiLineContent(kind, s.pos)),
      FALSE))

\* A line starts with its indentation, or it is empty.
ExpectMultiLineStart(s) ==
  IF At(s) \in Spacing THEN ExpectAndCheckIndentation(s)
  ELSE Expect(s, At(s) \in LineBreak, s)

RECURSIVE ExpectMultiLine(_, _)
\* Lines are read until one starts with the closing sequence.
ExpectMultiLine(s, kind) ==
  IF s.failed THEN s
  ELSE IF At(s) = EndOfData THEN [s EXCEPT !.failed = TRUE]
  ELSE IF StartsWith(s.pos, Closing(kind))
  THEN Yield(s, MultiLineType(kind) \o "Close", "", s.pos + 3)
  ELSE ExpectMultiLine(
         ExpectMore(ExpectMultiLineStart(ExpectMultiLineContent(s, kind))), kind)

\* Code can name its language, bytes their format, of which there is one.
ExpectFormat(s, kind) ==
  LET end == BehindFormat(s.pos)
      type == IF kind = "^" THEN "MultiLineCodeLanguage" ELSE "MultiLineBytesFormat"
      format == ToLowerCase(Text(s.pos, end))
  IN
  IF kind \notin {"^", "<"} \/ end = s.pos THEN s
  ELSE Expect(s, /\ end - s.pos <= 16
                 /\ Char(end) # EndOfData
                 /\ kind = "<" => Char(end) \in EndOfLineStart /\ format = "hex",
              Yield(s, type, format, end))

ExpectMultiLineValue(s, kind) ==
  LET opened == ExpectFormat(Yield(s, MultiLineType(kind) \o "Open", "", s.pos + 3), kind) IN
  ExpectMultiLine(ExpectMultiLineStart(ExpectMore(ExpectEndOfLine(opened, TRUE))), kind)

-----------------------------------------------------------------------------
(* The document *)

\* Lists with bullets start on the next line only.
ExpectValueOrValueList(s, onNextLine) ==
  IF s.failed THEN s
  ELSE IF onNextLine /\ At(s) = "*" THEN ExpectMultiLineValueList(s)
  ELSE IF At(s) \in OpeningBracket /\ StartsWith(s.pos, Opening(At(s)))
  THEN ExpectMultiLineValue(s, At(s))
  ELSE ExpectSingleLineValueOrValueList(s)

ExpectNameValueSeparator(s) ==
  Expect(s, At(s) \in NameValueSeparator, Yield(s, "NameValueSeparator", "", s.pos + 1))

\* In the line of the name, or indented in the next one.
ExpectValue(s) ==
  LET onNextLine == At(s) \in LineBreak \cup {CommentStart} IN
  ExpectValueOrValueList(
    IF onNextLine THEN ExpectAndCheckIndentation(ExpectMore(ExpectEndOfLine(s, TRUE)))
    ELSE ExpectMore(s),
    onNextLine)

ExpectNameAndValue(s) ==
  ExpectValue(
    ScanForSpacing(
      ExpectNameValueSeparator(
        ScanForSpacing(ExpectName([s EXCEPT !.indentation = ""])))))

\* Indented lines have to be empty outside of values.
ExpectLine(s) ==
  IF At(s) \in EndOfLineStart THEN ExpectEndOfLine(s, FALSE)
  ELSE IF At(s) \in NameStart THEN ExpectNameAndValue(s)
  ELSE IF At(s) \in SectionStart THEN ExpectSection(s)
  ELSE [s EXCEPT !.failed = TRUE]

RECURSIVE LexFrom(_)
LexFrom(s) ==
  IF s.failed \/ At(s) = EndOfData THEN s ELSE LexFrom(ExpectLine(s))

Ended(s) ==
  Append(s.tokens, [type |-> IF s.failed THEN "Failure" ELSE "EndOfData",
                    content |-> "", from |-> s.pos])

\* What Lexer::tokens() offers: the tokens, and behind them either the mark
\* of the end or the error that is thrown when the next token is taken.
Tokens == Ended(LexFrom(NothingRead))

=============================================================================
