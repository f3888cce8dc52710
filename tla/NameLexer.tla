------------------------------ MODULE NameLexer ------------------------------
(***************************************************************************)
(* impl/lexer/NameLexer, NamePath and Name: name paths in code.  A path is *)
(* written as a text and read from one with the scanners for documents; it *)
(* has indexes, which the sections of a document do not have.              *)
(***************************************************************************)
EXTENDS Scanners

CONSTANT MaxLineLength  \* limits::maxLineLength

\* A name is its type and its text or index.
EmptyName == <<"Undefined", "">>

-----------------------------------------------------------------------------
(* Writing a path *)

\* Characters of the class EscapedForTextName, with their code points.
EscapedForTextName ==
  "\\" :> "5c" @@ "\"" :> "22" @@ "." :> "2e" @@ ":" :> "3a" @@ "=" :> "3d" @@
  "\t" :> "9" @@ "\n" :> "a" @@ "\f" :> "c" @@ "\r" :> "d" @@
  "?" :> "e9"  \* for all characters that are left out

\* Mutant: only what ends or escapes a text is escaped.
UnescapedControl(c) == IF c \in {"\\", "\""} THEN "\\" \o c ELSE c

EscapedCharacter(c) ==
  IF c \in DOMAIN EscapedForTextName THEN "\\u{" \o EscapedForTextName[c] \o "}" ELSE c

RECURSIVE ToEscaped(_)
ToEscaped(text) ==
  IF text = "" THEN ""
  ELSE EscapedCharacter(CharAt(text, 1)) \o ToEscaped(SubSeq(text, 2, Len(text)))

ToPathText(name) ==
  CASE name[1] = "Regular" -> name[2]
    [] name[1] = "Text" -> "\"" \o ToEscaped(name[2]) \o "\""
    [] name[1] = "Index" -> "[" \o ToString(name[2]) \o "]"
    [] name[1] = "TextIndex" -> "\"\"[" \o ToString(name[2]) \o "]"

RECURSIVE ToText(_)
\* A separator stands in front of each name but the first one and indexes.
ToText(path) ==
  LET name == path[Len(path)]
      separator == IF Len(path) = 1 \/ name[1] = "Index" THEN "" ELSE "."
  IN
  IF path = <<>> THEN ""
  ELSE ToText(SubSeq(path, 1, Len(path) - 1)) \o separator \o ToPathText(name)

-----------------------------------------------------------------------------
(* Reading a path *)

BehindSpacing(p) == Behind(p, Spacing)

\* Behind a name there is only spacing, up to the next one or the end.
ReadName(name, p, ends) ==
  IF Char(BehindSpacing(p)) \in ends THEN Found(name, BehindSpacing(p)) ELSE Error

SeparatorOrEnd == {".", EndOfData}
SeparatorIndexOrEnd == SeparatorOrEnd \cup {"["}

ExpectRegularName(p) ==
  LET end == BehindName(p, SeparatorIndexOrEnd) IN
  IF end = 0 THEN Error
  ELSE ReadName(<<"Regular", ToRegularName(Text(p, end))>>, end, SeparatorIndexOrEnd)

IndexOf(number) ==
  IF number = Error THEN Error
  ELSE IF Char(BehindSpacing(number.end)) # "]" THEN Error
  ELSE Found(number.value, BehindSpacing(number.end) + 1)

\* An index in brackets; without digits it is zero.
ExpectGenericIndex(p) ==
  IndexOf(ParseNumber(BehindSpacing(p + 1), "decimal", FALSE, TRUE))

ReadIndex(type, index, ends) ==
  IF index = Error THEN Error ELSE ReadName(<<type, index.content>>, index.end, ends)

\* Name::validateText: control characters other than white space are refused.
IsValidText(text) == text # "" /\ "\f" \notin CharsOf(text)

\* An empty text stands in front of the index of a text name.
TextNameOrIndex(text) ==
  IF text = Error THEN Error
  ELSE IF IsValidText(text.content)
  THEN ReadName(<<"Text", text.content>>, text.end, SeparatorOrEnd)
  ELSE IF text.content # "" \/ Char(text.end) # "[" THEN Error
  ELSE ReadIndex("TextIndex", ExpectGenericIndex(text.end), SeparatorOrEnd)

ExpectTextNameOrIndex(p) == TextNameOrIndex(ParseString("\"", p + 1, ""))

\* The name at p.  Spacing up to the end is taken for a name without a text.
NextName(p, isFirst) ==
  LET start == BehindSpacing(p)
      separated == Char(start) = "."
      q == IF separated THEN BehindSpacing(start + 1) ELSE start
  IN
  IF Char(start) = EndOfData THEN Found(EmptyName, start)
  ELSE IF separated /\ isFirst THEN Error
  ELSE IF Char(q) \in Letter \cup {"@"} THEN ExpectRegularName(q)
  ELSE IF Char(q) = "\"" THEN ExpectTextNameOrIndex(q)
  ELSE IF Char(q) = "[" /\ ~separated
  THEN ReadIndex("Index", ExpectGenericIndex(q), SeparatorIndexOrEnd)
  ELSE Error

RECURSIVE NamesFrom(_, _)

NamesBehind(names, name) ==
  IF name = Error THEN Error ELSE NamesFrom(name.end, Append(names, name.content))

NamesFrom(p, names) ==
  IF Char(p) = EndOfData THEN Found(names, p)
  ELSE NamesBehind(names, NextName(p, names = <<>>))

\* The path that the document stands for, or an error.
FromText == IF Len(document) > MaxLineLength THEN Error ELSE NamesFrom(1, <<>>)

-----------------------------------------------------------------------------
(* A regular name that is given as such. *)

WordSeparators == {" ", "_"}

IsRegularName ==
  LET first == IF Char(1) = "@" THEN 2 ELSE 1
      length == Len(document)
  IN  /\ length \in first .. MaxNameLength
      /\ \A i \in first .. length : Char(i) \in LetterOrDigit \cup WordSeparators
      /\ Char(1) \notin WordSeparators
      /\ Char(first) \notin DecimalDigit
      /\ \A i \in 2 .. length : Char(i - 1) \notin WordSeparators \/ Char(i) \notin WordSeparators
      /\ Char(length) \notin WordSeparators

\* Name::normalize
Normalized == IF IsRegularName THEN Found(ToRegularName(document), Len(document) + 1) ELSE Error
=============================================================================
