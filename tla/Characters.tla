------------------------------ MODULE Characters ------------------------------
(***************************************************************************)
(* impl/char/Char and CharClass: the characters of a document and their    *)
(* classes.                                                                *)
(*                                                                         *)
(* A character is a string of length one, the empty string stands for the  *)
(* end-of-data mark.  Characters outside of the printable ASCII range are  *)
(* left out, except the white space, as the lexer treats all of them in    *)
(* the same way: they are accepted in texts and comments only; as what an  *)
(* escape sequence stands for, "\f" is every control character and "?"     *)
(* every other one.  A string cannot hold a backtick: "^" stands for it.   *)
(***************************************************************************)
EXTENDS Integers, Sequences, FiniteSetsExt

\* SubSeq and Len are defined on strings, which are sequences of characters.
CharAt(text, i) == IF i \in 1 .. Len(text) THEN SubSeq(text, i, i) ELSE ""

CharsOf(text) == {CharAt(text, i) : i \in 1 .. Len(text)}

IndexIn(text, c) == CHOOSE i \in 1 .. Len(text) : CharAt(text, i) = c

EndOfData == ""

-----------------------------------------------------------------------------

LowerCase == "abcdefghijklmnopqrstuvwxyz"
UpperCase == "ABCDEFGHIJKLMNOPQRSTUVWXYZ"
HexDigitValues == "0123456789abcdef"

\* The printable characters, from code point 32 on.
Ascii ==
  " !\"#$%&'()*+,-./0123456789:;<=>?@" \o UpperCase \o "[\\]?_^" \o LowerCase \o "{|}~"

Spacing == {" ", "\t"}
LineBreak == {"\n", "\r"}
LineBreakOrEnd == LineBreak \cup {EndOfData}
CommentStart == "#"
EndOfLineStart == Spacing \cup LineBreakOrEnd \cup {CommentStart}
ValidAfterValue == EndOfLineStart \cup {","}

Letter == CharsOf(LowerCase \o UpperCase)
DecimalDigit == CharsOf("0123456789")
BinaryDigit == CharsOf("01")
HexDigit == CharsOf("0123456789abcdefABCDEF")
LetterOrDigit == Letter \cup DecimalDigit
FormatIdentifierChar == LetterOrDigit \cup {"_", "-"}

NameStart == Letter \cup {"@", "\""}
SectionNameStart == Letter \cup {"\""}
NameValueSeparator == {":", "="}
SectionStart == {"-", "*", "["}
OpeningBracket == {"\"", "^", "/", "<"}

PlusOrMinus == {"+", "-"}
NumberStart == DecimalDigit \cup PlusOrMinus
TimeStart == DecimalDigit \cup {"t", "T"}
FloatLiteralStart == PlusOrMinus \cup CharsOf("nNiI")

-----------------------------------------------------------------------------

RECURSIVE Replaced(_, _, _)
\* The text with each character of from replaced by the one of to.
Replaced(text, from, to) ==
  LET c == CharAt(text, 1) IN
  IF text = "" THEN ""
  ELSE (IF c \in CharsOf(from) THEN CharAt(to, IndexIn(from, c)) ELSE c)
       \o Replaced(SubSeq(text, 2, Len(text)), from, to)

ToLowerCase(text) == Replaced(text, UpperCase, LowerCase)

\* Names are stored and compared with underscores for spaces.
ToRegularName(text) == Replaced(text, UpperCase \o " ", LowerCase \o "_")

ToHexDigitValue(c) == IndexIn(HexDigitValues, ToLowerCase(c)) - 1

\* Code points that can be written as an escape sequence: valid Unicode, and
\* neither the byte order mark nor the terminating zero.
IsValidEscapeUnicode(code) ==
  code \in 1 .. 1114111 /\ code \notin 55296 .. 57343 /\ code # 65279

\* The character of a code point; "\f" stands for all other control characters and
\* "?" for the characters that are left out.
CharacterOf(code) ==
  CASE code \in 32 .. 126 -> CharAt(Ascii, code - 31)
    [] code = 9 -> "\t" [] code = 10 -> "\n" [] code = 13 -> "\r"
    [] code \in (0 .. 31 \cup 127 .. 160) \ {9, 10, 13} -> "\f"
    [] code > 160 -> "?"

=============================================================================
