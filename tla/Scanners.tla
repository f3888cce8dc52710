------------------------------- MODULE Scanners -------------------------------
(***************************************************************************)
(* impl/lexer: the scanners for names, numbers, dates, texts and bytes.    *)
(*                                                                         *)
(* A scanner reads at a position of the document and answers with the      *)
(* token that starts there, with Nothing if the characters do not look     *)
(* like one (the C++ transaction is rolled back) or with Error if they do  *)
(* but are malformed.  The category and the text of the errors are left    *)
(* out.  Decoding errors are the subject of TokenDecoder: all characters   *)
(* are valid here.                                                         *)
(***************************************************************************)
EXTENDS Characters, Calendar, TLC

CONSTANTS
  MaxInteger,        \* 2^63 - 1 in the code
  MaxDigits,         \* the digits of a number for each base, in [Bases -> Nat]
  MaxFloatDigits,    \* 20 in the code
  MaxExponentDigits, \* 6 in the code
  FractionDigits,    \* the digits of a second's fraction, 9 in the code
  MaxNameLength      \* limits::maxNameLength

Bases == {"binary", "decimal", "hexadecimal"}

ASSUME MaxIntegerAssumption == MaxInteger \in Nat \ {0}
ASSUME MaxDigitsAssumption == MaxDigits \in [Bases -> Nat \ {0}]
ASSUME LimitsAssumption ==
  {MaxFloatDigits, MaxExponentDigits, FractionDigits, MaxNameLength} \subseteq Nat \ {0}

VARIABLE document  \* the text that is read

Char(p) == CharAt(document, p)

\* The text from one position up to another one.
Text(from, to) == SubSeq(document, from, to - 1)

RECURSIVE Behind(_, _)
\* The first position from p on with a character that is not of the class.
Behind(p, class) == IF Char(p) \in class THEN Behind(p + 1, class) ELSE p

Nothing == [is |-> "nothing"]
Error == [is |-> "error"]
Found(content, end) == [is |-> "found", content |-> content, end |-> end]
Token(type, content, end) ==
  [is |-> "token", type |-> type, content |-> content, end |-> end]

\* What was found as a token of the type.
AsToken(type, found) ==
  IF found.is = "found" THEN Token(type, found.content, found.end) ELSE found

\* The position behind an optional sign.
BehindSign(p) == IF Char(p) \in PlusOrMinus THEN p + 1 ELSE p

-----------------------------------------------------------------------------
(* Numbers *)

DigitsOf(base) ==
  CASE base = "binary" -> BinaryDigit
    [] base = "decimal" -> DecimalDigit
    [] base = "hexadecimal" -> HexDigit

Factor(base) ==
  CASE base = "binary" -> 2 [] base = "decimal" -> 10 [] base = "hexadecimal" -> 16

\* The digits are collected in an unsigned integer of the same width.
MaxUnsigned == 2 * MaxInteger + 1

Number(value, digits, end) ==
  [is |-> "number", value |-> value, digits |-> digits, end |-> end]

RECURSIVE CollectDigits(_, _, _, _, _)
\* number is what was read so far.  The number of digits is only checked if
\* something follows; without limit, fixed is 0.
CollectDigits(base, separators, fixed, number, unlimited) ==
  LET p == number.end
      separated == separators /\ Char(p) = "'"
      q == IF separated THEN p + 1 ELSE p
      value == number.value * Factor(base) + ToHexDigitValue(Char(q))
  IN
  IF Char(p) = EndOfData \/ (~unlimited /\ number.digits >= fixed) THEN number
  ELSE IF number.digits > MaxDigits[base] THEN Error
  ELSE IF separated /\ (number.digits = 0 \/ Char(q) \notin DigitsOf(base)) THEN Error
  ELSE IF Char(q) \notin DigitsOf(base) THEN number
  ELSE IF value > MaxUnsigned THEN Error
  ELSE CollectDigits(base, separators, fixed,
                     Number(value, number.digits + 1, q + 1), unlimited)

Limited(number, negative) ==
  IF number = Error THEN Error
  ELSE IF number.value > (IF negative THEN MaxInteger + 1 ELSE MaxInteger) THEN Error
  ELSE IF negative THEN Number(-number.value, number.digits, number.end)
  ELSE number

\* A number with any count of digits.
ParseNumber(p, base, negative, separators) ==
  IF Char(p) = EndOfData THEN Error
  ELSE Limited(CollectDigits(base, separators, 0, Number(0, 0, p), TRUE), negative)

Complete(number, count) ==
  IF number # Error /\ number.digits < count THEN Nothing ELSE number

\* A number with exactly count digits, or Nothing.
ParseDigits(p, base, count) ==
  Complete(CollectDigits(base, FALSE, count, Number(0, 0, p), FALSE), count)

-----------------------------------------------------------------------------
(* Integers and time deltas *)

\* LiteralTables::integerSuffixMap, without the factors that do not fit.
ByteCounts ==
  "kb" :> 1000 @@ "mb" :> 1000000 @@ "gb" :> 1000000000 @@
  "kib" :> 1024 @@ "mib" :> 1048576 @@ "gib" :> 1073741824 @@
  "zb" :> -1 @@ "yb" :> -1 @@ "zib" :> -1 @@ "yib" :> -1

TimeUnits ==
  "ns" :> "Nanoseconds" @@ "us" :> "Microseconds" @@ "ms" :> "Milliseconds" @@
  "s" :> "Seconds" @@ "second" :> "Seconds" @@ "seconds" :> "Seconds" @@
  "m" :> "Minutes" @@ "minute" :> "Minutes" @@ "minutes" :> "Minutes" @@
  "h" :> "Hours" @@ "hour" :> "Hours" @@ "hours" :> "Hours" @@
  "d" :> "Days" @@ "day" :> "Days" @@ "days" :> "Days" @@
  "w" :> "Weeks" @@ "week" :> "Weeks" @@ "weeks" :> "Weeks" @@
  "month" :> "Months" @@ "months" :> "Months" @@
  "year" :> "Years" @@ "years" :> "Years"

\* The product of a number and a positive factor does not fit.
WillMultiplyOverflow(number, factor) ==
  \/ number > MaxInteger \div factor
  \/ -number > (MaxInteger + 1) \div factor

\* A space can separate the suffix; without a letter behind it, it ends the
\* number instead.
ScanDecimalSuffix(number) ==
  LET p == IF Char(number.end) = " " THEN number.end + 1 ELSE number.end
      end == Behind(p, Letter)
      identifier == ToLowerCase(Text(p, end))
  IN
  IF Char(p) \notin Letter THEN Token("Integer", number.value, number.end)
  ELSE IF identifier \in DOMAIN TimeUnits
  THEN Token("TimeDelta", <<number.value, TimeUnits[identifier]>>, end)
  ELSE IF identifier \notin DOMAIN ByteCounts THEN Error
  ELSE LET factor == ByteCounts[identifier] IN
       IF factor <= 0 THEN Error
       ELSE IF WillMultiplyOverflow(number.value, factor) THEN Error
       ELSE Token("Integer", number.value * factor, end)

\* Hexadecimal and binary numbers have no suffix and are no floats.
BasedInteger(number) ==
  IF number = Error THEN Error
  ELSE IF number.digits = 0 \/ Char(number.end) \notin ValidAfterValue THEN Error
  ELSE Token("Integer", number.value, number.end)

DecimalInteger(number) ==
  IF number = Error THEN Error
  ELSE IF Char(number.end) \in Letter \cup {" "} THEN ScanDecimalSuffix(number)
  ELSE IF Char(number.end) \notin ValidAfterValue THEN Error
  ELSE Token("Integer", number.value, number.end)

ScanIntegerOrTimeDelta(p) ==
  LET negative == Char(p) = "-"
      q == BehindSign(p)
      letter == ToLowerCase(Char(q + 1))
  IN
  IF Char(p) \notin NumberStart THEN Nothing
  ELSE IF Char(q) \notin DecimalDigit THEN Error
  ELSE IF Char(q) # "0" THEN DecimalInteger(ParseNumber(q, "decimal", negative, TRUE))
  ELSE IF letter = "x"
  THEN BasedInteger(ParseNumber(q + 2, "hexadecimal", negative, TRUE))
  ELSE IF letter = "b"
  THEN BasedInteger(ParseNumber(q + 2, "binary", negative, TRUE))
  ELSE IF letter \in DecimalDigit THEN Error
  ELSE DecimalInteger(Number(0, 1, q + 1))

-----------------------------------------------------------------------------
(* Floats, of which the content is the decimal text that is converted. *)

Float(from, to) ==
  LET text == Replaced(Text(from, to), "'", "") IN
  Token("Float", IF Char(from) = "+" THEN SubSeq(text, 2, Len(text)) ELSE text, to)

\* A row of digits with single separators between them.
ParseDecimalDigits(p) ==
  LET end == Behind(p, DecimalDigit \cup {"'"})
      separators == {i \in p .. end - 1 : Char(i) = "'"}
      count == (end - p) - Cardinality(separators)
  IN
  IF \E i \in separators : i = p \/ Char(i + 1) \notin DecimalDigit THEN Error
  ELSE [is |-> "digits", count |-> count, end |-> end,
        zeroPrefixed |-> Char(p) = "0" /\ count > 1]

ScanFloatAfterExponent(start, p) ==
  LET first == BehindSign(p)
      end == Behind(first, DecimalDigit)
  IN
  IF end - first \notin 1 .. MaxExponentDigits THEN Error
  ELSE IF Char(end) \notin ValidAfterValue THEN Error
  ELSE Float(start, end)

ScanFloatAfterDecimalPoint(start, p, digitsBefore) ==
  LET fraction == IF Char(p) \in DecimalDigit THEN ParseDecimalDigits(p)
                  ELSE [is |-> "digits", count |-> 0, end |-> p]
      end == fraction.end
  IN
  IF fraction = Error THEN Error
  ELSE IF digitsBefore + fraction.count \notin 1 .. MaxFloatDigits THEN Error
  ELSE IF ToLowerCase(Char(end)) = "e" THEN ScanFloatAfterExponent(start, end + 1)
  ELSE IF Char(end) \notin ValidAfterValue THEN Error
  ELSE Float(start, end)

ScanFloatFractionOnly(p) ==
  LET q == BehindSign(p) IN
  IF Char(q) # "." THEN Nothing ELSE ScanFloatAfterDecimalPoint(p, q + 1, 0)

ScanFloatWithWholePart(p) ==
  LET q == BehindSign(p)
      whole == ParseDecimalDigits(q)
      next == ToLowerCase(Char(whole.end))
  IN
  IF Char(q) \notin DecimalDigit THEN Nothing
  ELSE IF whole = Error THEN Error
  ELSE IF next \notin {"e", "."} THEN Nothing
  ELSE IF whole.zeroPrefixed THEN Error
  ELSE IF next = "." THEN ScanFloatAfterDecimalPoint(p, whole.end + 1, whole.count)
  ELSE IF whole.count > MaxFloatDigits THEN Error
  ELSE ScanFloatAfterExponent(p, whole.end + 1)

\* How many characters of the word are at p.
Matching(word, p) ==
  LET Matches(n) == ToLowerCase(Text(p, p + n)) = SubSeq(word, 1, n) IN
  Max({n \in 0 .. Len(word) : p + n <= Len(document) + 1 /\ Matches(n)})

ScanWord(word, p, content) ==
  IF Matching(word, p) < Len(word) THEN Nothing
  ELSE IF Char(p + Len(word)) \notin ValidAfterValue THEN Error
  ELSE Token("Float", content, p + Len(word))

\* If the characters of "nan" do not match to the end, the scanner for "inf"
\* goes on where they stopped to match.
ScanLiteralFloat(p) ==
  LET q == BehindSign(p)
      nan == ScanWord("nan", q, "nan")
      infinite == ScanWord("inf", q + Matching("nan", q),
                           IF Char(p) = "-" THEN "-inf" ELSE "inf")
  IN
  IF Char(p) \notin FloatLiteralStart THEN Nothing
  ELSE IF nan # Nothing THEN nan
  ELSE infinite

-----------------------------------------------------------------------------
(* Dates and times *)

InRange(number, range) ==
  IF number \in {Nothing, Error} THEN Error
  ELSE IF number.value \notin range THEN Error
  ELSE Found(number.value, number.end)

\* Two digits in a range, behind a separator.
ParsePart(p, range) == InRange(ParseDigits(p, "decimal", 2), range)

DateFrom(year, month, day) ==
  IF day = Error THEN Error
  ELSE IF ~IsValidDate(year, month, day.content) THEN Error
  ELSE Found(DaysSinceEpoch(year, month, day.content), day.end)

DayBehind(year, month) ==
  IF month = Error THEN Error
  ELSE IF Char(month.end) # "-" THEN Error
  ELSE DateFrom(year, month.content, ParsePart(month.end + 1, 1 .. 31))

\* From the fifth character on, it has to be a date.
MonthBehind(year) ==
  IF year = Nothing THEN Nothing
  ELSE IF Char(year.end) # "-" THEN Nothing
  ELSE DayBehind(year.value, ParsePart(year.end + 1, 1 .. 12))

ScanDate(p) == MonthBehind(ParseDigits(p, "decimal", 4))

\* The parts of a time follow one another: what is read, or an error, with
\* the position behind it.
Fraction(number) ==
  IF number = Error THEN Error
  ELSE IF number.digits > FractionDigits THEN Error
  ELSE Found(number.value * 10 ^ (FractionDigits - number.digits), number.end)

FractionAt(p) ==
  IF Char(p) # "." THEN Found(0, p)
  ELSE IF Char(p + 1) \notin DecimalDigit THEN Error
  ELSE Fraction(ParseNumber(p + 1, "decimal", FALSE, FALSE))

PartAt(p, range) ==
  IF Char(p) # ":" THEN Found(0, p) ELSE ParsePart(p + 1, range)

\* Two parts, of which the second one was read behind the first one.
Both(first, second) ==
  IF second = Error THEN Error ELSE Found(<<first, second.content>>, second.end)

FractionBehind(seconds) ==
  IF seconds = Error THEN Error ELSE Both(seconds.content, FractionAt(seconds.end))

SecondsAt(p) ==
  IF Char(p) # ":" THEN Found(<<0, 0>>, p) ELSE FractionBehind(PartAt(p, 0 .. 59))

Offset(isNegative, time) ==
  IF time = Error THEN Error
  ELSE Found(OffsetSeconds(isNegative, time.content[1], time.content[2]), time.end)

MinutesBehind(hours) ==
  IF hours = Error THEN Error ELSE Both(hours.content, PartAt(hours.end, 0 .. 59))

\* Without an offset, it is a local time.  The offset of "z" is zero.
OffsetAt(p) ==
  IF ToLowerCase(Char(p)) = "z" THEN Found(0, p + 1)
  ELSE IF Char(p) \notin PlusOrMinus THEN Found(LocalTimeOffset, p)
  ELSE Offset(Char(p) = "-", MinutesBehind(ParsePart(p + 1, 0 .. 23)))

FullTime(hour, minute, seconds, offset) ==
  IF offset = Error THEN Error
  ELSE Found([count |-> TimeCount(hour, minute, seconds[1], seconds[2], 10 ^ FractionDigits),
              offset |-> offset.content],
             offset.end)

OffsetBehind(hour, minute, seconds) ==
  IF seconds = Error THEN Error
  ELSE FullTime(hour, minute, seconds.content, OffsetAt(seconds.end))

SecondsBehind(hour, minute) ==
  IF hour > 23 \/ minute = Error THEN Error
  ELSE OffsetBehind(hour, minute.content, SecondsAt(minute.end))

\* From the colon on, it has to be a time.
TimeFrom(hour) ==
  IF hour = Nothing THEN Nothing
  ELSE IF Char(hour.end) # ":" THEN Nothing
  ELSE SecondsBehind(hour.value, PartAt(hour.end, 0 .. 59))

ScanTimeValue(p) ==
  LET q == IF ToLowerCase(Char(p)) = "t" THEN p + 1 ELSE p IN
  IF Char(q) \notin DecimalDigit THEN Nothing ELSE TimeFrom(ParseDigits(q, "decimal", 2))

ScanTime(p) ==
  IF Char(p) \notin TimeStart THEN Nothing ELSE AsToken("Time", ScanTimeValue(p))

DateTime(date, time) ==
  IF time = Nothing THEN AsToken("Date", date)
  ELSE IF time = Error THEN Error
  ELSE Token("DateTime", <<date.content, time.content>>, time.end)

\* A time follows behind a space or a "t"; behind a space it can be missing.
TimeBehind(date) ==
  LET separator == ToLowerCase(Char(date.end)) IN
  IF date.is # "found" THEN date
  ELSE IF separator \in {" ", "t"} /\ Char(date.end + 1) \in DecimalDigit
  THEN DateTime(date, ScanTimeValue(date.end + 1))
  ELSE IF separator = "t" THEN Error
  ELSE AsToken("Date", date)

ScanDateOrDateTime(p) ==
  IF Char(p) \notin DecimalDigit THEN Nothing ELSE TimeBehind(ScanDate(p))

-----------------------------------------------------------------------------
(* Literals *)

\* LiteralTables::identifierMap.
Literals ==
  [w \in {"true", "yes", "enabled", "on"} |-> TRUE] @@
  [w \in {"false", "no", "disabled", "off"} |-> FALSE]

\* A word has to be a literal, unless it is the prefix of a time.
ScanLiteral(p) ==
  LET end == Behind(p, Letter)
      identifier == ToLowerCase(Text(p, end))
  IN
  IF Char(p) \notin Letter THEN Nothing
  ELSE IF identifier = "t" /\ Char(end) \in DecimalDigit THEN Nothing
  ELSE IF Char(end) \notin ValidAfterValue \/ identifier \notin DOMAIN Literals THEN Error
  ELSE Token("Boolean", Literals[identifier], end)

-----------------------------------------------------------------------------
(* Texts, code and regular expressions *)

UnicodeCharacter(number, bracket) ==
  IF number \in {Nothing, Error} THEN Error
  ELSE IF bracket /\ (number.digits > 8 \/ Char(number.end) # "}") THEN Error
  ELSE IF ~IsValidEscapeUnicode(number.value) THEN Error
  ELSE Found(CharacterOf(number.value), IF bracket THEN number.end + 1 ELSE number.end)

UnicodeEscape(p) ==
  IF Char(p) # "{" THEN UnicodeCharacter(ParseDigits(p, "hexadecimal", 4), FALSE)
  ELSE IF Char(p + 1) \notin HexDigit THEN Error
  ELSE UnicodeCharacter(ParseNumber(p + 1, "hexadecimal", FALSE, FALSE), TRUE)

TextEscape(p) ==
  LET c == ToLowerCase(Char(p)) IN
  IF c = "u" THEN UnicodeEscape(p + 1)
  ELSE IF c \notin CharsOf("\\\"$tnr") THEN Error
  ELSE Found(CASE c = "t" -> "\t" [] c = "n" -> "\n" [] c = "r" -> "\r" [] OTHER -> c,
             p + 1)

\* Only the slash is unescaped.  A line break is not excluded.
RegexEscape(p) == Found(IF Char(p) = "/" THEN "/" ELSE "\\" \o Char(p), p + 1)

\* The kinds of text, by the character that ends them.
EscapeAt(kind, p) == IF kind = "/" THEN RegexEscape(p) ELSE TextEscape(p)

HasEscapes(kind) == kind # "^"

RECURSIVE ParseString(_, _, _)

ContinueString(terminator, part, text) ==
  IF part = Error THEN Error ELSE ParseString(terminator, part.end, text \o part.content)

\* The rest of a single line text, up to and with the terminator.
ParseString(terminator, p, text) ==
  IF Char(p) \in LineBreakOrEnd THEN Error
  ELSE IF Char(p) = terminator THEN Found(text, p + 1)
  ELSE IF Char(p) # "\\" \/ ~HasEscapes(terminator)
  THEN ParseString(terminator, p + 1, text \o Char(p))
  ELSE IF Char(p + 1) = EndOfData THEN Error
  ELSE ContinueString(terminator, EscapeAt(terminator, p + 1), text)

TextType(kind) ==
  CASE kind = "\"" -> "Text" [] kind = "/" -> "RegEx" [] kind = "^" -> "Code"

ScanSingleLineText(p) ==
  IF Char(p) \notin {"\"", "/", "^"} THEN Nothing
  ELSE AsToken(TextType(Char(p)), ParseString(Char(p), p + 1, ""))

-----------------------------------------------------------------------------
(* Bytes, of which the content is the row of hexadecimal digits. *)

RECURSIVE ParseHexBytes(_, _, _)
\* Pairs of digits, up to one of the characters that end them.
ParseHexBytes(p, ends, digits) ==
  LET q == Behind(p, Spacing) IN
  IF Char(q) \in ends THEN Found(digits, q)
  ELSE IF {Char(q), Char(q + 1)} \subseteq HexDigit
  THEN ParseHexBytes(q + 2, ends, digits \o ToLowerCase(Text(q, q + 2)))
  ELSE Error

\* The end of an identifier for a format or a language, at most 16 characters.
BehindFormat(p) ==
  IF Char(p) \in Letter THEN Behind(p, FormatIdentifierChar) ELSE p

ScanBytes(p) ==
  LET end == BehindFormat(p + 1)
      hasFormat == end - p \in 2 .. 17 /\ Char(end) = ":"
      bytes == ParseHexBytes(IF hasFormat THEN end + 1 ELSE p + 1, {">"}, "")
  IN
  IF Char(p) # "<" THEN Nothing
  ELSE IF hasFormat /\ ToLowerCase(Text(p + 1, end)) # "hex" THEN Error
  ELSE IF bytes = Error THEN Error
  ELSE Token("Bytes", bytes.content, bytes.end + 1)

-----------------------------------------------------------------------------
(* Values *)

\* What the scanners say of a value, in the order in which they are asked.
ScanInOrder(p) ==
  <<ScanLiteralFloat(p), ScanLiteral(p), ScanDateOrDateTime(p), ScanTime(p),
    ScanFloatFractionOnly(p), ScanFloatWithWholePart(p), ScanIntegerOrTimeDelta(p),
    ScanSingleLineText(p), ScanBytes(p)>>

\* The first one that finds something decides.
FirstOf(results) ==
  LET deciding == {i \in DOMAIN results : results[i] # Nothing} IN
  IF deciding = {} THEN Error ELSE results[Min(deciding)]

ExpectSingleLineValue(p) == FirstOf(ScanInOrder(p))

-----------------------------------------------------------------------------
(* Names *)

\* What can follow a name in a section or in front of a value.
SectionNameEnd == NameValueSeparator \cup {".", "]"}

RECURSIVE NameEnd(_, _, _)
\* The end of a name that was read from start to p, or 0 if it is malformed.
\* One character more than allowed is read to notice that a name is too long.
NameEnd(start, p, ends) ==
  LET first == IF Char(p) \in {" ", "_"} THEN p + 1 ELSE p
      next == Min({Behind(first, LetterOrDigit), start + MaxNameLength + 1})
  IN
  IF p - start > MaxNameLength THEN 0
  ELSE IF Char(p) \in ends \cup {"\t"} THEN p
  ELSE IF Char(p) = " " /\ Char(first) \notin LetterOrDigit THEN p
  ELSE IF Char(first) \notin LetterOrDigit THEN 0
  ELSE NameEnd(start, next, ends)

\* The position behind a regular or meta name; 0 if it is malformed.
BehindName(p, ends) ==
  IF Char(p) # "@" THEN NameEnd(p, p, ends)
  ELSE IF Char(p + 1) \in Letter THEN NameEnd(p, p + 1, ends)
  ELSE 0

ExpectRegularOrMetaName(p, ends) ==
  LET end == BehindName(p, ends) IN
  IF end = 0 THEN Error
  ELSE Token(IF Char(p) = "@" THEN "MetaName" ELSE "RegularName",
             ToRegularName(Text(p, end)), end)

TextNameOf(text) ==
  IF text = Error THEN Error
  ELSE IF text.content = "" THEN Error
  ELSE Token("TextName", text.content, text.end)

ExpectTextName(p) == TextNameOf(ParseString("\"", p + 1, ""))

=============================================================================
