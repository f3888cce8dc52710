-------------------------- MODULE MCAssignmentStream --------------------------
(***************************************************************************)
(* Documents for AssignmentStream, composed of fragments of which the      *)
(* meaning is known: values of every type at their limits, layouts of a    *)
(* value, lists, values of several lines, and sequences of lines.          *)
(***************************************************************************)
EXTENDS NamePaths

MCMaxInteger == 32767
MCMaxDigits == "binary" :> 16 @@ "decimal" :> 5 @@ "hexadecimal" :> 8

Doc(text, assignments) == [text |-> text, meaning |-> assignments, wellFormed |-> TRUE]
BadDoc(text) == [text |-> text, meaning |-> <<>>, wellFormed |-> FALSE]

\* A fragment of a value, and one that breaks a rule.
Good(text, type, content) ==
  [text |-> text, value |-> [type |-> type, content |-> content], good |-> TRUE]
Bad(text) == [text |-> text, value |-> "", good |-> FALSE]

\* All pairs of the elements of two sequences, in a sequence.
Pairs(s, t) ==
  [k \in 1 .. Len(s) * Len(t) |->
     <<s[1 + (k - 1) \div Len(t)], t[1 + ((k - 1) % Len(t))]>>]

Mapped(F(_), s) == [i \in DOMAIN s |-> F(s[i])]

Name(text) == <<"Regular", text>>
Assigned(value) == <<[type |-> "Value", path |-> <<Name("a")>>, value |-> value]>>

-----------------------------------------------------------------------------
(* Values of each type *)

Digit(d, base) == CharAt("0123456789ABCDEF", d + 1)

Digits[n \in Nat, base \in {2, 10, 16}] ==
  IF n < base THEN Digit(n, base) ELSE Digits[n \div base, base] \o Digit(n % base, base)

Boundaries == <<0, 1, 9, 10, 255, 3276, 32766, 32767, 32768, 32769, 65535, 65536>>
Signs == <<"", "+", "-">>
Prefixes == <<"", "0x", "0X", "0b">>
BaseOf(prefix) == CASE prefix = "" -> 10 [] prefix = "0b" -> 2 [] OTHER -> 16

Signed(sign, n) == IF sign = "-" THEN -n ELSE n
Fits(i) == i \in -32768 .. 32767

IntegerValue(sign, prefix, n) ==
  LET text == sign \o prefix \o Digits[n, BaseOf(prefix)] IN
  IF Fits(Signed(sign, n)) THEN Good(text, "Integer", Signed(sign, n)) ELSE Bad(text)

Integers ==
  LET F(x) == IntegerValue(x[1][1], x[1][2], x[2]) IN
  Mapped(F, Pairs(Pairs(Signs, Prefixes), Boundaries))

Factors == <<<<"kb", 1000>>, <<"KiB", 1024>>, <<" kib", 1024>>, <<"mb", 1000000>>>>

ByteCount(sign, n, unit) ==
  LET text == sign \o ToString(n) \o unit[1] IN
  IF Fits(Signed(sign, n) * unit[2])
  THEN Good(text, "Integer", Signed(sign, n) * unit[2]) ELSE Bad(text)

ByteCountValues ==
  LET F(x) == ByteCount(x[1][1], x[1][2], x[2]) IN
  Mapped(F, Pairs(Pairs(Signs, <<0, 1, 31, 32, 33>>), Factors))

Numbers ==
  <<Good("1'000", "Integer", 1000), Good("0xA'b", "Integer", 171),
    Bad("1''0"), Bad("1'"), Bad("'1"), Bad("007"), Bad("0x"), Bad("0b2"), Bad("+"),
    Bad("--1"), Bad("1kbs"), Bad("1  kb"), Bad("1k"), Bad("1zb"), Bad("12x"),
    Good("1s", "TimeDelta", <<1, "Seconds">>), Good("-5 Days", "TimeDelta", <<-5, "Days">>),
    Good("20 us", "TimeDelta", <<20, "Microseconds">>),
    Good("0m", "TimeDelta", <<0, "Minutes">>), Bad("1.5 s"), Bad("32768 s"),
    Good("1.", "Float", "1."), Good("+.5", "Float", ".5"), Good("-1.25", "Float", "-1.25"),
    Good("1'0.2'5", "Float", "10.25"), Good("2e3", "Float", "2e3"),
    Good("1.5E-12", "Float", "1.5E-12"), Good("12.34", "Float", "12.34"),
    Good("1234.", "Float", "1234."), Good("1234e1", "Float", "1234e1"),
    Bad("12.345"), Bad("12345.0"), Bad("12345e1"), Bad("1e123"), Bad("1e"), Bad("1e+"),
    Bad("."), Bad("01.5"), Bad("1.5x"), Bad("1.'5"), Bad("0x1.5"),
    Good("0.5", "Float", "0.5"), Good("0e0", "Float", "0e0"),
    Good("NaN", "Float", "nan"), Good("+nan", "Float", "nan"), Good("inf", "Float", "inf"),
    Good("-Inf", "Float", "-inf"), Bad("nano"), Bad("infinite"), Bad("-"), Bad("i")>>

Words2 ==
  <<Good("true", "Boolean", TRUE), Good("YES", "Boolean", TRUE), Good("on", "Boolean", TRUE),
    Good("Enabled", "Boolean", TRUE), Good("false", "Boolean", FALSE),
    Good("no", "Boolean", FALSE), Good("off", "Boolean", FALSE),
    Good("disabled", "Boolean", FALSE), Bad("maybe"), Bad("yesno"), Bad("true."),
    Bad("none"), Bad("t")>>

Local(h, m, s, f) == <<h, m, s, f, "local">>
At0(h, m, offset) == <<h, m, 0, 0, offset>>

Dates ==
  <<Good("2024-02-29", "Date", <<2024, 2, 29>>), Bad("2023-02-29"), Bad("1900-02-29"),
    Good("2000-02-29", "Date", <<2000, 2, 29>>), Good("0001-12-31", "Date", <<1, 12, 31>>),
    Bad("2024-04-31"), Bad("2024-13-01"), Bad("2024-00-01"), Bad("2024-01-00"),
    Good("0001-01-01", "Date", <<1, 1, 1>>), Good("0004-02-29", "Date", <<4, 2, 29>>),
    Good("0100-12-31", "Date", <<100, 12, 31>>), Good("1900-03-01", "Date", <<1900, 3, 1>>),
    Good("2000-12-31", "Date", <<2000, 12, 31>>), Good("2001-01-01", "Date", <<2001, 1, 1>>),
    Good("9999-12-31", "Date", <<9999, 12, 31>>), Bad("0000-01-01"), Bad("2024-1-01"), Bad("2024-01"), Bad("20240-01-01"),
    Good("12:30", "Time", Local(12, 30, 0, 0)), Good("t23:59:59", "Time", Local(23, 59, 59, 0)),
    Good("T00:00:00.1", "Time", Local(0, 0, 0, 100)),
    Good("01:02:03.004", "Time", Local(1, 2, 3, 4)), Bad("01:02:03.0004"), Bad("01:02:03."),
    Bad("24:00"), Bad("12:60"), Bad("12:30:60"), Bad("1:30"), Bad("12:3"), Bad("12:30x"),
    Good("12:30z", "Time", At0(12, 30, <<"+", 0, 0>>)),
    Good("12:30+01", "Time", At0(12, 30, <<"+", 1, 0>>)),
    Good("12:30-05:30", "Time", At0(12, 30, <<"-", 5, 30>>)), Bad("12:30+24"), Bad("12:30+23:60"),
    Good("12:30-00:00", "Time", At0(12, 30, <<"+", 0, 0>>)),
    Good("23:59-23:59", "Time", At0(23, 59, <<"-", 23, 59>>)),
    Good("12:30-00:30", "Time", At0(12, 30, <<"-", 0, 30>>)), Bad("12:30+1"),
    Good("2024-01-31 12:30", "DateTime", <<<<2024, 1, 31>>, Local(12, 30, 0, 0)>>),
    Good("2024-01-31T12:30Z", "DateTime", <<<<2024, 1, 31>>, At0(12, 30, <<"+", 0, 0>>)>>),
    Bad("2024-01-31t"), Bad("2024-01-31 25:00"), Bad("2024-01-31 x"), Bad("t12")>>

Texts ==
  <<Good("\"\"", "Text", ""), Good("\"a b\"", "Text", "a b"), Good("\"#,\"", "Text", "#,"),
    Good("\"\\n\\T\\\"\\\\\\$\"", "Text", "\n\t\"\\$"), Good("\"\\u0041\"", "Text", "A"),
    Good("\"\\u{7e}\"", "Text", "~"), Good("\"\\U{0000007E}\"", "Text", "~"),
    Bad("\"\\u{00000007E}\""), Bad("\"\\u{}\""), Bad("\"\\u004\""), Bad("\"\\u{d800}\""),
    Bad("\"\\u0000\""), Bad("\"\\u{110000}\""), Bad("\"\\u{41\""), Bad("\"\\x\""),
    Bad("\"a"), Bad("\"a\\"), Bad("\"a\" b"),
    Good("^a\\n\"^", "Text", "a\\n\""), Bad("^a"), Good("/a\\/\\d/", "RegEx", "a/\\d"),
    Good("/\\\\/", "RegEx", "\\\\"), Bad("/a"), Bad("/a\\/"),
    Good("<>", "Bytes", ""), Good("< 0A fF >", "Bytes", "0aff"),
    Good("<hex: 00>", "Bytes", "00"), Good("<HEX:>", "Bytes", ""), Bad("<0 a>"),
    Bad("<0a0>"), Bad("<bin: 00>"), Bad("<0a"), Bad("<0g>"), Bad("<hexhexhexhexhexhe:00>"),
    Good("<ab>", "Bytes", "ab"), Bad("?"), Bad("")>>

Values == Integers \o ByteCountValues \o Numbers \o Words2 \o Dates \o Texts

\* Each value at the end of the data, of a line, and in front of a comment.
ValueDocuments ==
  LET F(x) == IF x[1].good THEN Doc("a: " \o x[1].text \o x[2], Assigned(x[1].value))
              ELSE BadDoc("a: " \o x[1].text \o x[2])
  IN
  Mapped(F, Pairs(Values, <<"", "\n", " # c", "\r\n\n">>))

-----------------------------------------------------------------------------
(* Layouts of names and values *)

One == [type |-> "Integer", content |-> 1]

NamedDoc(text, name) ==
  Doc(text, <<[type |-> "Value", path |-> <<name>>, value |-> One]>>)

LayoutDocuments ==
  Mapped(LAMBDA text : Doc(text, Assigned(One)),
    <<"a:1", "a : 1", "A= 1", "a\t=\t1", "a:\n 1", "a: # c\n\t1", "a =\r\n \t1\r\n",
      "a:\n  1 # c\n", "\n \n# c\r\na: 1\n  # c\n">>)
  \o Mapped(BadDoc,
    <<"a:\n1", "a:\n\n 1", "a:", "a", "a: \n", "a:\n ", " a: 1", "a:\r 1", "a: 1\r",
      "a: 1 2", "a: 1 b: 2", "a:: 1", "a.b: 1", ": 1", "1: 1", "a__b: 1", "a_: 1", "_a: 1",
      "a  b: 1", "a-b: 1", "\"\": 1", "\"a: 1", "abcdefghijk: 1", "a\n: 1", "*", "!",
      "a: # c", "a: ^^^\n", "a: * 1">>)
  \o Mapped(LAMBDA n : NamedDoc(n[1], n[2]),
    <<<<"A_b: 1", Name("a_b")>>, <<"Ab C: 1", Name("ab_c")>>, <<"a1: 1", Name("a1")>>,
      <<"abcdefghij: 1", Name("abcdefghij")>>, <<"\"x y\": 1", <<"Text", "x y">>>>,
      <<"\"\\u0041\" = 1", <<"Text", "A">>>>>>)

-----------------------------------------------------------------------------
(* Lists *)

Elements ==
  <<Good("1", "Integer", 1), Good("\"a, b\"", "Text", "a, b"), Good("1 s", "TimeDelta", <<1, "Seconds">>),
    Good("2024-01-31", "Date", <<2024, 1, 31>>), Bad("1s2"), Bad(""), Bad("* 1")>>

List(items) == [type |-> "ValueList", content |-> items]

\* Two elements as one value, around a separator.
Separated(x, separator) ==
  [text |-> x[1].text \o separator \o x[2].text,
   value |-> List(<<x[1].value, x[2].value>>),
   good |-> x[1].good /\ x[2].good /\ separator # " ;"]

ElementPairs == Pairs(Elements, Elements)

Lists ==
  Mapped(LAMBDA x : Separated(x[1], x[2]),
         Pairs(ElementPairs, <<",", " ,\t", " ;">>))

ListDocument(text, x) ==
  IF x.good THEN Doc(text, Assigned(x.value)) ELSE BadDoc(text)

\* Lists in a line, and lists of bullets: each bullet holds a value or a list.
ListDocuments ==
  Mapped(LAMBDA x : ListDocument("a: " \o x.text \o "\n", x), Lists)
  \o Mapped(LAMBDA x : ListDocument("a:\n  *" \o x.text \o " # c", x), Lists)
  \o Mapped(LAMBDA x : ListDocument("a:\n\t* " \o x[1].text \o "\n\t* " \o x[2].text,
                                   [value |-> List(<<x[1].value, x[2].value>>),
                                    good |-> x[1].good /\ x[2].good]),
            Pairs(Elements \o Lists, Elements))
  \o Mapped(LAMBDA x : ListDocument("a:\n  * 1" \o x.text, x),
    <<[text |-> "\n  ", value |-> One, good |-> TRUE],
      [text |-> "\n  # c\n  ", value |-> One, good |-> TRUE],
      [text |-> "\n", value |-> One, good |-> TRUE],
      [text |-> "\n\n  * 2", value |-> One, good |-> FALSE],
      [text |-> "\n * 2", value |-> One, good |-> FALSE],
      [text |-> "\n   * 2", value |-> One, good |-> FALSE],
      [text |-> "\n\t* 2", value |-> One, good |-> FALSE],
      [text |-> "\n  2", value |-> One, good |-> FALSE],
      [text |-> ",\n  2", value |-> One, good |-> FALSE]>>)

-----------------------------------------------------------------------------
(* Values of several lines *)

Kinds == <<"\"", "^", "/", "<">>
KindType(kind) == CASE kind = "/" -> "RegEx" [] kind = "<" -> "Bytes" [] OTHER -> "Text"

\* What the bodies of a line mean for each kind, Bad if they are malformed.
Bodies == <<"", "ab", "ab # c", "a\\/", "ab \t">>

BodyMeaning(kind, body) ==
  CASE body = "ab # c" -> IF kind \in {"\"", "^"} THEN "ab # c" ELSE "ab"
    [] body = "ab \t"  -> "ab"
    [] body = "a\\/"   -> IF kind = "/" THEN "a/" ELSE "a\\/"
    [] OTHER           -> body

BodyIsGood(kind, body) == body = "a\\/" => kind \in {"^", "/"}

\* A line of a text: its indentation and its body.
Row(x) == [indent |-> x[1], body |-> x[2]]
Rows == Mapped(Row, Pairs(<<0, 1, 2>>, Bodies))
FewRows == Mapped(Row, Pairs(<<0, 2>>, <<"", "ab">>))

Spaces(n) == SubSeq("   ", 1, n)

\* The first indented row sets the pattern for those behind it.
Pattern(rows) ==
  LET indented == {i \in DOMAIN rows : rows[i].indent > 0} IN
  IF indented = {} THEN 0 ELSE rows[Min(indented)].indent

RowIsGood(kind, rows, row) ==
  /\ BodyIsGood(kind, row.body)
  /\ row.indent = 0 => row.body = ""
  /\ row.indent > 0 => row.indent >= Pattern(rows)

RowMeaning(kind, rows, row) ==
  (IF kind = "<" \/ row.body = "" THEN "" ELSE Spaces(row.indent - Pattern(rows)))
    \o BodyMeaning(kind, row.body)

RECURSIVE Lined(_, _, _)
\* The text of the rows, and what they mean.
Lined(parts, separator, i) ==
  IF i > Len(parts) THEN ""
  ELSE (IF i = 1 THEN "" ELSE separator) \o parts[i] \o Lined(parts, separator, i + 1)

MultiLineDoc(kind, opened, rows, closing) ==
  LET all == Append(rows, [indent |-> closing, body |-> ""])
      sequence == kind \o kind \o kind
      lines == Mapped(LAMBDA row : Spaces(row.indent) \o row.body \o "\n", rows)
      meanings == Mapped(LAMBDA row : RowMeaning(kind, all, row), rows)
      text == "a:" \o opened \o sequence \o "\n" \o Lined(lines, "", 1) \o Spaces(closing)
              \o (IF kind = "<" THEN ">>>" ELSE sequence) \o "\n"
      isGood == closing > 0 /\ closing = Pattern(all)
                /\ \A i \in DOMAIN rows : RowIsGood(kind, all, rows[i])
      content == Lined(meanings, IF kind = "<" THEN "" ELSE "\n", 1)
  IN
  IF isGood THEN Doc(text, Assigned([type |-> KindType(kind), content |-> content]))
  ELSE BadDoc(text)

RowSequences ==
  <<<<>>>> \o Mapped(LAMBDA r : <<r>>, Rows) \o Pairs(Rows, Rows)
  \o Mapped(LAMBDA x : <<x[1][1], x[1][2], x[2]>>, Pairs(Pairs(FewRows, FewRows), FewRows))

TextValue(text) == Assigned([type |-> "Text", content |-> text])

MultiLineDocuments ==
  Mapped(LAMBDA x : MultiLineDoc(x[1], " ", x[2], 2), Pairs(Kinds, RowSequences))
  \o Mapped(LAMBDA x : MultiLineDoc(x[1], "\n  ", <<Row(x[2])>>, 2),
            Pairs(Kinds, Pairs(<<2>>, Bodies)))
  \o Mapped(LAMBDA kind : MultiLineDoc(kind, " ", <<>>, 0), Kinds)
  \o Mapped(LAMBDA text : Doc(text, TextValue("b")),
       <<"a: \"\"\" # c\n b\n \"\"\"# c", "a: ^^^cpp\n b\n ^^^", "a: ^^^c-1 # c\n b\n ^^^\r\n",
         "a: \"\"\"\r\n\tb \r\n\t\"\"\"\r\n">>)
  \o <<Doc("a: <<<hex # c\n ab cd\n ef # c\n >>>",
           Assigned([type |-> "Bytes", content |-> "abcdef"]))>>
  \o Mapped(BadDoc,
       <<"a: \"\"\"b\n \"\"\"", "a: <<<bin\n >>>", "a: <<<hex\n", "a: ^^^abcdefghijklmnopq\n b\n ^^^",
         "a: \"\"\"\n b\n", "a: \"\"\"\n b\n \"\"\" c", "a: \"\"\"\n b\n \"\"\", 1",
         "a: \"\"\"\n b \"\"\"", "a: \"\"\"\n\tb\n \"\"\"", "a: \"\"\"", "a: <<<\n a\n b\n >>>",
         "a: \"\"\"\n \\u{1\n \"\"\"", "a: ^^^cpp", "a: 1, \"\"\"\n b\n \"\"\"">>)

-----------------------------------------------------------------------------
(* Sequences of lines *)

Line(kind, text, type, path) == [kind |-> kind, text |-> text, type |-> type, path |-> path]
Section(kind, text, path) == Line(kind, text, "SectionMap", path)
Meta(kind, text, name, content) ==
  [Line(kind, text, "MetaValue", <<Name(name)>>) EXCEPT !.kind = kind]
    @@ [value |-> [type |-> "Text", content |-> content]]

Lines ==
  <<Section("absolute", "[a]", <<Name("a")>>),
    Line("absolute", "---*[ \"t\" . b ]*---", "SectionList", <<<<"Text", "t">>, Name("b")>>),
    Section("relative", "[.C c]", <<Name("c_c")>>),
    Section("relative", "[ . d.\"e\"] # c", <<Name("d"), <<"Text", "e">>>>),
    Line("value", "x: 1", "Value", <<Name("x")>>),
    Line("value", "\"x\"=\n 1", "Value", <<<<"Text", "x">>>>),
    Meta("version", "@version: \"1.0\"", "@version", "1.0"),
    Meta("features", "@Features: \"core  CODE\"", "@features", "core  CODE"),
    Meta("signature", "@signature: \"s\" # c", "@signature", "s"),
    Meta("include", "@include: \"i\"", "@include", "i"),
    Line("empty", "# c", "", <<>>),
    Line("empty", " \t", "", <<>>),
    Line("bad", "[a.]", "", <<>>),
    Line("bad", "[a.b.c.d]", "", <<>>)>>

BadLines ==
  <<"[]", "[.]", "[ ]", "[a", "[a]*", "*[a", "*[", "-", "*", "[a]b", "[a b.c_]", "[a..b]", "[@a]",
    "[\"\"]", "[\"a]", "[a]\n[.b.]", "@version: \"2.0\"", "@version: 1.0", "@unknown: \"x\"",
    "@features: \"core x\"", "@features: \"core, code\"", "@include: \"a\", \"b\"", "@include:\n \"a\"",
    "@: \"a\"", "@include", "@version:", "[a.b.c.]", "[.a]", "[a]\n[.b.c.d.e]", "* [a]", "--[a]- -">>

Last(numbers) == IF numbers = {} THEN 0 ELSE Max(numbers)

\* The last absolute section that an include does not separate from line i.
AbsoluteSectionAt(lines, i) ==
  Last({j \in 1 .. i : lines[j].kind = "absolute" /\ \A k \in j .. i : lines[k].kind # "include"})

SectionAt(lines, i) ==
  Last({j \in 1 .. i : /\ lines[j].kind \in {"absolute", "relative"}
                       /\ \A k \in j .. i : lines[k].kind # "include"})

SectionPath(lines, j) ==
  IF lines[j].kind = "absolute" THEN lines[j].path
  ELSE lines[AbsoluteSectionAt(lines, j)].path \o lines[j].path

LineIsGood(lines, i) ==
  LET kind == lines[i].kind IN
  /\ kind # "bad"
  /\ kind = "relative" => AbsoluteSectionAt(lines, i) # 0
  /\ kind = "signature" => i = 1
  /\ kind \in {"version", "features"} =>
       \A j \in 1 .. i - 1 : lines[j].kind \notin {kind, "absolute", "relative"}

LineMeaning(lines, i) ==
  LET line == lines[i]
      section == SectionAt(lines, i)
  IN
  CASE line.kind = "empty" -> <<>>
    [] line.kind = "value" ->
         <<[type |-> "Value", value |-> One,
            path |-> (IF section = 0 THEN <<>> ELSE SectionPath(lines, section)) \o line.path]>>
    [] line.kind \in {"absolute", "relative"} ->
         <<[type |-> line.type, path |-> SectionPath(lines, i), value |-> ""]>>
    [] OTHER -> <<[type |-> line.type, path |-> line.path, value |-> line.value]>>

RECURSIVE LineMeanings(_, _)
LineMeanings(lines, i) ==
  IF i > Len(lines) THEN <<>> ELSE LineMeaning(lines, i) \o LineMeanings(lines, i + 1)

LinesDoc(lines, end) ==
  LET text == Lined(Mapped(LAMBDA line : line.text, lines), "\n", 1) \o end IN
  IF \A i \in DOMAIN lines : LineIsGood(lines, i) THEN Doc(text, LineMeanings(lines, 1))
  ELSE BadDoc(text)

LineDocuments ==
  <<Doc("", <<>>)>> \o Mapped(BadDoc, BadLines)
  \o Mapped(LAMBDA text : BadDoc(text \o "\n"), BadLines)
  \o Mapped(LAMBDA line : LinesDoc(<<line>>, ""), Lines)
  \o Mapped(LAMBDA x : LinesDoc(x, ""), Pairs(Lines, Lines))
  \o Mapped(LAMBDA x : LinesDoc(<<x[1][1], x[1][2], x[2]>>, "\n"), Pairs(Pairs(Lines, Lines), Lines))

-----------------------------------------------------------------------------
(* Sections with names of each kind *)

TextName(text) == <<"Text", text>>

\* A name and what it means; an empty meaning for one that breaks a rule.
NameFragments ==
  <<<<"a", Name("a")>>, <<"A b", Name("a_b")>>, <<"a_1", Name("a_1")>>, <<"\"x\"", TextName("x")>>,
    <<"\".[\"", TextName(".[")>>, <<"\"\\u{5c}\\\"\"", TextName("\\\"")>>, <<"\"\\t\"", TextName("\t")>>,
    <<"\"\\n\"", TextName("\n")>>, <<"\"\\u{c}\"", TextName("\f")>>, <<"\"\\u00e9\"", TextName("?")>>,
    <<"a_", "">>, <<"_a", "">>, <<"1", "">>, <<"a__b", "">>, <<"\"\"", "">>, <<"\"x", "">>,
    <<"@a", "">>, <<"@_a", "">>, <<"a-", "">>, <<"[0]", "">>>>

NameSeparators == <<<<".", TRUE>>, <<" .\t", TRUE>>, <<"..", FALSE>>, <<"[", FALSE>>>>
Indents == <<"", " ", "\t">>

SectionDoc(text, names, separated) ==
  IF separated /\ \A i \in DOMAIN names : names[i] # ""
  THEN Doc("[" \o text \o "]", <<[type |-> "SectionMap", path |-> names, value |-> ""]>>)
  ELSE BadDoc("[" \o text \o "]")

OneName(indent, fragment) == SectionDoc(indent \o fragment[1] \o indent, <<fragment[2]>>, TRUE)
TwoNames(first, second, separator) ==
  SectionDoc(first[1] \o separator[1] \o second[1], <<first[2], second[2]>>, separator[2])

SectionDocuments ==
  Mapped(LAMBDA x : OneName(x[1], x[2]), Pairs(Indents, NameFragments))
  \o Mapped(LAMBDA x : TwoNames(x[1][1], x[1][2], x[2]),
            Pairs(Pairs(NameFragments, NameFragments), NameSeparators))

-----------------------------------------------------------------------------

MCDocuments ==
  ValueDocuments \o LayoutDocuments \o ListDocuments \o MultiLineDocuments \o LineDocuments
  \o SectionDocuments

=============================================================================
