-------------------------- MODULE MCDocumentValidator --------------------------
(* Rules and documents for DocumentValidator: trees of rules that pass the     *)
(* tests of their definition, and every way to leave out values of a document  *)
(* or to give them other contents.                                             *)
EXTENDS DocumentValidator

-----------------------------------------------------------------------------
(* Rules.                                                                      *)

R(path, type) == NewRule(path, SelectSeq(path, LAMBDA n : ~IsIndexName(n)), type)
Optional(rule) == [rule EXCEPT !.optional = TRUE]
Default(rule, type, content) == [rule EXCEPT !.default = [type |-> type, content |-> content]]
For(rule, v) == [rule EXCEPT !.versions = <<VersionRange(v, v)>>]
Limit(rule, name, n) ==
  AddOrOverwriteConstraint(rule, Constraint(name, IF rule.type = "ValueMatrix" THEN "Matrix" ELSE "Integer", n))
Refers(rule, references) == AddOrOverwriteConstraint(rule, Constraint("key", "Key", references))
Alt(rule) == [alternative |-> rule]

Tree(items) ==
  FoldLeft(LAMBDA tree, item : IF "alternative" \in DOMAIN item THEN AddAlternativeRule(tree, item.alternative)
                               ELSE AddRule(tree, item), InitialRules, items)
WithKeys(tree, path, keys) ==
  [tree EXCEPT ![IF path = <<>> THEN Root ELSE RuleForNamePath(tree, path)].keys = keys]
WithDependency(tree, path, mode, source, target) ==
  [tree EXCEPT ![IF path = <<>> THEN Root ELSE RuleForNamePath(tree, path)].dependencies =
     <<[mode |-> mode, sources |-> <<source>>, targets |-> <<target>>]>>]
IsAcceptedTree(tree) == \A r \in DOMAIN tree : AcceptsRule(tree, r)

-----------------------------------------------------------------------------
(* Documents.                                                                  *)

N(path, type, content) == [path |-> path, type |-> type, content |-> content, isDefault |-> FALSE, rule |-> NoRule]
Num(path, n) == N(path, "Integer", n)
Txt(path, text) == N(path, "Text", text)
Sec(path) == N(path, "SectionWithNames", 0)
List(path) == N(path, "SectionList", 0)
Entry(type, content) == [type |-> type, content |-> content]
Opt(nodes) == {<<>>} \cup {<<n>> : n \in nodes}
IsDocument(doc) ==
  \A i \in DOMAIN doc : doc[i].path # <<>> =>
    /\ \E j \in 1..(i - 1) : doc[j].path = Front(doc[i].path) /\ doc[j].type \in StructuralTypes
    /\ Last(doc[i].path) = "[1]" => \E j \in 1..(i - 1) : doc[j].path = Append(Front(doc[i].path), "[0]")
Docs(choices) == {doc \in {<<N(<<>>, "Document", 0)>> \o FlattenSeq(c) : c \in choices} : IsDocument(doc)}
Instance(trees, docs) == {[rules |-> t, document |-> d] : t \in {u \in trees : IsAcceptedTree(u)}, d \in docs}

a == <<"a">>
s == <<"s">>
l == <<"l">>
sx == <<"s", "x">>

\* Defaults that come and go with the version, deep under a section that is limited in size.
Defaults ==
  Instance(
    {Tree(<<Default(For(R(a, "Integer"), 0), "Integer", 1), section, entry>> \o inV1) :
      section \in {Limit(R(s, "Section"), "maximum", <<1>>), For(R(s, "Section"), 0), Optional(R(s, "Section"))},
      entry \in {For(Default(R(sx, "Integer"), "Integer", 2), 1), For(Default(R(sx, "Integer"), "Integer", 2), 0),
                 Default(R(sx, "Value"), "Text", <<"a">>)},
      inV1 \in {<<>>, <<R(<<"vr_any">>, "NotValidated")>>, <<Default(R(<<"s", "y">>, "Integer"), "Integer", 3)>>}},
    Docs({<<n1, n2, n3, n4>> :
      n1 \in Opt({Num(a, 7), Txt(a, <<>>)}), n2 \in Opt({Sec(s)}), n3 \in Opt({Num(sx, 3)}),
      n4 \in Opt({Num(<<"s", "y">>, 3)})}))

\* The same name with two rules, one of them not validated.
Unvalidated ==
  Instance(
    {Tree(<<For(R(s, "Section"), 0), Default(R(sx, "Integer"), "Integer", 2), For(R(s, "NotValidated"), v)>>) : v \in {0, 1}},
    Docs({<<n1, n2, n3>> : n1 \in Opt({Sec(s), Num(s, 1)}), n2 \in Opt({Num(sx, 3)}), n3 \in Opt({Num(<<"s", "y">>, 3)})}))

Lists ==
  Instance(
    {Tree(<<Limit(R(l, type), limit[1], limit[2])>> \o entries) :
      type \in {"ValueList", "ValueMatrix"},
      limit \in {<<"minimum", <<2, 2>>>>, <<"maximum", <<1, 1>>>>, <<"multiple", <<2, 1>>>>},
      entries \in {<<Limit(R(Append(l, "vr_entry"), "Integer"), "maximum", <<2>>)>>,
                   <<Alt(R(Append(l, "vr_entry"), "Text")), Alt(Limit(R(Append(l, "vr_entry"), "Integer"), "equals", <<2>>))>>}},
    Docs({<<n1>> : n1 \in Opt({Num(l, 2), N(l, "Boolean", TRUE), Sec(l),
      N(l, "ValueList", <<Entry("Integer", 2), Entry("Integer", 1)>>), N(l, "ValueList", <<Entry("Integer", 2)>>),
      N(l, "ValueList", <<Entry("ValueList", <<Entry("Integer", 2), Entry("Integer", 2)>>), Entry("Integer", 3)>>),
      N(l, "ValueList", <<Entry("ValueList", <<Entry("Integer", 2), Entry("Text", <<>>)>>),
                          Entry("ValueList", <<Entry("Integer", 2), Entry("Integer", 1)>>)>>)})}))

Alternatives ==
  Instance(
    {Tree(<<Alt(first), Alt(second), Alt(R(a, "Section")), R(<<"a", "[2]", "x">>, "Integer")>>) :
      first \in {Optional(R(a, "Integer")), For(Optional(R(a, "Integer")), 1), Limit(R(a, "Integer"), "minimum", <<3>>)},
      second \in {Default(R(a, "Integer"), "Integer", 2), For(Default(R(a, "Text"), "Text", <<"a">>), 0), R(a, "ValueList")}},
    Docs({<<n1, n2>> : n1 \in Opt({Num(a, 1), Num(a, 4), Txt(a, <<>>), Sec(a)}), n2 \in Opt({Num(<<"a", "x">>, 1)})}))

\* Names: any name that is not known, limited in length.
Names ==
  Instance(
    {Tree(<<R(s, "Section"), R(<<"s", "vr_any">>, any), Limit(R(<<"s", "vr_any", "vr_name">>, "Text"), "maximum", <<1>>)>> \o known) :
      any \in {"Integer", "Section"},
      known \in {<<>>, <<Optional(R(sx, "Integer"))>>, <<For(R(<<"s", "long">>, "Integer"), 1)>>}},
    Docs({<<<<Sec(s)>>, n1, n2>> : n1 \in Opt({Num(sx, 1), Sec(sx)}), n2 \in Opt({Num(<<"s", "long">>, 1), Sec(<<"s", "long">>)})}))

\* Indexes with the same name in the root and in a section, and references from another.
K(name, keys, caseSensitive) == [name |-> name, keys |-> keys, caseSensitive |-> caseSensitive]
e(path) == path \o <<"l", "vr_entry">>
KeyRules(path, type) ==
  <<R(Append(path, "l"), "SectionList"), R(e(path), "Section"), Optional(R(Append(e(path), "k"), type)),
    Default(R(Append(e(path), "m"), "Text"), "Text", <<"b">>)>>
One(path) == <<l \o <<"vr_entry", "k">>>>
Two(path) == <<l \o <<"vr_entry", "k">>, l \o <<"vr_entry", "m">>>>
Keys ==
  Instance(
    {WithKeys(WithKeys(Tree(KeyRules(<<>>, type) \o <<Optional(R(a, "Section"))>> \o KeyRules(a, type)
                            \o <<Optional(Refers(R(<<"a", "r">>, "Text"), <<<<"i">>>>))>>
                            \o <<Optional(Refers(R(<<"r">>, "Text"), reference)),
                                 Optional(R(<<"t">>, "ValueList")), Refers(R(<<"t", "vr_entry">>, "Text"), reference)>>),
                       <<>>, <<K("i", inRoot, caseSensitive)>>), a, <<K("i", inA, FALSE)>>) :
      type \in {"Text"}, inRoot \in {One(<<>>), Two(<<>>)}, inA \in {One(a)}, caseSensitive \in BOOLEAN,
      reference \in {<<<<"i">>>>, <<<<"i", "[0]">>>>, <<<<"i", "[1]">>, <<"i">>>>}},
    Docs({<<<<List(l), Sec(<<"l", "[0]">>)>>, n1, n2, <<Sec(a), List(<<"a", "l">>), Sec(<<"a", "l", "[0]">>)>>, n3, n4, n5>> :
      n1 \in Opt({Txt(<<"l", "[0]", "k">>, <<"a">>)}),
      n2 \in {<<>>, <<Sec(<<"l", "[1]">>), Txt(<<"l", "[1]", "k">>, <<"A">>)>>,
              <<Sec(<<"l", "[1]">>), Txt(<<"l", "[1]", "k">>, <<"A">>), Txt(<<"l", "[1]", "m">>, <<"c">>)>>},
      n3 \in Opt({Txt(<<"a", "l", "[0]", "k">>, <<"b">>)}),
      n4 \in Opt({Txt(<<"a", "r">>, <<"b">>)}),
      n5 \in {<<Txt(<<"r">>, t)>> : t \in {<<"a">>, <<"A">>, <<"b">>, <<"a", ",", "b">>, <<"a", ",", "c">>}}
             \cup {<<N(<<"t">>, "ValueList", <<Entry("Text", <<"a">>), Entry("Text", <<"b">>)>>)>>}}))

Dependencies ==
  Instance(
    {WithDependency(Tree(<<R(s, "Section"), Optional(R(sx, "Integer")), y>>), s, mode, <<"x">>, <<"y">>) :
      y \in {Optional(R(<<"s", "y">>, "Integer")), Default(R(<<"s", "y">>, "Integer"), "Integer", 1)},
      mode \in {"if", "if_not", "or", "xor", "xnor", "and"}},
    Docs({<<<<Sec(s)>>, n1, n2>> : n1 \in Opt({Num(sx, 1)}), n2 \in Opt({Num(<<"s", "y">>, 1)})}))

\* Dependencies of the root.
RootDependencies ==
  Instance({WithDependency(Tree(<<Optional(R(a, "Integer")), Optional(R(s, "Section")), Optional(R(sx, "Integer"))>>),
                           <<>>, mode, a, sx) : mode \in {"if", "xor"}},
           Docs({<<n1, n2, n3>> : n1 \in Opt({Num(a, 1)}), n2 \in Opt({Sec(s)}), n3 \in Opt({Num(sx, 1)})}))

\* Rules where they cannot be meant: below a scalar, and an alternative that is not validated.
Stray ==
  Instance(
    {Tree(<<R(a, "Integer"), below>>) :
      below \in {Default(R(<<"a", "x">>, "Integer"), "Integer", 1), Optional(R(<<"a", "x">>, "Integer")),
                 Limit(R(<<"a", "vr_name">>, "Text"), "maximum", <<1>>)}}
    \cup {Tree(<<Alt(Optional(R(a, "Integer"))), Alt(R(a, "NotValidated"))>> \o below) :
      below \in {<<>>, <<Optional(R(<<"a", "[1]", "x">>, "Integer"))>>}},
    Docs({<<n1, n2>> : n1 \in Opt({Num(a, 7), Txt(a, <<>>), N(a, "ValueList", <<Entry("Integer", 2)>>), Sec(a)}),
                       n2 \in Opt({Num(<<"a", "x">>, 3)})}))

\* Two rules for the same name, as templates make them: the second one is always missing.
Doubled ==
  Instance(
    {WithDependency(WithKeys(Tree(<<R(s, "Section"), Optional(R(sx, "SectionList")), R(<<"s", "x", "vr_entry">>, "Section"),
                                    Optional(R(<<"s", "x", "vr_entry", "k">>, "Text")), Optional(R(<<"s", "y">>, "Text")),
                                    second>>),
                             s, <<K("", <<<<"x", "vr_entry", "k">>>>, FALSE)>>), s, "if", <<"y">>, <<"x">>) :
      second \in {For(Default(R(sx, "Text"), "Text", <<"a">>), 0), Default(R(<<"s", "y">>, "Text"), "Text", <<"a">>)}},
    Docs({<<<<Sec(s)>>, n1, n2, n3>> :
      n1 \in Opt({List(sx)}),
      n2 \in {<<>>, <<Sec(<<"s", "x", "[0]">>), Txt(<<"s", "x", "[0]", "k">>, <<"a">>),
                      Sec(<<"s", "x", "[1]">>), Txt(<<"s", "x", "[1]", "k">>, <<"a">>)>>},
      n3 \in Opt({Txt(<<"s", "y">>, <<"b">>)})}))

NoRules == {[rules |-> InitialRules, document |-> d] : d \in Docs({<<n1>> : n1 \in Opt({Num(a, 1)})})}

MCInstances == Defaults \cup Unvalidated \cup Lists \cup Alternatives \cup Names \cup Keys \cup Dependencies \cup Stray \cup Doubled \cup NoRules
MCRootDependencies == RootDependencies

MCAlphabet == <<"a", "b", "c", "A", ",">>
MCLowerCase == [x \in {"A"} |-> "a"]
MCIndexNames == <<"[0]", "[1]", "[2]">>
MCReserved == {"vr_any", "vr_name", "vr_entry", "vr_vr_a"}
MCUnescaped == [n \in {"vr_vr_a"} |-> "vr_a"]
MCNameTexts == [n \in {"a", "x", "long"} |-> IF n = "long" THEN <<"a", "b">> ELSE <<"a">>]
MCIntegerTexts == [n \in 0..9 |-> <<"b">>]
=============================================================================
