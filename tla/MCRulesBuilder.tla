---------------------------- MODULE MCRulesBuilder ----------------------------
(* Rules documents for RulesBuilder: every way to leave out nodes of four    *)
(* documents, or to give them other values.                                  *)
EXTENDS RulesBuilder

V(base, type, content) ==
  [base |-> base, negated |-> FALSE, error |-> FALSE, type |-> type, content |-> content]
Not(value) == [value EXCEPT !.negated = TRUE]
Error(value) == [value EXCEPT !.error = TRUE]
Type(name) == V("type", "Text", name)
Use(name) == V("use_template", "Text", name)
Number(base, n) == V(base, "Integer", n)
Flag(base) == V(base, "Boolean", TRUE)
Key(path) == V("key", "Text", path)

N(path, type, values) == [path |-> path, type |-> type, values |-> values]
Typed(path, name) == N(path, "SectionWithNames", <<Type(name)>>)
Section(path, values) == N(path, "SectionWithNames", values)
Absent == <<>>
OneOf(nodes) == {<<n>> : n \in nodes}
OrNone(nodes) == OneOf(nodes) \cup {Absent}

\* Documents in which intermediate sections are not empty either, and indexes start
\* at zero.
IsComplete(doc) ==
  /\ IsDocument(doc)
  /\ \A i \in DOMAIN doc :
       /\ doc[i].type = "IntermediateSection" => \E n \in NodesOf(doc) : IsChild(n, doc[i].path)
       /\ doc[i].type = "SectionList" => \E n \in NodesOf(doc) : n.path = Append(doc[i].path, "[0]")
Documents(choices) == {doc \in {FlattenSeq(c) : c \in choices} : IsComplete(doc)}
DocumentNode == N(<<>>, "Document", <<>>)

a == <<"a">>
t == <<"vr_template", "t">>
UsingTemplates ==
  Documents(
    {<<<<DocumentNode>>, n1, n2, <<N(<<"vr_template">>, "IntermediateSection", <<>>)>>, n3, n4, n5, n6>> :
      n1 \in OneOf({Section(a, <<Use("t")>>), Section(a, <<Use("u")>>),
                    Section(a, <<Use("t"), Number("minimum", 2)>>), Section(a, <<Use("t"), Type("Text")>>),
                    Section(a, <<Use("t"), Not(Number("minimum", 2))>>),
                    Section(a, <<Use("t"), Not(Use("t"))>>), N(a, "IntermediateSection", <<>>)}),
      n2 \in OrNone({Typed(Append(a, "b"), "Integer"), Section(Append(a, "c"), <<Use("t")>>),
                     Section(Append(a, "b"), <<Use("u"), Number("minimum", 1)>>)}),
      n3 \in OrNone({Typed(t, "Section"), N(t, "SectionList", <<>>),
                     Section(t, <<Type("Text"), Number("minimum", 1), Error(V("minimum", "Text", <<>>))>>),
                     Section(t, <<Type("Section"), Number("minimum", 1), Number("maximum", 3)>>),
                     Section(t, <<Use("u")>>)}),
      n4 \in OrNone({Typed(Append(t, "b"), "Integer"), Section(Append(t, "b"), <<Use("u")>>),
                     N(Append(t, "vr_key"), "SectionList", <<>>), Typed(Append(t, "[0]"), "Integer")}),
      n5 \in OrNone({Section(t \o <<"vr_key", "[0]">>, <<Key(<<"l", "vr_entry", "k">>)>>)}),
      n6 \in OrNone({Typed(<<"vr_template", "u">>, "Text")})})

l == <<"l">>
e == <<"l", "vr_entry">>
k == <<"l", "vr_entry", "k">>
UsingKeys ==
  Documents(
    {<<<<DocumentNode>>, n1, n2, n3, n4, n5, n6, n7>> :
      n1 \in OrNone({Typed(l, "SectionList")}),
      n2 \in OneOf({Typed(e, "Section"), Typed(e, "Text"), N(e, "SectionList", <<>>), Section(e, <<Type("Section"), Flag("is_optional")>>)}),
      n3 \in OrNone({Typed(k, "Text"), Typed(k, "Boolean"), N(k, "SectionList", <<>>)}),
      n4 \in {Absent, <<Typed(Append(k, "[0]"), "Integer"), Typed(Append(k, "[1]"), "Text")>>,
                      <<Typed(Append(k, "[0]"), "Boolean")>>,
                      <<Typed(Append(k, "[0]"), "Boolean"), Typed(Append(k, "[1]"), "Text")>>, <<Typed(Append(e, "m"), "Integer")>>},
      n5 \in OneOf({Typed(<<"r">>, "Text"), Section(<<"r">>, <<Type("Text"), Key(<<"i">>)>>),
                    Section(<<"r">>, <<Type("Integer"), Key(<<"i">>)>>), Section(<<"r">>, <<Type("Integer"), Key(<<"i", "[1]">>)>>)}),
      n6 \in {Absent, <<N(<<"vr_key">>, "SectionList", <<>>)>>},
      n7 \in OrNone({Section(<<"vr_key", "[0]">>, <<V("name", "Text", "i"), Key(k)>>),
                     Section(<<"vr_key", "[0]">>,
                       <<V("name", "Text", "i"), V("key", "ValueList", <<[type |-> "Text", content |-> k],
                                                 [type |-> "Text", content |-> e \o <<"m">>]>>)>>),
                     Section(<<"vr_key", "[0]">>, <<V("name", "Text", "i"), Key(k), Not(Flag("case_sensitive"))>>),
                     Section(<<"vr_key", "[0]">>, <<V("name", "Text", "i")>>)})})

x == <<"x">>
UsingValues ==
  Documents(
    {<<<<DocumentNode>>, <<Section(x, <<type>> \o limit \o other)>>>> :
      type \in {Type("Integer"), Type("Text"), Type("Float"), Type("Section"), Type("None"), V("type", "Integer", 1)},
      limit \in {<<>>, <<Number("minimum", 1)>>, <<Number("minimum", 2), Number("maximum", 1)>>,
                 <<Not(Number("minimum", 1)), Error(V("minimum", "Text", <<>>))>>,
                 <<Not(Number("minimum", 1)), Number("minimum", 2)>>, <<V("minimum", "Float", 1)>>},
      other \in {<<>>, <<Flag("is_optional")>>, <<V("default", "Integer", 1)>>, <<V("default", "Integer", 1), Flag("is_optional")>>,
                 <<Number("version", 1)>>, <<Number("minimum_version", 1), Not(Number("version", 1))>>,
                 <<Not(Flag("is_secret"))>>, <<Flag("is_secret")>>, <<V("title", "Text", <<>>)>>, <<V("title", "Integer", 1)>>,
                 <<V("case_sensitive", "Integer", 1)>>, <<V("case_sensitive", "Boolean", TRUE)>>,
                 <<Number("multiple", 0)>>, <<Number("multiple", 2)>>}})

s == <<"s">>
UsingStructure ==
  Documents(
    {<<<<DocumentNode>>, n1, n2, n3, n4, n5, n6>> :
      n1 \in OneOf({Typed(s, "Section"), Section(s, <<Type("Section"), Flag("is_optional")>>), N(s, "SectionWithTexts", <<>>), N(s, "SectionList", <<>>)}),
      n2 \in OrNone({Typed(Append(s, "vr_name"), "Text"), Typed(Append(s, "vr_name"), "Integer"),
                     N(Append(s, "vr_name"), "SectionList", <<>>)}),
      n3 \in OrNone({Typed(s \o <<"vr_name", "q">>, "Text"), Section(Append(s, "[0]"), <<Type("Text"), Flag("is_optional")>>)}),
      n4 \in OrNone({Section(Append(s, "p"), <<Type("Text"), Flag("is_optional")>>), Typed(Append(s, "vr_any"), "Text"),
                     Section(Append(s, "[1]"), <<Type("Text"), Flag("is_optional")>>),
                     Typed(Append(s, "vr_bad"), "Text"), Typed(Append(s, "vr_vr_a"), "Text")}),
      n5 \in {Absent, <<N(<<"vr_dependency">>, "SectionList", <<>>)>>},
      n6 \in OrNone({Section(<<"vr_dependency", "[0]">>,
                       <<V("mode", "Text", mode), V("source", "Text", s), V("target", "Text", <<"s", "p">>)>>) : mode \in {"if", "x"}})})

MCDefinitions == UsingTemplates \cup UsingKeys \cup UsingValues \cup UsingStructure

MCAlphabet == <<"a", "b">>
MCLowerCase == <<>>
MCIndexNames == <<"[0]", "[1]">>
MCReserved == {"vr_any", "vr_name", "vr_entry", "vr_key", "vr_dependency", "vr_template", "vr_bad", "vr_vr_a"}
MCUnescaped == [n \in {"vr_vr_a"} |-> "vr_a"]
=============================================================================
