--------------------------- MODULE MCFileInclude ----------------------------
(* Instances of FileInclude: short include texts of every form in one file *)
(* system, and a few texts with changes, links and restricted features.    *)
EXTENDS FileInclude

\* The names of the files, most of them one character long.
n(c) == <<c>>
na == n("a")
nm == n("m")
ns == n("s")
nd == n("d")
no == n("o")
nl == n("l")
nk == n("k")
nz == n("z")
nDotted == <<"a", ".", "a">>
nCapital == <<"a", ".", "A">>
nDash == <<"s", "-">>

Root == <<>>
D == <<nd>>
S == <<nd, ns>>
O == <<no>>
Includer == <<nd, nz>>

AllPaths == {Root, <<na>>, <<nk>>, D, Includer, <<nd, na>>, <<nd, nDotted>>, <<nd, nCapital>>, <<nd, nl>>, <<nd, nm>>,
             S, <<nd, ns, na>>, <<nd, ns, nl>>, <<nd, nDash>>, <<nd, nDash, na>>, O, <<no, na>>}

\* /a  /k -> /d/z  /d/z  /d/a  /d/a.a  /d/s/a  /d/s-/a  /o/a
Plain == [path \in AllPaths |->
    CASE path \in {Root, D, S, O, <<nd, nDash>>} -> ADirectory
      [] path \in {<<nd, nCapital>>, <<nd, nl>>, <<nd, nm>>, <<nd, ns, nl>>} -> NoEntry
      [] path = <<nk>> -> ALink(Includer)
      [] OTHER -> AFile]

\* /d/a.A, /d/l -> /d/a, /d/s/l -> /o/a, and /d/s/a is too large.
Linked == [Plain EXCEPT ![<<nd, nCapital>>] = AFile,
                        ![<<nd, nl>>] = ALink(<<nd, na>>),
                        ![<<nd, ns, nl>>] = ALink(<<no, na>>),
                        ![<<nd, ns, na>>] = ABigFile]

\* /d/m leads to itself.
Looping == [Plain EXCEPT ![<<nd, nm>>] = ALink(<<nd, nm>>)]

DefaultChecks == {"SameDirectory", "Subdirectories", "LimitSize"}

Scenario(system, text, includer, resolver, check, mayChange) ==
    [fs |-> system,
     context |-> [text |-> text, includer |-> includer, resolver |-> resolver,
                  check |-> check, mayChange |-> mayChange]]

M == FileAt(Includer)
RelativeM == [M EXCEPT !.isAbsolute = FALSE]
TextSource == [M EXCEPT !.name = "text"]

TextsOfLength(k) == [1 .. k -> {"a", "s", "/", "\\", "*", "."}]
ShortTexts == UNION {TextsOfLength(k) : k \in 0 .. 3}

LongTexts ==
    {<<"s", "/", "*", "a">>, <<"*", "*", "/", "a">>, <<"*", "*", "/", "*">>, <<"*", "*", "\\", "*", "a">>,
     <<"*", "*", "/", "a", "*", "a">>, <<"s", "/", "*", "*", "/", "a">>, <<"s", "*", "*", "/", "a">>,
     <<"*", "*", "/", "*", "*", "/", "a">>, <<"*", "*", "*", "/", "a">>, <<"s", "/", "*", "*", "s", "/", "a">>,
     <<".", ".", "/", "*", "*", "/", "a">>, <<"/", "d", "/", "*">>, <<"/", "o", "/", "a">>, <<"/", "d", "/", "*", "*", "/", "*">>,
     <<"/", "*", "*", "/", "a">>, <<"/", "/", "o", "/", "a">>, <<"/", "/", "?", "/", "a">>, <<"/", "/", "o", "/">>,
     <<"/", "/", "o">>, <<"/", "/", "/", "a">>, <<"\\", "\\", "o", "\\", "\\", "a">>, <<"file:">>, <<"file:", "a">>,
     <<"file:", "/", "d", "/", "a">>, <<"a", "/", ".", ".", "/", "a">>, <<"s", "/", ".", ".", "/", "a">>,
     <<"a", "a", "a", "a", "a", "a", "a", "a", "a">>}

ChangingTexts == {<<"*">>, <<"a", "*">>, <<"*", "*", "/", "*">>, <<"s", "/", "a">>, <<"a">>, <<"*", "*", "/", "a">>}

CheckedTexts == {<<"*">>, <<"a">>, <<"s", "/", "*">>, <<"s", "/", "a">>, <<"*", "*", "/", "a">>,
                 <<"a", ".", "*">>, <<"/", "o", "/", "a">>, <<"/", "d", "/", "a", "*">>}

FeatureSets(all) == {all} \cup {all \ {feature} : feature \in all}
CheckSets == {{}, {"SameDirectory"}, {"Subdirectories"}, {"AnyDirectory"}, {"AnyDirectory", "LimitSize"},
              DefaultChecks, DefaultChecks \cup {"RequireSuffix"}, DefaultChecks \cup {"OnlyFileSources"}}

Includers == {M, RelativeM, TextSource, FileAt(<<nk>>), FileAt(<<no, no>>)}

MCScenarios ==
    {Scenario(Plain, text, M, ResolverFeatures, DefaultChecks, FALSE) : text \in ShortTexts \cup LongTexts}
    \cup {Scenario(Looping, text, M, ResolverFeatures, DefaultChecks, FALSE) : text \in LongTexts}
    \cup {Scenario(Plain, text, M, resolver, DefaultChecks, FALSE) :
            text \in LongTexts, resolver \in FeatureSets(ResolverFeatures)}
    \cup {Scenario(Plain, text, includer, ResolverFeatures, DefaultChecks, FALSE) :
            text \in LongTexts, includer \in Includers}
    \cup {Scenario(Linked, text, includer, ResolverFeatures, check, FALSE) :
            text \in CheckedTexts, includer \in Includers, check \in CheckSets}
    \cup {Scenario(Linked, text, M, ResolverFeatures, DefaultChecks, TRUE) : text \in ChangingTexts}

\* A file goes, comes, is replaced by a link to another place or by a larger one, and
\* a link or an empty directory goes.
MCChanges ==
    {[path |-> <<nd, na>>, entry |-> NoEntry], [path |-> <<nd, na>>, entry |-> ALink(<<no, na>>)],
     [path |-> <<nd, ns, na>>, entry |-> NoEntry], [path |-> <<nd, ns, na>>, entry |-> ABigFile],
     [path |-> <<nd, ns, na>>, entry |-> AFile], [path |-> <<nd, nDash, na>>, entry |-> NoEntry],
     [path |-> <<nd, nDash>>, entry |-> NoEntry], [path |-> <<nd, nl>>, entry |-> NoEntry],
     [path |-> <<nd, nm>>, entry |-> AFile], [path |-> <<nd, ns, nl>>, entry |-> AFile]}

MCCharacterOrder == <<"*", "-", ".", "/", "?", "A", "\\", "a", "d", "file:", "k", "l", "m", "o", "s", "z">>
MCNameCharacters == Range(MCCharacterOrder) \ {"/", "\\", "file:"}
MCInvalidServerCharacters == {"?", "*"}
MCFileSuffix == <<".", "a">>
MCLowerCase == [c \in MCNameCharacters |-> IF c = "A" THEN "a" ELSE c]
=============================================================================
