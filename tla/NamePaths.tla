------------------------------ MODULE NamePaths ------------------------------
(***************************************************************************)
(* The names of a document and those that an application writes: the path  *)
(* of every assignment can be given as a text, and names in a text are     *)
(* those that a section with this text has.                                *)
(***************************************************************************)
EXTENDS AssignmentStream

CONSTANT MaxLineLength  \* limits::maxLineLength

ASSUME MaxLineLengthAssumption == MaxLineLength \in Nat \ {0}

\* NamePath and Name for a text.
Of(text) == INSTANCE NameLexer WITH document <- text

\* A path and paths of elements below it, as applications use them.
PathsTo(path) ==
  {path \o below : below \in
     {<<>>, <<<<"Index", 0>>>>, <<<<"Index", 12>>, <<"Index", 1>>>>, <<<<"TextIndex", 1>>>>,
      <<<<"TextIndex", 0>>, <<"Regular", "a">>>>, <<<<"TextIndex", 0>>, <<"Index", 1>>>>}}

\* Paths without a text: an index behind a text name, which is how a value list
\* in a section with texts would be accessed, control characters, and long paths.
HasText(path) ==
  /\ \A i \in DOMAIN path : path[i][1] = "Text" => "\f" \notin CharsOf(path[i][2])
  /\ \A i \in 2 .. Len(path) : path[i][1] = "Index" => path[i - 1][1] \in {"Regular", "Index"}
  /\ Len(Of("")!ToText(path)) <= MaxLineLength

\* The text in the brackets of a document that is a single section.
SectionText == SubSeq(document, 2, Len(document) - 1)
IsSingleSection ==
  /\ Len(document) > 2 /\ CharAt(document, 1) = "[" /\ CharAt(document, Len(document)) = "]"
  /\ CharsOf(document) \cap {"\n", "#", "*", "-"} = {}

\* Paths of applications only: with indexes and meta names, or too many names.
IsForSections(path) ==
  /\ Len(path) <= MaxNamePathLength
  /\ \A i \in DOMAIN path : path[i][1] \in {"Regular", "Text"} /\ CharAt(path[i][2], 1) # "@"

\* What the text of a section is read as, as a path and as a regular name.
IsOfSection(path, name) ==
  /\ outcome = "end" /\ HasText(yielded[1].path) =>
       path = Found(yielded[1].path, Len(SectionText) + 1)
  /\ outcome = "error" => path = Error \/ ~IsForSections(path.content)
  /\ \/ name = Error
     \/ CharAt(SectionText, 1) = "@" /\ CharAt(SectionText, 2) \in {"_", " "}
     \/ path = Found(<<<<"Regular", name.content>>>>, Len(SectionText) + 1)

\* The path of every assignment, and of what is below it, is read back from its own
\* text if it has one.  A section stands for the path that its text is read as, and
\* one that is refused for none that a section can have; a regular name given as
\* such is the one that is read, unless it is a meta name with a separator in front.
\* (NamePath::toText and fromText, NameLexer, Name::normalize)
NamePathsMeanTheSame ==
  /\ \A i \in DOMAIN yielded : \A path \in PathsTo(yielded[i].path) :
       Of(Of("")!ToText(path))!FromText \in
         IF HasText(path) THEN {Found(path, Len(Of("")!ToText(path)) + 1)} ELSE {Error}
  /\ IsSingleSection /\ outcome # "running" =>
       IsOfSection(Of(SectionText)!FromText, Of(SectionText)!Normalized)
=============================================================================
