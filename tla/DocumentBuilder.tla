--------------------------- MODULE DocumentBuilder ---------------------------
(***************************************************************************)
(* impl/value/DocumentBuilder and DocumentBuilderStorage: how sections and *)
(* values become the tree of a document.                                   *)
(*                                                                         *)
(* An element of the document is a path: the names that lead to it, with   *)
(* the number of the element below a section list.  Only the type of an    *)
(* element matters, not its value or location.  Elements are never moved   *)
(* or removed, so a path stands for the same object until the builder is   *)
(* reset.                                                                  *)
(*                                                                         *)
(* Not modelled: the empty path and paths with indexes, which are refused  *)
(* before anything else happens, sections with a meta name, which the      *)
(* parser never adds, and values that were given a name by the caller.     *)
(***************************************************************************)
EXTENDS Naturals, FiniteSets, SequencesExt

CONSTANTS
  RegularNames,  \* the names of type Regular
  MetaNames,     \* those of them that begin with "@"
  TextNames,     \* the names of type Text
  MaxPath,       \* bound on the names of a path
  MaxElements    \* bound on the elements of the document

\* Numbers stand for the elements of a list.
ASSUME NamesAssumption ==
  /\ MetaNames \subseteq RegularNames
  /\ RegularNames \cap TextNames = {}
  /\ (RegularNames \cup TextNames) \cap Nat = {}
ASSUME BoundsAssumption == MaxPath \in Nat \ {0} /\ MaxElements \in Nat

VARIABLES
  tree,         \* the type of every element of _document, by its path
  hidden,       \* how many root values lost their name to a later one
  lastSection,  \* _lastSectionValue, or NoSection
  outcome       \* how the last call ended

vars == <<tree, hidden, lastSection, outcome>>

Root == <<>>
NoSection == Root
Names == RegularNames \cup TextNames
SectionPaths == UNION {[1 .. n -> Names \ MetaNames] : n \in 1 .. MaxPath}
ValuePaths == UNION {[1 .. n -> Names] : n \in 1 .. MaxPath}

MapTypes == {"document", "intermediate", "names", "texts"}
ElementTypes == MapTypes \cup {"list", "value"}
Errors == {"Syntax", "NameConflict", "logic"}

TypeOK ==
  /\ tree \in [DOMAIN tree -> ElementTypes]
  /\ DOMAIN tree \subseteq Seq(Names \cup Nat)
  /\ hidden \in Nat
  /\ lastSection \in DOMAIN tree
  /\ outcome \in {"ok"} \cup Errors

EmptyDocument == [path \in {Root} |-> "document"]

Init ==
  /\ tree = EmptyDocument
  /\ hidden = 0
  /\ lastSection = NoSection
  /\ outcome = "ok"

-----------------------------------------------------------------------------
\* The storage.  A call works on a record: the tree, the element that was
\* reached, and the error that ended the call.

Children(t, path) == {p \in DOMAIN t : p # Root /\ Front(p) = path}

Failed(w) == w.error # "ok"

\* applyRootRules
RootRefusal(name, type) ==
  IF type = "value" /\ name \notin MetaNames THEN "Syntax"
  ELSE IF name \in TextNames THEN "NameConflict" ELSE "ok"

\* Mutant: only sections that already have texts are protected.
MixesTexts(t, container, name) == t[container] = "texts" /\ name \in RegularNames

\* A container has either text names or regular names.
Mixes(t, container, name) ==
  \/ t[container] = "texts" /\ name \in RegularNames
  \/ /\ t[container] \in {"intermediate", "names"}
     /\ name \in TextNames
     /\ Children(t, container) # {}

\* Mutant: a value may be added to a section that is not defined.
ContainerAcceptsValue(t, container, name, type) ==
  IF Last(container) \in TextNames /\ type \in MapTypes THEN "Syntax"
  ELSE IF Mixes(t, container, name) THEN "NameConflict"
  ELSE IF t[container] = "value" THEN "logic"
  ELSE IF t[container] = "list" /\ type # "names" THEN "logic"
  ELSE "ok"

\* applyContainerRules
ContainerRefusal(t, container, name, type) ==
  IF Last(container) \in TextNames /\ type \in MapTypes THEN "Syntax"
  ELSE IF t[container] = "intermediate" /\ type = "value" THEN "Syntax"
  ELSE IF Mixes(t, container, name) THEN "NameConflict"
  ELSE IF t[container] = "value" THEN "logic"
  ELSE IF t[container] = "list" /\ type # "names" THEN "logic"
  ELSE "ok"

Refusal(t, container, name, type) ==
  IF container = Root THEN RootRefusal(name, type)
  ELSE ContainerRefusal(t, container, name, type)

\* addChildValue: the first text name makes the container a section with texts.
AddChildValue(w, name, type) ==
  LET refusal == Refusal(w.tree, w.at, name, type)
      child == Append(w.at, name)
  IN IF Failed(w) THEN w
     ELSE IF refusal # "ok" THEN [w EXCEPT !.error = refusal]
     ELSE [tree |-> [path \in DOMAIN w.tree \cup {child} |->
                       CASE path = child -> type
                         [] path = w.at /\ name \in TextNames -> "texts"
                         [] OTHER -> w.tree[path]],
           at |-> child,
           error |-> "ok"]

\* Mutant: the first element is used.
EnterFirst(w, path) ==
  CASE w.tree[path] = "list" -> [w EXCEPT !.at = Append(path, 1)]
    [] w.tree[path] = "value" -> [w EXCEPT !.error = "NameConflict"]
    [] OTHER -> [w EXCEPT !.at = path]

\* A name that stands for a section list leads to its last element.
Enter(w, path) ==
  CASE w.tree[path] = "list" ->
         [w EXCEPT !.at = Append(path, Cardinality(Children(w.tree, path)))]
    [] w.tree[path] = "value" -> [w EXCEPT !.error = "NameConflict"]
    [] OTHER -> [w EXCEPT !.at = path]

\* One step of resolveForSection, which creates what is missing.
EnterOrCreate(w, name) ==
  IF Failed(w) THEN w
  ELSE IF Append(w.at, name) \in DOMAIN w.tree THEN Enter(w, Append(w.at, name))
  ELSE AddChildValue(w, name, "intermediate")

\* One step of resolveForValue.
EnterExisting(w, name) ==
  IF Failed(w) THEN w
  ELSE IF Append(w.at, name) \in DOMAIN w.tree THEN Enter(w, Append(w.at, name))
  ELSE [w EXCEPT !.error = "Syntax"]

StartAt(path) == [tree |-> tree, at |-> path, error |-> "ok"]

ResolveForSection(namePath) == FoldLeft(EnterOrCreate, StartAt(Root), Front(namePath))

ResolveForValue(namePath) ==
  IF Len(namePath) = 1 THEN StartAt(lastSection)
  ELSE FoldLeft(EnterExisting, StartAt(Root), Front(namePath))

-----------------------------------------------------------------------------
\* The operations

\* What was changed before an error stays changed.
FinishSection(w) ==
  /\ Cardinality(DOMAIN w.tree) + hidden <= MaxElements
  /\ tree' = w.tree
  /\ outcome' = w.error
  /\ lastSection' = IF Failed(w) THEN lastSection ELSE w.at
  /\ UNCHANGED hidden

\* Mutant: everything that exists becomes a section.
MakeSectionOfAny(w, name) ==
  LET path == Append(w.at, name) IN
  IF Failed(w) THEN w
  ELSE IF path \notin DOMAIN w.tree THEN AddChildValue(w, name, "names")
  ELSE [w EXCEPT !.tree[path] = "names", !.at = path]

\* addSectionMap: an intermediate section becomes a regular one.
MakeSection(w, name) ==
  LET path == Append(w.at, name) IN
  IF Failed(w) THEN w
  ELSE IF path \notin DOMAIN w.tree THEN AddChildValue(w, name, "names")
  ELSE IF w.tree[path] = "intermediate"
  THEN [w EXCEPT !.tree[path] = "names", !.at = path]
  ELSE [w EXCEPT !.error = "NameConflict"]

AddSectionMap(namePath) ==
  FinishSection(MakeSection(ResolveForSection(namePath), Last(namePath)))

NextNumber(t, list) == Cardinality(Children(t, list)) + 1

\* addSectionList: a new element is added to a new or an existing list.
MakeElement(w, name) ==
  LET path == Append(w.at, name)
      list == IF path \in DOMAIN w.tree THEN [w EXCEPT !.at = path]
              ELSE AddChildValue(w, name, "list")
  IN IF Failed(w) THEN w
     ELSE IF path \in DOMAIN w.tree /\ w.tree[path] # "list"
     THEN [w EXCEPT !.error = "NameConflict"]
     ELSE AddChildValue(list, NextNumber(list.tree, path), "names")

AddSectionList(namePath) ==
  IF Last(namePath) \in TextNames
  THEN outcome' = "Syntax" /\ UNCHANGED <<tree, hidden, lastSection>>
  ELSE FinishSection(MakeElement(ResolveForSection(namePath), Last(namePath)))

\* addValue: only in a section is the name looked up first.  At the root, the
\* value map gives the name to the new value and keeps the old one in its list.
AddValue(namePath) ==
  LET name == Last(namePath)
      section == ResolveForValue(namePath)
      taken == ~Failed(section) /\ Append(section.at, name) \in DOMAIN tree
      w == AddChildValue(section, name, "value")
  IN /\ IF taken /\ section.at # Root
        THEN outcome' = "NameConflict" /\ UNCHANGED <<tree, hidden>>
        ELSE /\ outcome' = w.error
             /\ tree' = w.tree
             /\ hidden' = hidden + IF taken /\ ~Failed(w) THEN 1 ELSE 0
             /\ Cardinality(DOMAIN tree') + hidden' <= MaxElements
     /\ UNCHANGED lastSection

\* reset, and getDocumentAndReset, which also gives the document away
Reset ==
  /\ tree' = EmptyDocument
  /\ hidden' = 0
  /\ lastSection' = NoSection
  /\ outcome' = "ok"

Next ==
  \/ \E namePath \in SectionPaths : AddSectionMap(namePath)
  \/ \E namePath \in SectionPaths : AddSectionList(namePath)
  \/ \E namePath \in ValuePaths : AddValue(namePath)
  \/ Reset

Spec == Init /\ [][Next]_vars

-----------------------------------------------------------------------------
\* Properties

\* In no container do text names and regular names mix, in whichever order the
\* calls came, and the type of the section tells which of the two it has.
NamesAreNotMixed ==
  \A path \in DOMAIN tree \ {Root} :
    /\ Last(path) \in TextNames => tree[Front(path)] = "texts"
    /\ Last(path) \in RegularNames => tree[Front(path)] # "texts"

\* The tree is well-formed: nothing is below a value, values are only in sections
\* that the document defines, and a section list has at least one element; its
\* elements are defined sections, numbered without a gap.
TreeIsWellFormed ==
  /\ \A path \in DOMAIN tree \ {Root} :
       /\ Front(path) \in DOMAIN tree
       /\ tree[Front(path)] # "value"
       /\ tree[path] = "value" => tree[Front(path)] # "intermediate"
  /\ \A path \in DOMAIN tree : tree[path] = "list" =>
       LET elements == Children(tree, path) IN
         /\ elements # {}
         /\ {Last(p) : p \in elements} = 1 .. Cardinality(elements)
         /\ \A p \in elements : tree[p] \in {"names", "texts"}

\* The names in a path of the tree, without the numbers of list elements.
AddName(names, element) == IF element \in Names THEN Append(names, element) ELSE names
NamePathOf(path) == FoldLeft(AddName, <<>>, path)

\* The last section, to which values are added by their name alone, is the one
\* its full name path leads to: both ways of adding a value agree, also after
\* calls that failed half way.
LastSectionIsResolved ==
  lastSection # NoSection =>
    /\ tree[lastSection] \in {"names", "texts"}
    /\ LET w == FoldLeft(EnterExisting, StartAt(Root), NamePathOf(lastSection))
       IN ~Failed(w) /\ w.at = lastSection

\* Whatever the sequence of calls, the builder never runs into one of its own
\* assertions (std::logic_error) or into a forbidden change of a type.
NoLogicError == outcome # "logic"

\* Until the builder is reset, no element is lost or replaced, and a type only
\* changes while nothing is lost by it: an intermediate section is defined, or
\* a section without elements takes its first text name.
NothingIsLost ==
  [][tree' # EmptyDocument =>
       \A path \in DOMAIN tree :
         /\ path \in DOMAIN tree'
         /\ \/ tree'[path] = tree[path]
            \/ tree[path] = "intermediate" /\ tree'[path] = "names"
            \/ /\ tree[path] \in {"intermediate", "names"}
               /\ tree'[path] = "texts"
               /\ Children(tree, path) = {}]_vars

\* A call that fails half way leaves nothing behind but intermediate sections.
FailureAddsNoContent ==
  [][outcome' # "ok" =>
       /\ \A path \in DOMAIN tree' \ DOMAIN tree : tree'[path] \in {"intermediate", "texts"}
       /\ UNCHANGED <<lastSection, hidden>>]_vars

\* DocumentBuilderStorage.cpp: "A section with a text name must not have sub
\* sections."
TextNamesHaveNoSubSections ==
  \A path \in DOMAIN tree \ {Root} :
    Last(path) \in TextNames =>
      \A p \in Children(tree, path) : tree[p] = "value"
=============================================================================
