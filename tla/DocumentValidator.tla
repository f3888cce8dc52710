-------------------------- MODULE DocumentValidator --------------------------
(***************************************************************************)
(* impl/vr/DocumentValidator*.cpp: a document is validated with a tree of  *)
(* rules, as one version of its format.  The first pass walks down the     *)
(* values, assigns to each the rule that it conforms to, and adds default  *)
(* values.  The second pass walks the values again with the indexes of     *)
(* the sections around them, for references and dependencies.  A document  *)
(* can be validated again, as another version.                             *)
(*                                                                         *)
(* The document is a sequence of values: each has a path, a type, a        *)
(* content, the rule it was validated with and a mark for defaults.  The   *)
(* children of a value are those one level below it, in this order; the    *)
(* entries of a value list are part of its content.                        *)
(***************************************************************************)
EXTENDS Rules

CONSTANTS
  Instances,    \* rules and documents: records of a tree of rules and a document
  Versions,     \* the versions of the format
  MaxRuns,      \* a bound: validations of the same document
  NameTexts,    \* the characters of each name that is tested
  Comma,        \* the character that separates the elements of a key
  IntegerTexts  \* the text of each number

VARIABLES
  ruleTree,
  document,
  version,
  runs,             \* how often the validation was started
  phase,            \* "idle", "pass1", "pass2", "valid", "invalid", or "failed" by an assertion
  stack,            \* the frames of a pass
  useIndexes,
  useDependencies,
  indexes           \* the key indexes of the sections around the value in the second pass

validatorVars == <<ruleTree, document, version, runs, phase, stack, useIndexes, useDependencies, indexes>>

-----------------------------------------------------------------------------
(* impl/vr/KeyIndex.cpp and Key.cpp: an index over the keys of the entries *)
(* in a section list.  A key has one element or more; a composite key is   *)
(* also looked up as one text, with commas between its elements.           *)

NewIndex(name, caseSensitive, size) ==
  [name |-> name, caseSensitive |-> caseSensitive, size |-> size, keys |-> {}]

\* Keys are equal if all elements are; an element that is missing is empty.
FoldedKey(index, key) == [i \in 1..index.size |-> Folded(key[i], index.caseSensitive)]

CanAddKey(index, key) == FoldedKey(index, key) \notin index.keys
AddKey(index, key) == [index EXCEPT !.keys = @ \cup {FoldedKey(index, key)}]

\* At most limit splits: the last part keeps the commas that are left.
SplitText(text, limit) ==
  LET commas == SelectSeq([i \in DOMAIN text |-> i], LAMBDA i : text[i] = Comma)
      cuts == <<0>> \o (IF Len(commas) > limit THEN SubSeq(commas, 1, limit) ELSE commas) \o <<Len(text) + 1>>
  IN  [i \in 1..Len(cuts) - 1 |-> SubSeq(text, cuts[i] + 1, cuts[i + 1] - 1)]

HasKey(index, text) ==
  LET key == SplitText(text, index.size - 1)
  IN  Len(key) = index.size /\ FoldedKey(index, key) \in index.keys

\* One element of a key, counted from 1.
HasElement(index, text, n) ==
  n <= index.size /\ \E key \in index.keys : key[n] = Folded(text, index.caseSensitive)

-----------------------------------------------------------------------------
(* DependencyMode.cpp                                                      *)

\* A dependency allows some of: neither is configured, only sources, only targets, both.
DependencyHolds(mode, hasSource, hasTarget) ==
  CASE mode = "if" -> hasSource => hasTarget
    [] mode = "if_not" -> ~(hasSource /\ hasTarget)
    [] mode = "or" -> hasSource \/ hasTarget
    [] mode = "xor" -> hasSource # hasTarget
    [] mode = "xnor" -> hasSource = hasTarget
    [] mode = "and" -> hasSource /\ hasTarget

-----------------------------------------------------------------------------
(* The tree of values.                                                     *)

\* The elements of a list that are in the set, in their order.
Among(list, set) == FoldLeft(LAMBDA found, x : IF x \in set THEN Append(found, x) ELSE found, <<>>, list)

NodesIn(doc) == {doc[i] : i \in DOMAIN doc}
IsChildOf(node, path) == Len(node.path) = Len(path) + 1 /\ IsPrefix(path, node.path)
ChildrenOf(doc, path) == Among(doc, {node \in NodesIn(doc) : IsChildOf(node, path)})
NameOf(node) == Last(node.path)

\* A name leads to the value that was added last: a default hides the value of the
\* document if two rules have its name.
PlacesOf(doc, path) == {i \in DOMAIN doc : doc[i].path = path}
NodeAt(doc, path) == doc[Max(PlacesOf(doc, path))]
Exists(doc, path, relative) ==
  /\ \A n \in 1..Len(relative) : PlacesOf(doc, path \o SubSeq(relative, 1, n)) # {}
  /\ \A n \in 1..Len(relative) - 1 : ~NodeAt(doc, path \o SubSeq(relative, 1, n)).isDefault

\* The value itself, at hand.
OwnNode(doc, path) == doc[CHOOSE i \in PlacesOf(doc, path) : ~doc[i].isDefault]

\* Mutant: the defaults that an earlier validation added stay.
KeepDefaults(doc, path) == doc

RemoveDefaultValues(doc, path) ==
  Among(doc, {node \in NodesIn(doc) : ~(IsChildOf(node, path) /\ node.isDefault)})

SetValidationRule(doc, path, r) ==
  [i \in DOMAIN doc |-> IF doc[i].path = path /\ ~doc[i].isDefault THEN [doc[i] EXCEPT !.rule = r] ELSE doc[i]]
MarkBranch(doc, path, r) ==
  [i \in DOMAIN doc |->
     IF IsPrefix(path, doc[i].path) /\ (doc[i].path = path => ~doc[i].isDefault)
     THEN [doc[i] EXCEPT !.rule = r] ELSE doc[i]]

DefaultNode(r, path) ==
  [path |-> Append(path, Last(ruleTree[r].target)), type |-> ruleTree[r].default.type,
   content |-> ruleTree[r].default.content, isDefault |-> TRUE, rule |-> r]

\* What the constraints see: containers have their size as content.
SizedValue(doc, node) ==
  IF node.type \in MapTypes \cup {"SectionList"}
  THEN [node EXCEPT !.content = Len(ChildrenOf(doc, node.path))] ELSE node

\* The fields of a value.
IsValue(node) ==
  node = [path |-> node.path, type |-> node.type, content |-> node.content,
          isDefault |-> node.isDefault, rule |-> node.rule]

\* Each value but the document is in a section or, as an entry, in a list of sections.
IsIn(node, above) ==
  /\ node.path # <<>> /\ above.path = Front(node.path) /\ above.type \in StructuralTypes
  /\ IsIndexName(NameOf(node)) <=> above.type = "SectionList"
OwnNodes(doc) == {node \in NodesIn(doc) : ~node.isDefault}
IsValueTree(doc) ==
  /\ doc \in Seq(NodesIn(doc)) /\ \A node \in NodesIn(doc) : IsValue(node)
  /\ \A i, j \in DOMAIN doc : ~doc[i].isDefault /\ ~doc[j].isDefault /\ doc[i].path = doc[j].path => i = j
  /\ \A node \in OwnNodes(doc) :
       /\ node.path \in Seq(STRING)
       /\ node.type = "ValueList" => node.content \in Seq(ToSet(node.content))
       /\ IF node.path = <<>> THEN node.type = "Document" ELSE \E above \in OwnNodes(doc) : IsIn(node, above)
  /\ \E node \in OwnNodes(doc) : node.path = <<>>

\* Keys are listed, and references to them start with a name, which is not empty.
KeysAreListed(rule) ==
  /\ rule.keys \in Seq(ToSet(rule.keys))
  /\ \A i \in DOMAIN rule.constraints :
       rule.constraints[i].type = "key" =>
         \A n \in DOMAIN rule.constraints[i].operands : rule.constraints[i].operands[n][1] # ""

\* The rules have passed the tests of their definition, the document was not validated.
ASSUME InstancesAssumption ==
  \A instance \in Instances :
    /\ IsRuleTree(instance.rules) /\ instance.rules[Root].type = "Section"
    /\ \A r \in DOMAIN instance.rules : AcceptsRule(instance.rules, r) /\ KeysAreListed(instance.rules[r])
    /\ IsValueTree(instance.document) /\ OwnNodes(instance.document) = NodesIn(instance.document)

-----------------------------------------------------------------------------
(* One value and one rule.                                                 *)

IsActive(r) == Matches(ruleTree[r].versions, version)

IsAlternative(r) == ruleTree[r].parent # NoRule /\ ruleTree[ruleTree[r].parent].type = "Alternatives"

\* Keys are tested in the second pass.
PassesConstraints(r, value) ==
  \A i \in DOMAIN ruleTree[r].constraints :
    LET constraint == ruleTree[r].constraints[i]
    IN  constraint.type = "key" \/ ~Refuses(constraint, value, ruleTree[r].caseSensitive)

PassesName(r, name) ==
  LET nameRule == Child(ruleTree, r, "vr_name")
  IN  nameRule # NoRule =>
        /\ ~IsIndexName(name)
        /\ PassesConstraints(nameRule, [type |-> "Text", content |-> NameTexts[name]])

FirstRule(candidates) == IF candidates = {} THEN NoRule ELSE Min(candidates)
LastRule(candidates) == IF candidates = {} THEN NoRule ELSE Max(candidates)

\* The first alternative that is active and accepts the value itself.
MatchingAlternative(r, value) ==
  FirstRule({a \in ToSet(Children(ruleTree, r)) :
               /\ IsActive(a) /\ MatchesValueType(ruleTree[a].type, value.type)
               /\ PassesConstraints(a, value)})

\* The rule that the entry of a list conforms to, if any.
EntryRule(r, entry) ==
  IF ruleTree[r].type = "Alternatives" THEN MatchingAlternative(r, entry)
  ELSE IF MatchesValueType(ruleTree[r].type, entry.type) /\ PassesConstraints(r, entry) THEN r ELSE NoRule

\* A single value is a list of one entry, and a row of one cell.
EntriesOf(value) == IF value.type = "ValueList" THEN value.content ELSE <<value>>
CellsOf(value) == FlattenSeq([i \in DOMAIN EntriesOf(value) |-> EntriesOf(EntriesOf(value)[i])])

PassesEntries(r, entries) ==
  \A i \in DOMAIN entries : EntryRule(Child(ruleTree, r, "vr_entry"), entries[i]) # NoRule

\* The rule a value conforms to after it was tested with rule r.
ConformingRule(r, value) ==
  LET type == ruleTree[r].type
      isList == type \in {"ValueList", "ValueMatrix"}
      isAccepted == /\ MatchesValueType(type, value.type)
                    /\ PassesConstraints(r, value)
                    /\ type = "ValueList" => PassesEntries(r, EntriesOf(value))
                    /\ type = "ValueMatrix" => PassesEntries(r, CellsOf(value))
  IN  IF type = "Alternatives" THEN MatchingAlternative(r, value)
      ELSE IF isAccepted THEN r ELSE NoRule

\* Entries of lists have one rule; any other value has the first active rule for
\* its name, or the one for any name.
NextRule(r, name) ==
  LET active == {c \in ToSet(Children(ruleTree, r)) : IsActive(c)}
      any == {c \in active : RuleName(ruleTree[c]) = "vr_any"}
      named == {c \in active \ any : ruleTree[c].target # <<>> /\ Last(ruleTree[c].target) = name}
  IN  IF IsIndexName(name) THEN Child(ruleTree, r, "vr_entry")
      ELSE IF named # {} THEN FirstRule(named) ELSE LastRule(any)

-----------------------------------------------------------------------------
(* Values that are missing.                                                *)

\* Mutant: the version of a rule does not matter for its default.
MayBeMissingInVersion(r) ==
  \/ ruleTree[r].type = "NotValidated"
  \/ RuleName(ruleTree[r]) \in Reserved
  \/ ruleTree[r].optional

\* Rules with a reserved name are not missed, those for escaped names neither.
MayBeMissing(r) ==
  \/ ruleTree[r].type = "NotValidated"
  \/ ~IsActive(r)
  \/ RuleName(ruleTree[r]) \in Reserved
  \/ ruleTree[r].optional

\* The rule with the default, or NoRule if the value is just optional; an error if
\* the first active alternative that decides is neither.
MissingOutcome(r) ==
  LET deciding == FirstRule({a \in ToSet(Children(ruleTree, r)) :
                               IsActive(a) /\ (ruleTree[a].optional \/ HasDefault(ruleTree[a]))})
      outcome(d) == [rule |-> d]
  IN  IF MayBeMissing(r) THEN outcome(NoRule)
      ELSE IF HasDefault(ruleTree[r]) THEN outcome(r)
      ELSE IF ruleTree[r].type = "Alternatives" /\ deciding # NoRule
      THEN outcome(IF ruleTree[deciding].optional THEN NoRule ELSE deciding)
      ELSE Failure

\* Adds the defaults of the missing values, up to the first one that must not be missing.
AddDefault(result, r, path) ==
  LET outcome == MissingOutcome(r)
  IN  IF ~result.isComplete THEN result
      ELSE IF IsFailure(outcome) THEN [result EXCEPT !.isComplete = FALSE]
      ELSE IF outcome.rule = NoRule THEN result
      ELSE [result EXCEPT !.document = Append(@, DefaultNode(outcome.rule, path))]
AddDefaults(doc, path, missing) ==
  FoldLeft(LAMBDA result, r : AddDefault(result, r, path), [document |-> doc, isComplete |-> TRUE], missing)

-----------------------------------------------------------------------------
(* Starting, and the first pass.                                           *)

InitValidator ==
  \E instance \in Instances :
    /\ ruleTree = instance.rules
    /\ document = instance.document
    /\ version = 0 /\ runs = 0 /\ phase = "idle" /\ stack = <<>>
    /\ useIndexes = FALSE /\ useDependencies = FALSE /\ indexes = <<>>

Validate ==
  /\ phase \in {"idle", "valid", "invalid"} /\ runs < MaxRuns
  /\ version' \in Versions
  /\ runs' = runs + 1
  /\ IF Children(ruleTree, Root) = <<>>
     THEN phase' = "valid" /\ stack' = <<>>
     ELSE phase' = "pass1" /\ stack' = <<[path |-> <<>>, rule |-> Root]>>
  /\ useIndexes' = (ruleTree[Root].keys # <<>>) /\ useDependencies' = FALSE
  /\ indexes' = <<>>
  /\ UNCHANGED <<ruleTree, document>>

Frame == Last(stack)
IsInPass(pass) == phase = pass /\ stack # <<>>
Cleaned == RemoveDefaultValues(document, Frame.path)
Tested == SizedValue(Cleaned, OwnNode(Cleaned, Frame.path))
IsNamed == Frame.path = <<>> \/ PassesName(Frame.rule, Last(Frame.path))
IsNotValidated == Frame.path # <<>> /\ ruleTree[Frame.rule].type = "NotValidated"
Conforming == IF Frame.path = <<>> THEN Root ELSE ConformingRule(Frame.rule, Tested)

\* The validation ends with an error, or with an assertion.
Stop(doc, outcome) ==
  /\ phase' = outcome /\ document' = doc /\ stack' = <<>>
  /\ UNCHANGED <<ruleTree, version, runs, useIndexes, useDependencies, indexes>>

\* Rules with definitions for the second pass are noticed when a value is tested with them.
Proceed(doc, frames) ==
  /\ document' = doc
  /\ stack' = Front(stack) \o frames
  /\ IF Frame.path = <<>> THEN UNCHANGED <<useIndexes, useDependencies>>
     ELSE /\ useIndexes' = (useIndexes \/ ruleTree[Frame.rule].keys # <<>> \/ HasConstraint(ruleTree[Frame.rule], "key"))
          /\ useDependencies' = (useDependencies \/ ruleTree[Frame.rule].dependencies # <<>>)
  /\ UNCHANGED <<ruleTree, version, runs, phase, indexes>>

RefuseValue ==
  /\ IsInPass("pass1")
  /\ ~IsNamed \/ (~IsNotValidated /\ Conforming = NoRule)
  /\ Stop(Cleaned, "invalid")

\* The whole branch is marked and left as it is.
SkipBranch ==
  /\ IsInPass("pass1") /\ IsNamed /\ IsNotValidated
  /\ Proceed(MarkBranch(Cleaned, Frame.path, Frame.rule), <<>>)

IsAccepted == IsInPass("pass1") /\ IsNamed /\ ~IsNotValidated /\ Conforming # NoRule
IsList == ruleTree[Conforming].type \in {"ValueList", "ValueMatrix"}
Assigned == SetValidationRule(Cleaned, Frame.path, Conforming)

\* The entries of a list were tested with the list.
AcceptList == IsAccepted /\ IsList /\ Proceed(Assigned, <<>>)

\* Each child is tested with the next rule, in their order.  Rules without a value
\* have their defaults added.  The code asserts that entries are in a list, and that
\* defaults are added to a section.
Complete(doc, completed, frames) ==
  IF Tested.type \notin StructuralTypes /\ completed.document # doc THEN Stop(doc, "failed")
  ELSE IF ~completed.isComplete THEN Stop(completed.document, "invalid")
  ELSE Proceed(completed.document, Reverse(frames))

VisitChildren(doc, r) ==
  LET children == ChildrenOf(doc, Frame.path)
      next == [i \in DOMAIN children |-> NextRule(r, NameOf(children[i]))]
      missing == Among(Children(ruleTree, r), DOMAIN ruleTree \ ToSet(next))
      frames == [i \in DOMAIN children |-> [path |-> children[i].path, rule |-> next[i]]]
      isEntryLost == \/ Tested.type = "ValueList" /\ Tested.content # <<>>
                     \/ \E i \in DOMAIN children : next[i] = NoRule /\ IsIndexName(NameOf(children[i]))
  IN  IF isEntryLost THEN Stop(doc, "failed")
      ELSE IF NoRule \in ToSet(next) THEN Stop(doc, "invalid")
      ELSE Complete(doc, AddDefaults(doc, Frame.path, missing), frames)

Descend == IsAccepted /\ ~IsList /\ VisitChildren(Assigned, Conforming)

\* The second pass is skipped if nothing asks for it.
EndPass1 ==
  LET isNeeded == useIndexes \/ useDependencies
  IN  /\ phase = "pass1" /\ stack = <<>>
      /\ phase' = IF isNeeded THEN "pass2" ELSE "valid"
      /\ stack' = IF isNeeded THEN <<[path |-> <<>>, isExit |-> FALSE, added |-> 0]>> ELSE <<>>
      /\ UNCHANGED <<ruleTree, document, version, runs, useIndexes, useDependencies, indexes>>

-----------------------------------------------------------------------------
(* The second pass.                                                        *)

TextOf(value) == IF value.type = "Integer" THEN IntegerTexts[value.content] ELSE value.content

HasKeyAt(doc, path, relative) == Exists(doc, path, relative) /\ NodeAt(doc, path \o relative).type \in KeyTypes

\* The elements of the key of an entry; entries without any are not indexed.
KeyElements(doc, entry, definition) ==
  [i \in DOMAIN definition.keys |->
     LET path == ValuePath(definition.keys[i])
     IN  IF HasKeyAt(doc, entry.path, path) THEN TextOf(NodeAt(doc, entry.path \o path)) ELSE <<>>]
IsIndexed(doc, entry, definition) ==
  \E i \in DOMAIN definition.keys : HasKeyAt(doc, entry.path, ValuePath(definition.keys[i]))

\* The entries of the section list that the keys are about.
IndexedEntries(doc, path, definition) ==
  LET list == ListPath(definition.keys[1])
      hasList == Exists(doc, path, list) /\ NodeAt(doc, path \o list).type = "SectionList"
      entries == IF hasList THEN ChildrenOf(doc, path \o list) ELSE <<>>
  IN  Among(entries, {entry \in ToSet(entries) : IsIndexed(doc, entry, definition)})

\* The index, or a failure if two entries have the same key.
AddEntry(index, entry, doc, definition) ==
  LET key == KeyElements(doc, entry, definition)
  IN  IF IsFailure(index) THEN Failure ELSE IF CanAddKey(index, key) THEN AddKey(index, key) ELSE Failure
BuildIndex(doc, path, definition) ==
  LET empty == NewIndex(definition.name, definition.caseSensitive, Len(definition.keys))
  IN  FoldLeft(LAMBDA index, entry : AddEntry(index, entry, doc, definition), empty,
               IndexedEntries(doc, path, definition))

NearestIndex(all, name) == SelectLastInSeq(all, LAMBDA index : index.name = name)

\* The references are tried in order; each needs its index.
KeyOutcome(all, value, r) ==
  LET references == ConstraintOf(ruleTree[r], "key").operands
      nearest(i) == NearestIndex(all, references[i][1])
      IsFound(i) ==
        /\ nearest(i) # 0
        /\ IF Len(references[i]) = 1 THEN HasKey(all[nearest(i)], TextOf(value))
           ELSE HasElement(all[nearest(i)], TextOf(value), SelectInSeq(IndexNames, LAMBDA n : n = references[i][2]))
      tried == {i \in DOMAIN references : \A j \in 1..i - 1 : ~IsFound(j)}
  IN  IF value.type \notin KeyTypes \/ \E i \in tried : nearest(i) = 0 THEN "failed"
      ELSE IF \E i \in tried : IsFound(i) THEN "found" ELSE "invalid"

\* A default does not count as configured.
IsConfigured(doc, path, relative) ==
  /\ Exists(doc, path, relative)
  /\ ~NodeAt(doc, path \o relative).isDefault

DependenciesHold(doc, node, r) ==
  \A i \in DOMAIN ruleTree[r].dependencies :
    LET dependency == ruleTree[r].dependencies[i]
        HasAny(paths) == \E n \in DOMAIN paths : IsConfigured(doc, node.path, paths[n])
    IN  DependencyHolds(dependency.mode, HasAny(dependency.sources), HasAny(dependency.targets))

\* The entries of a value list carry the rule for entries they conform to; those of
\* a matrix or of a list that is an alternative have none.
ReferringEntries(node) ==
  IF /\ node.type = "ValueList" /\ ruleTree[node.rule].type = "ValueList"
     /\ ~IsAlternative(node.rule)
  THEN Among(node.content, {entry \in ToSet(node.content) :
         HasConstraint(ruleTree[EntryRule(Child(ruleTree, node.rule, "vr_entry"), entry)], "key")})
  ELSE <<>>

Entered == OwnNode(document, Frame.path)
Built == [i \in DOMAIN ruleTree[Entered.rule].keys |-> BuildIndex(document, Frame.path, ruleTree[Entered.rule].keys[i])]
NamedIndexes == Among(Built, {index \in ToSet(Built) : index.name # ""})

\* Whether the keys that the value or its entries refer to are found.
KeyOutcomes(all) ==
  LET entries == ReferringEntries(Entered)
      entryRule(i) == EntryRule(Child(ruleTree, Entered.rule, "vr_entry"), entries[i])
  IN  (IF HasConstraint(ruleTree[Entered.rule], "key") THEN {KeyOutcome(all, Entered, Entered.rule)} ELSE {})
        \cup {KeyOutcome(all, entries[i], entryRule(i)) : i \in DOMAIN entries}

\* The indexes of the section are added; defaults and branches that are not
\* validated are not entered.
EnterValue ==
  LET isUnique == \A i \in DOMAIN Built : ~IsFailure(Built[i])
      all == indexes \o NamedIndexes
      children == ChildrenOf(document, Frame.path)
      entered == Among(children, {child \in ToSet(children) :
                   ~child.isDefault /\ child.rule # NoRule /\ ruleTree[child.rule].type # "NotValidated"})
      frames == [i \in DOMAIN entered |-> [path |-> entered[i].path, isExit |-> FALSE, added |-> 0]]
      exit == [path |-> Frame.path, isExit |-> TRUE, added |-> Len(NamedIndexes)]
  IN  /\ IsInPass("pass2") /\ ~Frame.isExit
      /\ IF ~isUnique THEN Stop(document, "invalid")
         ELSE IF "failed" \in KeyOutcomes(all) THEN Stop(document, "failed")
         ELSE IF "invalid" \in KeyOutcomes(all) \/ ~DependenciesHold(document, Entered, Entered.rule)
         THEN Stop(document, "invalid")
         ELSE /\ indexes' = all
              /\ stack' = Front(stack) \o <<exit>> \o Reverse(frames)
              /\ UNCHANGED <<ruleTree, document, version, runs, phase, useIndexes, useDependencies>>

\* Mutant: the indexes of a section stay.
LeaveIndexes(all, added) == all

\* Mutant: all indexes are dropped.
ClearIndexes(all, added) == <<>>

DropIndexes(all, added) == SubSeq(all, 1, Len(all) - added)

\* The code asserts that the indexes are there.
ExitValue ==
  /\ IsInPass("pass2") /\ Frame.isExit
  /\ IF Len(indexes) < Frame.added THEN Stop(document, "failed")
     ELSE /\ indexes' = DropIndexes(indexes, Frame.added)
          /\ stack' = Front(stack)
          /\ UNCHANGED <<ruleTree, document, version, runs, phase, useIndexes, useDependencies>>

EndPass2 ==
  /\ phase = "pass2" /\ stack = <<>>
  /\ phase' = "valid"
  /\ UNCHANGED <<ruleTree, document, version, runs, stack, useIndexes, useDependencies, indexes>>

NextValidator ==
  \/ Validate
  \/ RefuseValue \/ SkipBranch \/ AcceptList \/ Descend \/ EndPass1
  \/ EnterValue \/ ExitValue \/ EndPass2

SpecValidator == InitValidator /\ [][NextValidator]_validatorVars
-----------------------------------------------------------------------------
(* Properties.  What it means for a document to conform to the rules, said  *)
(* without the passes, of the values that were in the document.             *)

Own(doc) == SelectSeq(doc, LAMBDA node : ~node.isDefault)

\* The rule itself, or the alternative that a value falls under.
AlternativeOf(r, node) ==
  IF r # NoRule /\ ruleTree[r].type = "Alternatives"
  THEN MatchingAlternative(r, SizedValue(Own(document), node)) ELSE r

\* An alternative is a rule like any other.
IsUnchecked(r) == ruleTree[r].type = "NotValidated" /\ ~IsAlternative(r)

\* The rule a value falls under: found from the root by the names in its path.
RuleFor(path) ==
  LET Below(r, n) ==
        IF r = NoRule THEN NoRule
        ELSE IF IsUnchecked(r) THEN r
        ELSE AlternativeOf(NextRule(r, path[n]), NodeAt(Own(document), SubSeq(path, 1, n)))
  IN  FoldLeft(Below, Root, [n \in DOMAIN path |-> n])

\* All rules of a section that are active and not optional have a value or a default.
IsComplete(path, r) ==
  \A c \in ToSet(Children(ruleTree, r)) :
    \/ ~IsActive(c) \/ ruleTree[c].type = "NotValidated" \/ ruleTree[c].optional \/ HasDefault(ruleTree[c])
    \/ RuleName(ruleTree[c]) \in Reserved
    \/ \E child \in NodesIn(Own(document)) : IsChildOf(child, path) /\ NextRule(r, NameOf(child)) = c
    \/ /\ ruleTree[c].type = "Alternatives"
       /\ \E a \in ToSet(Children(ruleTree, c)) : IsActive(a) /\ (ruleTree[a].optional \/ HasDefault(ruleTree[a]))

\* A value has the type and meets the constraints of its rule, as do its entries.  (The
\* entries of a list that is an alternative are not tested.)
ConformsTo(node, r) ==
  LET value == SizedValue(Own(document), node)
      isTested == r # NoRule /\ ~IsAlternative(r)
  IN  /\ r # NoRule
      /\ ~IsUnchecked(r) =>
           /\ MatchesValueType(ruleTree[r].type, value.type) /\ PassesConstraints(r, value)
           /\ node.path # <<>> => PassesName(NextRule(RuleFor(Front(node.path)), NameOf(node)), NameOf(node))
           /\ ruleTree[r].type = "ValueList" /\ isTested => PassesEntries(r, EntriesOf(value))
           /\ ruleTree[r].type = "ValueMatrix" /\ isTested => PassesEntries(r, CellsOf(value))
           /\ IsComplete(node.path, r)

ValueConforms(node) == ConformsTo(node, RuleFor(node.path))

ValidatedNodes == {node \in NodesIn(Own(document)) : ~IsUnchecked(RuleFor(node.path))}

StructureConforms ==
  /\ \A node \in NodesIn(Own(document)) : node.path # <<>> => ValueConforms(node)
  /\ IsComplete(<<>>, Root)

JoinedKey(elements) ==
  FoldLeft(LAMBDA text, element : text \o <<Comma>> \o element, elements[1], Tail(elements))

\* What a reference is compared with: all elements of a key, or one of them.
ReferredKey(elements, reference) ==
  IF Len(reference) = 1 THEN JoinedKey(elements)
  ELSE elements[SelectInSeq(IndexNames, LAMBDA n : n = reference[2])]

IsKeyIn(section, definition, text, reference) ==
  \E entry \in ToSet(IndexedEntries(document, section, definition)) :
    SameText(ReferredKey(KeyElements(document, entry, definition), reference), text,
             definition.caseSensitive)

\* Some entry of the list around the nearest section with the index has the key.
RefersToEntry(path, text, reference) ==
  LET HasIndex(n) == \E definition \in ToSet(ruleTree[RuleFor(SubSeq(path, 1, n))].keys) :
                       definition.name = reference[1]
      section == SubSeq(path, 1, Max({n \in 0..Len(path) - 1 : HasIndex(n)}))
  IN  IsKeyIn(section, KeyNamed(ruleTree, RuleFor(section), reference[1]), text, reference)

RefersToSome(path, value, r) ==
  HasConstraint(ruleTree[r], "key") =>
    \E i \in DOMAIN ConstraintOf(ruleTree[r], "key").operands :
      RefersToEntry(path, TextOf(value), ConstraintOf(ruleTree[r], "key").operands[i])

KeysConformTo(node, r) ==
    LET entries == IF ruleTree[r].type = "ValueList" /\ ~IsAlternative(r) THEN EntriesOf(node) ELSE <<>>
    IN  /\ \A definition \in ToSet(ruleTree[r].keys) :
             LET indexed == IndexedEntries(document, node.path, definition)
             IN  \A i, j \in DOMAIN indexed : i < j =>
                   \E n \in DOMAIN definition.keys :
                     ~SameText(KeyElements(document, indexed[i], definition)[n],
                               KeyElements(document, indexed[j], definition)[n], definition.caseSensitive)
        /\ RefersToSome(node.path, node, r)
        /\ node.type = "ValueList" => \A i \in DOMAIN entries :
             RefersToSome(node.path, entries[i], EntryRule(Child(ruleTree, r, "vr_entry"), entries[i]))

KeysConform == \A node \in ValidatedNodes : KeysConformTo(node, RuleFor(node.path))

DependenciesConform == \A node \in ValidatedNodes : DependenciesHold(document, node, RuleFor(node.path))

\* Definitions start the second pass unless they are in the root or an alternative:
\* keys do in the root, dependencies do not.
AsksForSecondPass ==
  \/ ruleTree[Root].keys # <<>>
  \/ \E node \in ValidatedNodes : node.path # <<>> /\
       LET rule == ruleTree[NextRule(RuleFor(Front(node.path)), NameOf(node))]
       IN  rule.keys # <<>> \/ rule.dependencies # <<>> \/ HasConstraint(rule, "key")

\* A document that was accepted conforms to the rules of its version, whatever was
\* validated before: each value, each missing value, each reference, each key and
\* each dependency.  (DocumentValidator::validate, with rules.)
AcceptedConforms ==
  phase = "valid" /\ Children(ruleTree, Root) # <<>> =>
    /\ StructureConforms
    /\ AsksForSecondPass => KeysConform /\ DependenciesConform

\* A document that was rejected does not conform.  (DocumentValidator::validate: each
\* error has a reason in the document.)
RejectedForReason ==
  phase = "invalid" => ~(StructureConforms /\ KeysConform /\ DependenciesConform)

\* After a document was accepted, its defaults are those of the version, one for each
\* value that is missing in a validated section and not made optional by an
\* alternative, and none from earlier validations.
\* (copyDefaultValue, removeDefaultValues.)
DefaultsAreCurrent ==
  phase = "valid" /\ Children(ruleTree, Root) # <<>> =>
    LET HasOwn(path, r, c) ==
          \E child \in NodesIn(Own(document)) : IsChildOf(child, path) /\ NextRule(r, NameOf(child)) = c
        sources(c) == {a \in {c} \cup ToSet(Children(ruleTree, c)) :
                         /\ IsActive(a) /\ HasDefault(ruleTree[a])
                         /\ a # c => /\ ruleTree[c].type = "Alternatives"
                                     /\ ~\E o \in ToSet(Children(ruleTree, c)) : IsActive(o) /\ ruleTree[o].optional}
        Expected(node) ==
          LET r == RuleFor(node.path)
              missing == {c \in ToSet(Children(ruleTree, r)) :
                            IsActive(c) /\ RuleName(ruleTree[c]) \notin Reserved /\ ~HasOwn(node.path, r, c)}
          IN  {<<Append(node.path, Last(ruleTree[a].target)), a>> : a \in UNION {sources(c) : c \in missing}}
        found == SelectSeq(document, LAMBDA node :
                   node.isDefault /\ ~IsUnchecked(RuleFor(Front(node.path))))
    IN  /\ {<<node.path, node.rule>> : node \in NodesIn(found)} = UNION {Expected(node) : node \in ValidatedNodes}
        /\ Cardinality(NodesIn(found)) = Len(found)

\* Rules that are accepted where they cannot be meant: below a rule for a scalar value,
\* except the one for its name, and an alternative that is not validated.
HasStrayRules ==
  \E r \in DOMAIN ruleTree \ {Root} :
    LET around == ruleTree[ruleTree[r].parent].type
    IN  \/ IsScalar(around) /\ RuleName(ruleTree[r]) # "vr_name"
        \/ around = "Alternatives" /\ ruleTree[r].type = "NotValidated"

\* Without such rules, the assertions hold: an index for each reference to a key, texts
\* and integers as keys, a rule for each entry, sections for defaults, and the indexes of
\* a section still there when it is left.
\* (REQUIRE_SAFETY and REQUIRE_DEBUG in DocumentValidator*.cpp; Value::addValue)
OnlyStrayRulesFail == phase = "failed" => HasStrayRules

\* The dependencies of each section, the root included, hold in a document that was
\* accepted.  ("vr_dependency may appear at root or within a section node-rules
\* definition.", VrDependenciesTest.cpp.)
RootDependenciesHold == phase = "valid" => DependenciesConform
=============================================================================
