-------------------------------- MODULE Rules --------------------------------
(***************************************************************************)
(* impl/vr/Rule.cpp, RuleMap.cpp and Rules.cpp: the tree of validation     *)
(* rules.  It is a sequence of rules in the order in which they were       *)
(* added; a rule knows the index of its parent, and the first rule is the  *)
(* root, a section without a name.                                         *)
(*                                                                         *)
(* impl/vr/RulesDefinitionValidator.cpp: the tests that the tree has to    *)
(* pass before documents are validated with it.  A rule is tested after    *)
(* its parent.                                                             *)
(*                                                                         *)
(* A name path is a sequence of names.  A rule has the path of its         *)
(* definition and the path of the values that it validates (target).       *)
(***************************************************************************)
EXTENDS Constraints, VersionMask

CONSTANTS
  IndexNames,   \* the names of the first list elements, in order: "[0]", "[1]", ...
  TextNames,    \* the names that are texts
  Reserved,     \* the names that start with "vr_"
  Unescaped     \* for each name that starts with "vr_vr_" the name it stands for

ASSUME NamesAssumption ==
  /\ {"vr_any", "vr_name", "vr_entry"} \subseteq Reserved
  /\ ToSet(IndexNames) \cap (Reserved \cup TextNames) = {}
  /\ DOMAIN Unescaped \subseteq Reserved

IsIndexName(name) == name \in ToSet(IndexNames)
IsRegularName(name) == ~IsIndexName(name) /\ name \notin TextNames

NoRule == 0
Root == 1
Missing == [type |-> Undefined]

NewRule(path, target, type) ==
  [path |-> path, target |-> target, parent |-> NoRule, type |-> type,
   optional |-> FALSE, secret |-> FALSE, caseSensitive |-> FALSE, default |-> Missing,
   constraints |-> <<>>, keys |-> <<>>, dependencies |-> <<>>, versions |-> AnyVersion]

InitialRules == <<NewRule(<<>>, <<>>, "Section")>>

HasDefault(rule) == rule.default # Missing
RuleName(rule) == IF rule.path = <<>> THEN "" ELSE Last(rule.path)

HasConstraint(rule, type) == \E i \in DOMAIN rule.constraints : rule.constraints[i].type = type
ConstraintOf(rule, type) ==
  rule.constraints[CHOOSE i \in DOMAIN rule.constraints : rule.constraints[i].type = type]

\* Mutant: the first constraint of a type stays.
KeepConstraint(rule, constraint) ==
  [rule EXCEPT !.constraints = IF HasConstraint(rule, constraint.type) THEN @ ELSE Append(@, constraint)]

\* A constraint replaces the one of the same type where it stands.
AddOrOverwriteConstraint(rule, constraint) ==
  LET replaced == [i \in DOMAIN rule.constraints |->
                     IF rule.constraints[i].type = constraint.type THEN constraint
                     ELSE rule.constraints[i]]
  IN  [rule EXCEPT !.constraints =
         IF HasConstraint(rule, constraint.type) THEN replaced ELSE Append(@, constraint)]

-----------------------------------------------------------------------------
(* Children are listed in the order in which they were added; the name     *)
(* leads to the first of them that has it.                                 *)

Children(rules, r) ==
  LET Add(list, i) == IF rules[i].parent = r THEN Append(list, i) ELSE list
  IN  FoldLeft(Add, <<>>, [i \in DOMAIN rules |-> i])
ChildRules(rules, r) == {rules[i] : i \in ToSet(Children(rules, r))}

Child(rules, r, name) ==
  LET named == {i \in DOMAIN rules : rules[i].parent = r /\ RuleName(rules[i]) = name}
  IN  IF r = NoRule \/ named = {} THEN NoRule ELSE Min(named)

Descendant(rules, r, path) ==
  FoldLeft(LAMBDA parent, name : Child(rules, parent, name), r, path)

RuleForNamePath(rules, path) ==
  IF path = <<>> THEN NoRule ELSE Descendant(rules, Root, path)

\* The rule from r up to the root, nearest first.
Ancestors(rules, r) ==
  LET Up(chain, i) == IF rules[Last(chain)].parent = NoRule THEN chain
                      ELSE Append(chain, rules[Last(chain)].parent)
  IN  FoldLeft(Up, <<r>>, rules)

ParentForPath(rules, path) ==
  IF Len(path) = 1 THEN Root ELSE RuleForNamePath(rules, Front(path))

\* The parent must have been added before.
HasParent(rules, path) == ParentForPath(rules, path) # NoRule
AddRule(rules, rule) == Append(rules, [rule EXCEPT !.parent = ParentForPath(rules, rule.path)])

\* The rule becomes the next alternative of its path, whose rule is added with
\* the first of them.
AcceptsAlternative(rules, path) ==
  /\ HasParent(rules, path)
  /\ LET existing == RuleForNamePath(rules, path)
     IN  existing # NoRule => rules[existing].type = "Alternatives"

AddAlternativeRule(rules, rule) ==
  LET exists == RuleForNamePath(rules, rule.path) # NoRule
      extended == IF exists THEN rules ELSE AddRule(rules, NewRule(rule.path, rule.path, "Alternatives"))
      alternatives == RuleForNamePath(extended, rule.path)
      index == Len(Children(extended, alternatives)) + 1
  IN  Append(extended, [rule EXCEPT !.path = Append(@, IndexNames[index]), !.parent = alternatives])

-----------------------------------------------------------------------------
(* What the rules look like.                                               *)

\* The fields of a rule.
IsRule(rule) ==
  /\ rule = [path |-> rule.path, target |-> rule.target, parent |-> rule.parent, type |-> rule.type,
             optional |-> rule.optional, secret |-> rule.secret, caseSensitive |-> rule.caseSensitive,
             default |-> rule.default, constraints |-> rule.constraints, keys |-> rule.keys,
             dependencies |-> rule.dependencies, versions |-> rule.versions]
  /\ rule.path \in Seq(STRING)
  /\ rule.parent \in Nat

\* The rules are a tree: each one but the root is called by the name of its path
\* that its parent's path does not have.  Lists of keys and dependencies are no rules.
IsRuleTree(t) ==
  /\ t \in Seq(ToSet(t)) /\ t # <<>>
  /\ \A r \in DOMAIN t : IsRule(t[r])
  /\ t[Root].path = <<>> /\ t[Root].parent = NoRule
  /\ \A r \in DOMAIN t \ {Root} :
       /\ t[r].path # <<>> /\ Last(t[r].path) \notin {"vr_key", "vr_dependency"}
       /\ t[r].parent \in DOMAIN t /\ t[t[r].parent].path = Front(t[r].path)

-----------------------------------------------------------------------------
(* The structure below a rule.                                             *)

NameIsText(rules, r) == RuleName(rules[r]) = "vr_name" => rules[r].type = "Text"

\* A list has one rule for its entries, which may be alternatives.
EntryIsAccepted(rules, r, types) ==
  LET entry == Child(rules, r, "vr_entry")
      tested == IF rules[entry].type = "Alternatives" THEN ChildRules(rules, entry) ELSE {rules[entry]}
  IN  /\ entry # NoRule
      /\ \A rule \in tested : rule.type \in types /\ ~HasDefault(rule) /\ ~rule.optional
      /\ \A child \in ChildRules(rules, r) : RuleName(child) = "vr_entry"

ListIsComplete(rules, r) ==
  /\ rules[r].type = "SectionList" => EntryIsAccepted(rules, r, {"Section", "SectionWithTexts"})
  /\ rules[r].type \in {"ValueList", "ValueMatrix"} => EntryIsAccepted(rules, r, ScalarTypes \cup {"Value"})

\* Alternatives are not nested, only the first can be optional, and one has a default.
AlternativesAreAccepted(rules, r) ==
  LET alternatives == Children(rules, r)
  IN  rules[r].type = "Alternatives" =>
        /\ \A i \in DOMAIN alternatives : rules[alternatives[i]].type # "Alternatives"
        /\ \A i \in DOMAIN alternatives : rules[alternatives[i]].optional => i = 1
        /\ \A i, j \in DOMAIN alternatives :
             HasDefault(rules[alternatives[i]]) /\ HasDefault(rules[alternatives[j]]) => i = j

AnyIsPlain(rules, r) ==
  RuleName(rules[r]) = "vr_any" => ~rules[r].optional /\ ~HasDefault(rules[r])

DefaultIsAccepted(rules, r) ==
  HasDefault(rules[r]) =>
    /\ ~rules[r].optional
    /\ MatchesValueType(rules[r].type, rules[r].default.type)

SecretIsScalar(rules, r) == rules[r].secret => IsScalar(rules[r].type)

-----------------------------------------------------------------------------
(* The limits.                                                             *)

\* The class of the limits that the type of a rule calls for.
LimitForm(type) ==
  CASE type \in CountedTypes \cup {"Integer"} -> "Integer"
    [] type = "ValueMatrix" -> "Matrix"
    [] type \in {"Float", "Date", "DateTime"} -> type
    [] OTHER -> "None"

ComparesLimits(rule) ==
  /\ HasConstraint(rule, "minimum") /\ HasConstraint(rule, "maximum")
  /\ ~ConstraintOf(rule, "minimum").negated /\ ~ConstraintOf(rule, "maximum").negated

IsGreater(form, a, b) ==
  IF form = "DateTime" THEN Before(b, a) ELSE ~(form = "Float" /\ NaN \in {a, b}) /\ a > b

LimitsAreOrdered(rules, r) ==
  LET minimum == ConstraintOf(rules[r], "minimum")
      maximum == ConstraintOf(rules[r], "maximum")
  IN  ComparesLimits(rules[r]) =>
        \A i \in DOMAIN minimum.operands : ~IsGreater(minimum.form, minimum.operands[i], maximum.operands[i])

-----------------------------------------------------------------------------
(* Keys: a section defines indexes over the entries of section lists in    *)
(* it; rules below the section refer to them.                              *)

KeyTypes == {"Text", "Integer"}

EntryIndex(key) == SelectInSeq(key, LAMBDA name : name = "vr_entry")
ListPath(key) == SubSeq(key, 1, EntryIndex(key) - 1)
ValuePath(key) == SubSeq(key, EntryIndex(key) + 1, Len(key))

\* Mutant: the type of the values is not tested.
KeyOfAnyType(rules, r, key) ==
  LET list == Descendant(rules, r, ListPath(key))
      entry == Child(rules, list, "vr_entry")
  IN  EntryIndex(key) > 1 /\ list # NoRule /\ entry # NoRule /\ Descendant(rules, entry, ValuePath(key)) # NoRule

KeyIsAccepted(rules, r, key) ==
  LET list == Descendant(rules, r, ListPath(key))
      entry == Child(rules, list, "vr_entry")
      value == Descendant(rules, entry, ValuePath(key))
      types == IF rules[value].type = "Alternatives"
               THEN {child.type : child \in ChildRules(rules, value)} ELSE {rules[value].type}
  IN  /\ EntryIndex(key) > 1 /\ ValuePath(key) # <<>> /\ EntryIndex(ValuePath(key)) = 0
      /\ list # NoRule /\ rules[list].type = "SectionList"
      /\ entry # NoRule /\ rules[entry].type = "Section"
      /\ value # NoRule /\ types \cap KeyTypes # {}

KeysAreAccepted(rules, r) ==
  LET keys == rules[r].keys
  IN  keys # <<>> =>
        /\ rules[r].type = "Section"
        /\ \A i, j \in DOMAIN keys : i < j /\ keys[i].name # "" => keys[i].name # keys[j].name
        /\ \A i \in DOMAIN keys :
             /\ \A n \in DOMAIN keys[i].keys : KeyIsAccepted(rules, r, keys[i].keys[n])
             /\ Cardinality({ListPath(key) : key \in ToSet(keys[i].keys)}) = 1

\* The nearest section above a rule that defines an index with the name.
SectionWithKey(rules, r, name) ==
  LET chain == Ancestors(rules, r)
      HasKey(s) == \E i \in DOMAIN rules[s].keys : rules[s].keys[i].name = name
      above == {i \in 2..Len(chain) : HasKey(chain[i])}
  IN  IF above = {} THEN NoRule ELSE chain[Min(above)]

KeyNamed(rules, r, name) ==
  rules[r].keys[SelectInSeq(rules[r].keys, LAMBDA key : key.name = name)]

\* The rule for the values of one element of an index.
KeyTarget(rules, section, key, index) == Descendant(rules, section, key.keys[index])

KeyTargetTypes(rules, target) ==
  IF rules[target].type = "Alternatives" THEN {child.type : child \in ChildRules(rules, target)} \cap KeyTypes
  ELSE {rules[target].type}

\* A reference leads to an index of a section above, or to one element of it.
ReferencedKey(rules, r, reference) == KeyNamed(rules, SectionWithKey(rules, r, reference[1]), reference[1])
ReferencedElement(reference) ==
  IF Len(reference) = 1 THEN 1 ELSE SelectInSeq(IndexNames, LAMBDA name : name = reference[2])
ReferenceIsFound(rules, r, reference) ==
  /\ reference # <<>> /\ IsRegularName(reference[1])
  /\ Len(reference) <= 2 /\ (Len(reference) = 2 => IsIndexName(reference[2]))
  /\ SectionWithKey(rules, r, reference[1]) # NoRule
  /\ ReferencedElement(reference) \in DOMAIN ReferencedKey(rules, r, reference).keys

\* A composite index is referred to as a whole by a text, or by one element.
RefersToWhole(rules, r, reference) ==
  Len(reference) = 1 /\ Len(ReferencedKey(rules, r, reference).keys) > 1
ReferencedRule(rules, r, reference) ==
  KeyTarget(rules, SectionWithKey(rules, r, reference[1]), ReferencedKey(rules, r, reference),
            ReferencedElement(reference))
ReferenceIsAccepted(rules, r, reference) ==
  /\ ReferenceIsFound(rules, r, reference)
  /\ IF RefersToWhole(rules, r, reference) THEN rules[r].type = "Text"
     ELSE rules[r].type \in KeyTargetTypes(rules, ReferencedRule(rules, r, reference))

ReferencesAreAccepted(rules, r) ==
  LET references == ConstraintOf(rules[r], "key").operands
  IN  HasConstraint(rules[r], "key") =>
        /\ rules[r].type \in KeyTypes
        /\ IsInjective(references)
        /\ \A i \in DOMAIN references : ReferenceIsAccepted(rules, r, references[i])

-----------------------------------------------------------------------------
(* Dependencies between values in a section that may be missing.           *)

IsRuleOptional(rules, r) ==
  LET tested == IF rules[r].type = "Alternatives" THEN ChildRules(rules, r) ELSE {rules[r]}
  IN  \E rule \in tested : rule.optional \/ HasDefault(rule)

\* Some rule on the path is optional.
DependencyPathIsAccepted(rules, r, path) ==
  /\ \A i \in DOMAIN path : IsRegularName(path[i]) /\ path[i] # "vr_entry"
  /\ Descendant(rules, r, path) # NoRule
  /\ \E n \in DOMAIN path : IsRuleOptional(rules, Descendant(rules, r, SubSeq(path, 1, n)))

DependenciesAreAccepted(rules, r) ==
  LET dependencies == rules[r].dependencies
      paths == FlattenSeq([i \in DOMAIN dependencies |-> dependencies[i].sources \o dependencies[i].targets])
  IN  dependencies # <<>> =>
        /\ rules[r].type = "Section"
        /\ IsInjective(paths)
        /\ \A i \in DOMAIN paths : DependencyPathIsAccepted(rules, r, paths[i])

-----------------------------------------------------------------------------
PassesFirstTests(rules, r) ==
  /\ NameIsText(rules, r)
  /\ ListIsComplete(rules, r)
  /\ AlternativesAreAccepted(rules, r)
  /\ AnyIsPlain(rules, r)
  /\ DefaultIsAccepted(rules, r)
  /\ SecretIsScalar(rules, r)
  /\ LimitsAreOrdered(rules, r)
  /\ KeysAreAccepted(rules, r)

AcceptsRule(rules, r) ==
  /\ PassesFirstTests(rules, r)
  /\ ReferencesAreAccepted(rules, r)
  /\ DependenciesAreAccepted(rules, r)

\* What the code asserts while it tests a rule that has a parent which passed the
\* tests: the rule has a type, its limits have the classes that its type calls
\* for, and an index that is referred to has a rule for its values with one of the
\* two types of keys.  One more assertion follows below.
AssertsRule(rules, r) ==
  /\ rules[r].type # Undefined
  /\ ComparesLimits(rules[r]) =>
       {ConstraintOf(rules[r], "minimum").form, ConstraintOf(rules[r], "maximum").form} = {LimitForm(rules[r].type)}
  /\ HasConstraint(rules[r], "key") /\ rules[r].type \in KeyTypes =>
       \A reference \in ToSet(ConstraintOf(rules[r], "key").operands) :
         LET section == SectionWithKey(rules, r, reference[1])
             key == KeyNamed(rules, section, reference[1])
         IN  section # NoRule =>
               \A n \in DOMAIN key.keys :
                 /\ KeyTarget(rules, section, key, n) # NoRule
                 /\ KeyTargetTypes(rules, KeyTarget(rules, section, key, n)) # {}
                 /\ KeyTargetTypes(rules, KeyTarget(rules, section, key, n)) \subseteq KeyTypes

\* While the types of the alternatives are collected, there must be one after each of
\* them, also after the first.
FirstHasKeyType(rules, target) ==
  LET alternatives == Children(rules, target)
  IN  rules[target].type = "Alternatives" /\ alternatives # <<>> => rules[alternatives[1]].type \in KeyTypes

\* The references are resolved one by one, until one is refused.
ResolvesTypes(rules, r) ==
  LET references == ConstraintOf(rules[r], "key").operands
      IsReached(i) == IsInjective(SubSeq(references, 1, i)) /\ \A j \in 1 .. i - 1 : ReferenceIsAccepted(rules, r, references[j])
  IN  PassesFirstTests(rules, r) /\ HasConstraint(rules[r], "key") /\ rules[r].type \in KeyTypes =>
        \A i \in DOMAIN references :
          IsReached(i) /\ ReferenceIsFound(rules, r, references[i]) /\ ~RefersToWhole(rules, r, references[i]) =>
            FirstHasKeyType(rules, ReferencedRule(rules, r, references[i]))
=============================================================================
