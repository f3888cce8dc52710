-------------------------- MODULE RulesFromDocument --------------------------
(***************************************************************************)
(* impl/vr/RulesFromDocument*.cpp: a rules document becomes a tree of      *)
(* rules.  The document is walked in the order of its declaration.  A node *)
(* can use a template: the template's own values and the nodes below it    *)
(* are read first, as if they were written at the place of the node, then  *)
(* the node customizes the rule.                                           *)
(*                                                                         *)
(* The document is a sequence of nodes in that order.  A node has a path,  *)
(* a type and its values; a value has a name, which is split into the      *)
(* prefix "not_", a base and the suffix "_error", a type and a content.    *)
(***************************************************************************)
EXTENDS Rules

CONSTANT Definitions  \* the documents

VARIABLES
  definition,   \* the document
  rules,        \* the rules that have been read
  work,         \* the nodes to process, and the templates to finish, in order
  templatePath, \* where the template that is being read is used
  status        \* "reading", "read", or "refused" with an error

vars == <<definition, rules, work, templatePath, status>>

MaxPaths == 10  \* paths in a key or in the source or target of a dependency
InvalidPath == <<"?">>  \* a text that is no name path

-----------------------------------------------------------------------------
(* Looking into the document.                                              *)

\* Mutant: only the next level is below a node.
IsDirectlyBelow(node, path) == Len(node.path) = Len(path) + 1 /\ IsPrefix(path, node.path)

IsBelow(node, path) == Len(path) < Len(node.path) /\ IsPrefix(path, node.path)
IsChild(node, path) == IsBelow(node, path) /\ Len(node.path) = Len(path) + 1
NodesOf(doc) == {doc[i] : i \in DOMAIN doc}

\* The nodes of a document are a tree, and no two of them have the same path.  A node
\* follows the section that it lies in.  In section lists, of which none is empty and
\* none has a value, and only there, the names are indexes.  The texts of a value that
\* is called "key" are read as name paths.
IsDocument(doc) ==
  /\ doc \in Seq(NodesOf(doc))
  /\ \A i \in DOMAIN doc :
       /\ doc[i].path \in Seq(STRING)
       /\ doc[i].values \in Seq(ToSet(doc[i].values))
       /\ doc[i].type \in StructuralTypes
       /\ \A v \in ToSet(doc[i].values) :
            v.base = "key" => \A path \in ToSet(ListOf(v, "Text")) : path \in Seq(STRING)
       /\ \A j \in DOMAIN doc : doc[i].path = doc[j].path => i = j
       /\ doc[i].path # <<>> => \E j \in 1 .. i - 1 :
            /\ doc[j].path = Front(doc[i].path)
            /\ IsIndexName(Last(doc[i].path)) <=> doc[j].type = "SectionList"
       /\ doc[i].type = "SectionList" =>
            doc[i].values = <<>> /\ \E n \in NodesOf(doc) : IsChild(n, doc[i].path)

ASSUME DefinitionsAssumption == \A doc \in Definitions : IsDocument(doc)

\* The value has one of these names and neither a prefix nor a suffix.
HasPlainName(value, names) == value.base \in names /\ ~value.negated /\ ~value.error

\* The value or subsection with this name.
ValueOf(doc, node, name) ==
  LET named == {i \in DOMAIN node.values :
                 node.values[i].base = name /\ ~node.values[i].negated /\ ~node.values[i].error}
      sections == {i \in DOMAIN doc : IsChild(doc[i], node.path) /\ Last(doc[i].path) = name}
  IN  IF named # {} THEN node.values[Min(named)] ELSE IF sections # {} THEN doc[Min(sections)] ELSE Missing

IsTemplate(node) == node.path # <<>> /\ node.path[1] = "vr_template"
IsListedIn(node, names) == Len(node.path) > 1 /\ IsIndexName(Last(node.path)) /\ Last(Front(node.path)) \in names

\* Mutant: the entries of keys and dependencies are walked.
IsSkippedAtRoot(node) == node.path = <<>> \/ IsTemplate(node)

\* The subtrees that the walk over the document skips.
IsSkipped(node) ==
  \/ node.path = <<>>
  \/ IsTemplate(node)
  \/ \E prefix \in {SubSeq(node.path, 1, n) : n \in 1..Len(node.path)} :
       IsListedIn([path |-> prefix], {"vr_key", "vr_dependency"})

\* The nodes in the order of the document.
Visit(doc, nodes) ==
  LET VisitNode(items, i) ==
        IF doc[i] \in nodes THEN Append(items, [kind |-> "node", node |-> i]) ELSE items
  IN  FoldLeft(VisitNode, <<>>, [i \in DOMAIN doc |-> i])

ChildNodes(doc, node) ==
  LET items == Visit(doc, {n \in NodesOf(doc) : IsChild(n, node.path)})
  IN  [k \in DOMAIN items |-> doc[items[k].node]]

\* Names in a template are moved to the place where it is used.
RulePath(node) ==
  IF IsTemplate(node) THEN templatePath \o SubSeq(node.path, 3, Len(node.path)) ELSE node.path

\* Only regular names lead to the validated value, without the escape prefix.  The
\* path to the use of the template is taken as it is.
TargetPath(node) ==
  LET own == IF IsTemplate(node) THEN SubSeq(node.path, 3, Len(node.path)) ELSE node.path
      regular == SelectSeq(own, IsRegularName)
      unescaped == [i \in DOMAIN regular |->
                      IF regular[i] \in DOMAIN Unescaped THEN Unescaped[regular[i]] ELSE regular[i]]
  IN  (IF IsTemplate(node) THEN templatePath ELSE <<>>) \o unescaped

-----------------------------------------------------------------------------
(* The values of a node: attributes of the rule and constraints.           *)

ConstraintNames == {"chars", "contains", "ends", "equals", "in", "key", "matches",
                    "maximum", "minimum", "multiple", "starts"}
VersionNames == {"version", "minimum_version", "maximum_version"}
AttributeNames == {"default", "description", "error", "is_optional", "is_secret", "title"}
AcceptsNot(base) == base \in ConstraintNames \cup VersionNames
AcceptsError(base) == base \in ConstraintNames
HandledBefore == {"type", "use_template", "case_sensitive"}
IsHandledBefore(value) == value.base \in HandledBefore /\ ~value.negated /\ ~value.error

\* The types that can be written; alternatives are written as a section list.
WrittenTypes == RuleTypeNames \ {"Alternatives"}

\* The version mask that a value describes.
VersionsOf(value) ==
  LET versions == ListOf(value, "Integer")
  IN  IF value.base = "version" THEN FromIntegers(versions)
      ELSE IF value.base = "minimum_version" THEN <<VersionRange(value.content, MaxVersion)>>
      ELSE <<VersionRange(0, value.content)>>

IsValidVersion(value) ==
  LET versions == ListOf(value, "Integer")
  IN  /\ versions # <<>> /\ IsInjective(versions)
      /\ \A i \in DOMAIN versions : versions[i] >= 0
      /\ value.base # "version" => value.type = "Integer"

LimitVersions(rule, value) ==
  LET mask == IF value.negated THEN Complement(VersionsOf(value)) ELSE VersionsOf(value)
  IN  [rule EXCEPT !.versions = IntersectionWith(@, mask)]

\* The key constraint refers to key definitions by name paths.
CreateKey(value) ==
  LET paths == ListOf(value, "Text")
      entries == IF value.type = "ValueList" THEN value.content ELSE <<value>>
  IN  IF Len(paths) # Len(entries) \/ \E i \in DOMAIN paths : paths[i] = InvalidPath THEN Failure
      ELSE Constraint("key", "Key", paths)

ConstraintFrom(rule, value) ==
  IF value.base = "key" THEN CreateKey(value)
  ELSE CreateConstraint(value.base, rule.type, rule.caseSensitive, value)

\* A constraint of a template can be replaced once, at the place of its use.
AddConstraint(rule, value, fromTemplate) ==
  LET created == ConstraintFrom(rule, value)
      constraint == [type |-> created.type, form |-> created.form, operands |-> created.operands,
                     negated |-> value.negated, fromTemplate |-> fromTemplate]
  IN  IF IsFailure(created) THEN Failure
      ELSE IF /\ HasConstraint(rule, created.type)
              /\ ConstraintOf(rule, created.type).fromTemplate = fromTemplate
      THEN Failure
      ELSE AddOrOverwriteConstraint(rule, constraint)

SetAttribute(rule, value) ==
  LET expected == CASE value.base \in {"is_optional", "is_secret"} -> "Boolean"
                    [] value.base = "default" -> value.type
                    [] OTHER -> "Text"
  IN  IF value.type # expected THEN Failure
      ELSE CASE value.base = "is_optional" -> [rule EXCEPT !.optional = value.content]
             [] value.base = "is_secret" -> [rule EXCEPT !.secret = value.content]
             [] value.base = "default" ->
                  IF AcceptsDefaults(rule.type) /\ MatchesValueType(rule.type, value.type)
                  THEN [rule EXCEPT !.default = [type |-> value.type, content |-> value.content]]
                  ELSE Failure
             [] OTHER -> rule

HandleConstraintAndAttributes(rule, value, fromTemplate) ==
  IF IsFailure(rule) \/ IsHandledBefore(value) THEN rule
  ELSE IF \/ value.base \notin ConstraintNames \cup VersionNames \cup AttributeNames
          \/ value.negated /\ ~AcceptsNot(value.base)
          \/ value.error /\ ~AcceptsError(value.base)
  THEN Failure
  ELSE IF value.error THEN rule
  ELSE IF value.base \in ConstraintNames THEN AddConstraint(rule, value, fromTemplate)
  ELSE IF value.base \in VersionNames
  THEN IF IsValidVersion(value) THEN LimitVersions(rule, value) ELSE Failure
  ELSE SetAttribute(rule, value)

\* A custom error message needs the constraint with the very same name.
ErrorsHaveConstraints(rule, values) ==
  \A i \in DOMAIN values : values[i].error =>
    \E j \in DOMAIN rule.constraints :
      rule.constraints[j].type = values[i].base /\ rule.constraints[j].negated = values[i].negated

\* A name rule has no subsections.
ProcessCommonNodeRules(doc, node, rule) ==
  LET handled == FoldLeft(LAMBDA r, v : HandleConstraintAndAttributes(r, v, IsTemplate(node)), rule, node.values)
  IN  IF \/ IsFailure(handled)
         \/ RuleName(rule) = "vr_name" /\ ChildNodes(doc, node) # <<>>
      THEN Failure
      ELSE IF ErrorsHaveConstraints(handled, node.values) THEN handled ELSE Failure

HandleCaseSensitive(doc, node, rule) ==
  LET value == ValueOf(doc, node, "case_sensitive")
  IN  IF value = Missing THEN rule
      ELSE IF value.type # "Boolean" THEN Failure
      ELSE [rule EXCEPT !.caseSensitive = value.content]

WithOwnValues(doc, node, rule) ==
  LET prepared == HandleCaseSensitive(doc, node, rule)
  IN  IF IsFailure(prepared) THEN Failure ELSE ProcessCommonNodeRules(doc, node, prepared)

-----------------------------------------------------------------------------
(* The steps: the first item of the work is done.                          *)

Init ==
  /\ definition \in Definitions
  /\ rules = InitialRules
  /\ work = Visit(definition, {node \in NodesOf(definition) : ~IsSkipped(node)})
  /\ templatePath = <<>>
  /\ status = "reading"

Node == definition[Head(work).node]
IsAt(kind) == status = "reading" /\ work # <<>> /\ Head(work).kind = kind

Refuse ==
  /\ status' = "refused"
  /\ UNCHANGED <<definition, rules, work, templatePath>>

\* Continues with the rules, or refuses the document.
Continue(read, rest, path) ==
  /\ rules' = read
  /\ work' = rest
  /\ templatePath' = path
  /\ UNCHANGED <<definition, status>>

\* The rule at the end of the list is replaced by the result, if there is one.
FinishRule(extended, rule, rest) ==
  IF IsFailure(rule) THEN Refuse
  ELSE Continue([extended EXCEPT ![Len(extended)] = rule], rest, templatePath)

\* Sections with texts and text names are not allowed, templates only at the root,
\* and reserved names only if they are known.
KnownReserved == {"vr_any", "vr_name", "vr_entry", "vr_key", "vr_dependency"}

IsRefused(node) ==
  \/ node.type = "SectionWithTexts"
  \/ \E i \in DOMAIN node.path : node.path[i] \in TextNames
  \/ Last(node.path) \in Reserved \ (KnownReserved \cup DOMAIN Unescaped)

RefuseNode == IsAt("node") /\ IsRefused(Node) /\ Refuse

IsNode(names) == IsAt("node") /\ ~IsRefused(Node) /\ Last(Node.path) \in names
IsRegularNode ==
  IsAt("node") /\ ~IsRefused(Node) /\ Last(Node.path) \notin {"vr_name", "vr_key", "vr_dependency"}

Started == AddRule(rules, NewRule(RulePath(Node), TargetPath(Node), Undefined))
StartedRule == Last(Started)

\* An element of the tree needs a rule for the section that contains it.
ProcessOrphan ==
  /\ IsRegularNode \/ IsNode({"vr_name"})
  /\ ~HasParent(rules, RulePath(Node))
  /\ Refuse

\* Section lists are alternatives, intermediate sections are sections.
ProcessStructure ==
  /\ IsRegularNode /\ HasParent(rules, RulePath(Node))
  /\ Node.type \in {"SectionList", "IntermediateSection"}
  /\ FinishRule(Started,
       [StartedRule EXCEPT !.type = IF Node.type = "SectionList" THEN "Alternatives" ELSE "Section"],
       Tail(work))

\* A type, and no template: a section with that name does no harm.
ProcessTypedNode ==
  LET type == ValueOf(definition, Node, "type")
      template == ValueOf(definition, Node, "use_template")
  IN  /\ IsRegularNode /\ HasParent(rules, RulePath(Node))
      /\ Node.type = "SectionWithNames" /\ type # Missing
      /\ IF \/ type.type # "Text"
            \/ type.content \notin WrittenTypes
            \/ template # Missing /\ template.type \notin StructuralTypes
         THEN Refuse
         ELSE FinishRule(Started, WithOwnValues(definition, Node, [StartedRule EXCEPT !.type = type.content]),
                         Tail(work))

TemplateNodes(name) == {i \in DOMAIN definition : definition[i].path = <<"vr_template", name>>}

\* The template's values are merged into the rule; what is below it comes next.
\* Templates are not nested.
ProcessTemplate ==
  LET value == ValueOf(definition, Node, "use_template")
      found == TemplateNodes(value.content)
      template == definition[Min(found)]
      type == ValueOf(definition, template, "type")
      merged == IF template.type = "SectionList" THEN [StartedRule EXCEPT !.type = "Alternatives"]
                ELSE WithOwnValues(definition, template, [StartedRule EXCEPT !.type = type.content])
      \* In a template, nothing is skipped.
      below == Visit(definition, {node \in NodesOf(definition) : IsBelow(node, template.path)})
      finish == [kind |-> "template", node |-> Head(work).node, rule |-> Len(Started)]
  IN  /\ IsRegularNode /\ HasParent(rules, RulePath(Node))
      /\ Node.type = "SectionWithNames" /\ ValueOf(definition, Node, "type") = Missing
      /\ IF \/ value = Missing \/ value.type # "Text" \/ templatePath # <<>> \/ found = {}
         THEN Refuse
         ELSE IF \/ template.type \notin {"SectionWithNames", "SectionList"}
                 \/ /\ template.type = "SectionWithNames"
                    /\ \/ type = Missing \/ type.type # "Text" \/ type.content \notin WrittenTypes
                       \/ ValueOf(definition, template, "use_template").type \notin StructuralTypes \cup {Undefined}
                       \/ IsFailure(merged)
         THEN Refuse
         ELSE Continue([Started EXCEPT ![Len(Started)] = merged], below \o <<finish>> \o Tail(work), Node.path)

\* The node customizes what the template has set, unless these are alternatives.
FinishTemplate ==
  LET rule == rules[Head(work).rule]
      customized == WithOwnValues(definition, Node, rule)
      isCustomized == \/ \E i \in DOMAIN Node.values : ~HasPlainName(Node.values[i], {"use_template"})
                      \/ ChildNodes(definition, Node) # <<>>
  IN  /\ IsAt("template")
      /\ IF rule.type = "Alternatives"
         THEN IF isCustomized THEN Refuse ELSE Continue(rules, Tail(work), <<>>)
         ELSE IF IsFailure(customized) THEN Refuse
         ELSE Continue([rules EXCEPT ![Head(work).rule] = customized], Tail(work), <<>>)

\* The rule for names is a text that uses no template.
NameRefusal(node) ==
  LET type == ValueOf(definition, node, "type")
  IN  \/ type # Missing /\ (type.type # "Text" \/ type.content # "Text")
      \/ ValueOf(definition, node, "use_template") # Missing

ProcessNameNode ==
  LET rule == [StartedRule EXCEPT !.target = <<>>, !.type = "Text"]
  IN  /\ IsNode({"vr_name"}) /\ HasParent(rules, RulePath(Node))
      /\ IF Node.type # "SectionWithNames" \/ NameRefusal(Node) THEN Refuse
         ELSE FinishRule(Started, WithOwnValues(definition, Node, rule), Tail(work))

\* Paths from a text or a list of texts; none if one of them is no text or no path.
PathsOf(value) ==
  LET paths == ListOf(value, "Text")
  IN  IF Len(paths) > MaxPaths \/ \E i \in DOMAIN paths : paths[i] = InvalidPath THEN <<>> ELSE paths

KeyRefusal(entry) ==
  LET name == ValueOf(definition, entry, "name")
      key == ValueOf(definition, entry, "key")
      caseSensitive == ValueOf(definition, entry, "case_sensitive")
  IN  \/ name # Missing /\ (name.type # "Text" \/ name.content \in TextNames)
      \/ key = Missing \/ key.type \notin {"Text", "ValueList"} \/ PathsOf(key) = <<>>
      \/ caseSensitive # Missing /\ caseSensitive.type # "Boolean"
      \/ \E i \in DOMAIN entry.values : ~HasPlainName(entry.values[i], {"key", "name", "case_sensitive"})
      \/ ChildNodes(definition, entry) # <<>>

KeyDefinition(entry) ==
  LET name == ValueOf(definition, entry, "name")
      caseSensitive == ValueOf(definition, entry, "case_sensitive")
  IN  [name |-> IF name = Missing THEN "" ELSE name.content,
       keys |-> PathsOf(ValueOf(definition, entry, "key")),
       caseSensitive |-> caseSensitive # Missing /\ caseSensitive.content]

DependencyModes == {"if", "if_not", "or", "xnor", "xor", "and"}

DependencyRefusal(entry) ==
  LET mode == ValueOf(definition, entry, "mode")
      error == ValueOf(definition, entry, "error")
      PathRefusal(value) == value = Missing \/ value.type \notin {"Text", "ValueList"} \/ PathsOf(value) = <<>>
  IN  \/ entry.type # "SectionWithNames"
      \/ mode = Missing \/ mode.type # "Text" \/ mode.content \notin DependencyModes
      \/ PathRefusal(ValueOf(definition, entry, "source")) \/ PathRefusal(ValueOf(definition, entry, "target"))
      \/ error # Missing /\ error.type # "Text"
      \/ \E i \in DOMAIN entry.values : ~HasPlainName(entry.values[i], {"mode", "source", "target", "error"})
      \/ ChildNodes(definition, entry) # <<>>

DependencyDefinition(entry) ==
  [mode |-> ValueOf(definition, entry, "mode").content,
   sources |-> PathsOf(ValueOf(definition, entry, "source")),
   targets |-> PathsOf(ValueOf(definition, entry, "target"))]

\* The entries of the list are added to the rule for the section around it.
Entries == ChildNodes(definition, Node)
AddEntries(rule, refusal) ==
  IF Node.type # "SectionList" \/ rule = NoRule \/ refusal THEN Refuse
  ELSE LET keys == [i \in DOMAIN Entries |-> KeyDefinition(Entries[i])]
           dependencies == [i \in DOMAIN Entries |-> DependencyDefinition(Entries[i])]
           changed == IF IsNode({"vr_key"}) THEN [rules EXCEPT ![rule].keys = @ \o keys]
                      ELSE [rules EXCEPT ![rule].dependencies = @ \o dependencies]
       IN  Continue(changed, Tail(work), templatePath)

ProcessKey ==
  /\ IsNode({"vr_key"})
  /\ AddEntries(ParentForPath(rules, RulePath(Node)), \E i \in DOMAIN Entries : KeyRefusal(Entries[i]))

ProcessDependencies ==
  /\ IsNode({"vr_dependency"})
  /\ AddEntries(ParentForPath(rules, RulePath(Node)), \E i \in DOMAIN Entries : DependencyRefusal(Entries[i]))

Finish ==
  /\ status = "reading" /\ work = <<>>
  /\ status' = "read"
  /\ UNCHANGED <<definition, rules, work, templatePath>>

Next ==
  \/ RefuseNode \/ ProcessOrphan \/ ProcessStructure \/ ProcessTypedNode
  \/ ProcessTemplate \/ FinishTemplate \/ ProcessNameNode \/ ProcessKey \/ ProcessDependencies
  \/ Finish

Spec == Init /\ [][Next]_vars
=============================================================================
