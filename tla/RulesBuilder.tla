----------------------------- MODULE RulesBuilder -----------------------------
(***************************************************************************)
(* impl/vr/RulesBuilder.cpp: rules are read from a document, then their    *)
(* definition is validated, rule by rule, before they can be used.         *)
(***************************************************************************)
EXTENDS RulesFromDocument

VARIABLE unchecked  \* the stack of the rules that are tested next

builderVars == <<definition, rules, work, templatePath, status, unchecked>>

InitBuilder == Init /\ unchecked = <<>>

Read == Next /\ unchecked' = (IF status' = "read" THEN <<Root>> ELSE <<>>)

\* The children follow, the last one first.
WithChildren == Front(unchecked) \o Children(rules, Last(unchecked))

\* The rule on top of the stack is tested.
ValidateRule ==
  LET r == Last(unchecked)
      accepted == AcceptsRule(rules, r)
  IN  /\ status = "read" /\ unchecked # <<>>
      /\ status' = IF ~AssertsRule(rules, r) THEN "failed" ELSE IF accepted THEN status ELSE "refused"
      /\ unchecked' = IF accepted THEN WithChildren ELSE <<>>
      /\ UNCHANGED <<definition, rules, work, templatePath>>

\* Debug builds stop at the assertion about the types behind a key, other builds
\* do not test it.  (REQUIRE_DEBUG)
StopAtKeyTypes ==
  /\ status = "read" /\ unchecked # <<>>
  /\ ~ResolvesTypes(rules, Last(unchecked))
  /\ status' = "stopped"
  /\ UNCHANGED <<definition, rules, work, templatePath, unchecked>>

Accept ==
  /\ status = "read" /\ unchecked = <<>>
  /\ status' = "accepted"
  /\ UNCHANGED <<definition, rules, work, templatePath, unchecked>>

NextBuilder == Read \/ ValidateRule \/ StopAtKeyTypes \/ Accept

SpecBuilder == InitBuilder /\ [][NextBuilder]_builderVars
-----------------------------------------------------------------------------
(* Properties.                                                             *)

UsesTemplate(node) ==
  /\ ~IsSkipped(node) /\ node.type = "SectionWithNames"
  /\ ValueOf(definition, node, "type") = Missing
  /\ Last(node.path) # "vr_name"
BecomesRule(node) == Last(node.path) \notin {"vr_key", "vr_dependency"}
TemplateOf(node) == definition[Min(TemplateNodes(ValueOf(definition, node, "use_template").content))]

\* The tree that was read has a rule for each section in the definition, and for
\* each section below a template one at every place where the template is used,
\* and no other rule.  (RulesFromDocument: templates are read as if they were
\* written where they are used.)
RulesCoverDefinition ==
  status \in {"read", "accepted"} =>
    LET own == {n.path : n \in {m \in NodesOf(definition) : ~IsSkipped(m) /\ BecomesRule(m)}}
        users == {n \in NodesOf(definition) : UsesTemplate(n)}
        Below(user) == {n \in NodesOf(definition) : Len(n.path) > 2 /\ IsPrefix(TemplateOf(user).path, n.path)}
        moved == UNION {{user.path \o SubSeq(n.path, 3, Len(n.path)) : n \in Below(user)} : user \in users}
    IN  {rules[r].path : r \in 2..Len(rules)} = own \cup moved

\* The constraints that are written where a template is used win over those of
\* the template, of which all others are kept.  A rule of the same path that comes from
\* the template of a section around it was added before, and hides it from lookups.
\* (handleConstraintAndAttributes: "Test if there is a conflict and if overwriting is
\* allowed."; RuleMap::addRule)
CustomizationsWin ==
  status \in {"read", "accepted"} =>
    \A node \in {n \in NodesOf(definition) : UsesTemplate(n)} :
      LET rule == rules[Max({r \in DOMAIN rules : rules[r].path = node.path})]
          Written(n) == {v \in ToSet(n.values) : v.base \in ConstraintNames /\ ~v.error}
          overridden == {v.base : v \in Written(node)}
          expected == {<<v.base, v.negated, FALSE>> : v \in Written(node)} \cup
                      {<<v.base, v.negated, TRUE>> : v \in {w \in Written(TemplateOf(node)) : w.base \notin overridden}}
      IN  {<<c.type, c.negated, c.fromTemplate>> : c \in ToSet(rule.constraints)} = expected

\* A section is never read without a rule for the section around it, except for
\* the entries of a list of keys or dependencies in a template, which the walk over
\* a template does not skip.  (Rules::addRule: the parent must exist.)
NodesHaveParents ==
  IsAt("node") /\ ~IsRefused(Node) =>
    \/ HasParent(rules, RulePath(Node))
    \/ templatePath # <<>> /\ IsListedIn(Node, {"vr_key", "vr_dependency"})

\* No assertion fails while the definition is validated: the casts of the limits
\* to the class of their values, and the rules behind a key.  The one that
\* fails has a property of its own.
\* (RulesDefinitionValidator: REQUIRE_SAFETY and REQUIRE_DEBUG.)
AssertionsHold == status # "failed"

\* A key to alternatives of which one has a type for keys is resolved to the types.
\* (RulesDefinitionValidator::resolveKeyDefinitionType: "Unexpected alternative without
\* matching types.")
KeyTypesAreResolved == status # "stopped"

\* Rules are accepted only when each of them, at any depth, has passed the tests; so
\* documents are never validated with a rule that the walk has missed.
\* (RulesDefinitionValidator::validate; Rules::validateDefinition)
AcceptedRulesPass == status = "accepted" => \A r \in DOMAIN rules : AcceptsRule(rules, r)
=============================================================================
