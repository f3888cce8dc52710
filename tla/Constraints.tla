------------------------------ MODULE Constraints ------------------------------
(***************************************************************************)
(* ValueType.hpp and vr/RuleType.cpp: the types of values and of rules.    *)
(* impl/vr/Constraint.cpp and its subclasses: which constraints a rule of  *)
(* a given type can have, and which values they refuse.                    *)
(*                                                                         *)
(* A value is a record of its type and content: a number, a sequence of    *)
(* characters or bytes, a date, a date with a time, a sequence of values   *)
(* for a list, or the number of entries for the sections.  A constraint is *)
(* a record of its type, the class that implements it (form), its          *)
(* operands, and whether it is negated.                                    *)
(***************************************************************************)
EXTENDS Integers, SequencesExt

CONSTANTS
  NaN,        \* the float that is not a number
  Alphabet,   \* the characters in the order of their codes
  LowerCase,  \* the lower case of each character that has one
  Letters,    \* the characters of the named range "letters"
  Digits      \* the characters of the named range "digits"

ASSUME LowerCaseAssumption == \A c \in DOMAIN LowerCase : LowerCase[c] \notin DOMAIN LowerCase

Failure == [error |-> TRUE]
IsFailure(result) == "error" \in DOMAIN result

-----------------------------------------------------------------------------
(* The types of the values in a document, the types of validation rules,   *)
(* and which rule type accepts which value type.                           *)

ScalarTypes == {"Integer", "Boolean", "Float", "Text", "Date", "Time",
                "DateTime", "Bytes", "TimeDelta", "RegEx"}
MapTypes == {"IntermediateSection", "SectionWithNames", "SectionWithTexts", "Document"}
ListTypes == {"ValueList", "SectionList"}
StructuralTypes == MapTypes \cup {"SectionList"}
ValueTypes == ScalarTypes \cup MapTypes \cup ListTypes

RuleTypeNames ==
  ScalarTypes \cup {"Value", "ValueList", "ValueMatrix", "Section", "SectionList",
                    "SectionWithTexts", "NotValidated", "Alternatives"}

\* A rule without a type; it must not occur in a finished rule tree.
Undefined == "Undefined"

IsScalar(ruleType) == ruleType \in ScalarTypes \cup {"Value"}

AcceptsDefaults(ruleType) ==
  ruleType \notin {"Section", "SectionList", "SectionWithTexts", "NotValidated", "Alternatives"}

\* A scalar is accepted in place of a list with one entry.
MatchesValueType(ruleType, valueType) ==
  \/ ruleType \in {"Value", "ValueList", "ValueMatrix"} /\ valueType \in ScalarTypes
  \/ ruleType \in {"ValueList", "ValueMatrix"} /\ valueType = "ValueList"
  \/ ruleType \in {"NotValidated", "Alternatives"}
  \/ ruleType = "Section" /\ valueType \in {"SectionWithNames", "IntermediateSection"}
  \/ ruleType \in ScalarTypes \cup {"SectionList", "SectionWithTexts"} /\ valueType = ruleType

-----------------------------------------------------------------------------
(* Texts are compared character by character, with or without case.        *)

Folded(text, caseSensitive) ==
  [i \in DOMAIN text |-> IF ~caseSensitive /\ text[i] \in DOMAIN LowerCase
                         THEN LowerCase[text[i]] ELSE text[i]]

SameText(a, b, caseSensitive) == Folded(a, caseSensitive) = Folded(b, caseSensitive)

StartsWith(text, part, caseSensitive) ==
  IsPrefix(Folded(part, caseSensitive), Folded(text, caseSensitive))
EndsWith(text, part, caseSensitive) ==
  IsSuffix(Folded(part, caseSensitive), Folded(text, caseSensitive))
ContainsText(text, part, caseSensitive) ==
  \E i \in 0..Len(text) : StartsWith(SubSeq(text, i + 1, Len(text)), part, caseSensitive)

-----------------------------------------------------------------------------
(* Creating a constraint: the handler of its name checks the type of the   *)
(* operand against the type of the rule.                                   *)

CountedTypes == {"Text", "Bytes", "ValueList", "Section", "SectionList", "SectionWithTexts"}

Constraint(type, form, operands) ==
  [type |-> type, form |-> form, operands |-> operands, negated |-> FALSE]

\* The entries of a list, or a single value, if all of them have the type.
ListOf(node, type) ==
  LET entries == IF node.type = "ValueList" THEN node.content ELSE <<node>>
  IN  IF \A i \in DOMAIN entries : entries[i].type = type
      THEN [i \in DOMAIN entries |-> entries[i].content] ELSE <<>>

\* The operand must have the type of the rule, or an integer for a size.
CreateOfType(type, ruleType, node) ==
  LET expected == IF ruleType \in CountedTypes THEN "Integer" ELSE ruleType
  IN  IF node.type = expected THEN Constraint(type, expected, <<node.content>>) ELSE Failure

CreateForMatrix(type, node) ==
  LET sizes == ListOf(node, "Integer")
  IN  IF Len(sizes) = 2 THEN Constraint(type, "Matrix", sizes) ELSE Failure

CreateMinMax(type, ruleType, node) ==
  IF ruleType = "ValueMatrix" THEN CreateForMatrix(type, node)
  ELSE IF ruleType \in CountedTypes \cup {"Integer", "Float", "Date", "DateTime"}
  THEN CreateOfType(type, ruleType, node)
  ELSE Failure

\* Texts and bytes are compared with a value of their type or by their length.
CreateEquals(ruleType, node) ==
  IF ruleType = "ValueMatrix" THEN CreateForMatrix("equals", node)
  ELSE IF ruleType \in {"Text", "Bytes"} /\ node.type = ruleType
  THEN Constraint("equals", ruleType, <<node.content>>)
  ELSE IF ruleType \in CountedTypes \cup {"Integer", "Float", "Boolean"}
  THEN CreateOfType("equals", ruleType, node)
  ELSE Failure

\* A divisor must not be zero.
CreateMultiple(ruleType, node) ==
  LET created ==
        IF ruleType = "ValueMatrix" THEN CreateForMatrix("multiple", node)
        ELSE IF ruleType \in CountedTypes \cup {"Integer", "Float"}
        THEN CreateOfType("multiple", ruleType, node)
        ELSE Failure
  IN  IF IsFailure(created) THEN Failure
      ELSE IF \E i \in DOMAIN created.operands : created.operands[i] = 0 THEN Failure
      ELSE created

\* A list of allowed values has no duplicates.
CreateIn(ruleType, caseSensitive, node) ==
  LET values == ListOf(node, ruleType)
      same(a, b) == IF ruleType = "Text" THEN SameText(a, b, caseSensitive) ELSE a = b
  IN  IF \/ ruleType \notin {"Integer", "Float", "Text", "Bytes"}
         \/ values = <<>>
         \/ \E i, j \in DOMAIN values : i < j /\ same(values[i], values[j])
      THEN Failure
      ELSE Constraint("in", ruleType, values)

CreateTextPart(type, ruleType, node) ==
  LET texts == ListOf(node, "Text")
  IN  IF ruleType # "Text" \/ texts = <<>> THEN Failure ELSE Constraint(type, "Text", texts)

\* The characters of a named range, of "(a-z)" or of a list in brackets without
\* duplicates; none if the text is no such range.
CharRange(text) ==
  LET size == Len(text)
      inner == SubSeq(text, 2, size - 1)
      Code(char) == CHOOSE i \in DOMAIN Alphabet : Alphabet[i] = char
  IN  IF size >= 2 /\ text[1] = "(" /\ text[size] = ")"
      THEN IF size = 5 /\ text[3] = "-" /\ Code(text[2]) < Code(text[4])
           THEN {Alphabet[i] : i \in Code(text[2])..Code(text[4])} ELSE {}
      ELSE IF size >= 2 /\ text[1] = "[" /\ text[size] = "]"
      THEN IF IsInjective(inner) THEN ToSet(inner) ELSE {}
      ELSE IF text = <<"letters">> THEN Letters
      ELSE IF text = <<"digits">> THEN Digits
      ELSE {}

CreateChars(ruleType, node) ==
  LET texts == ListOf(node, "Text")
      ranges == {CharRange(texts[i]) : i \in DOMAIN texts}
  IN  IF ruleType # "Text" \/ texts = <<>> \/ {} \in ranges THEN Failure
      ELSE Constraint("chars", "Text", <<UNION ranges>>)

\* The pattern is the set of the texts in which it is found.
CreateMatches(ruleType, node) ==
  IF ruleType # "Text" \/ node.type # "RegEx" \/ node.content = {} THEN Failure
  ELSE Constraint("matches", "Text", <<node.content>>)

CreateConstraint(name, ruleType, caseSensitive, node) ==
  CASE name \in {"minimum", "maximum"} -> CreateMinMax(name, ruleType, node)
    [] name = "equals" -> CreateEquals(ruleType, node)
    [] name = "multiple" -> CreateMultiple(ruleType, node)
    [] name = "in" -> CreateIn(ruleType, caseSensitive, node)
    [] name \in {"starts", "ends", "contains"} -> CreateTextPart(name, ruleType, node)
    [] name = "chars" -> CreateChars(ruleType, node)
    [] name = "matches" -> CreateMatches(ruleType, node)

-----------------------------------------------------------------------------
(* Validating a value.  Each class handles some types of values; all other *)
(* values pass.                                                            *)

\* A condition on the value fails if it is not met, or met and negated.
Fails(constraint, isMet) == isMet = constraint.negated

Before(a, b) == a[1] < b[1] \/ (a[1] = b[1] /\ a[2] < b[2])

IsInLimit(constraint, a, b) ==
  IF constraint.type = "minimum" THEN ~(a < b) ELSE ~(a > b)

AbsInt(value) == IF value < 0 THEN -value ELSE value

\* The test of one number: the remainder of a quotient is 0 for both signs.
IsMet(constraint, number, operand) ==
  CASE constraint.type \in {"minimum", "maximum"} -> IsInLimit(constraint, number, operand)
    [] constraint.type = "equals" -> number = operand
    [] constraint.type = "multiple" -> AbsInt(number) % AbsInt(operand) = 0
    [] constraint.type = "in" -> \E i \in DOMAIN constraint.operands : number = constraint.operands[i]

\* A number, or the size of what is not a number.
NumberOf(value) ==
  IF value.type \in {"Text", "Bytes", "ValueList"} THEN Len(value.content) ELSE value.content

FailsInteger(constraint, value) ==
  /\ \/ value.type = "Integer"
     \/ /\ value.type \in {"Text", "Bytes", "ValueList", "SectionList", "SectionWithNames",
                           "Document", "SectionWithTexts"}
        /\ constraint.type # "in"
  /\ Fails(constraint, IsMet(constraint, NumberOf(value), constraint.operands[1]))

\* No comparison with NaN holds, but it equals itself.
IsMetByFloat(constraint, number) ==
  LET operand == constraint.operands[1]
      isNumber == number # NaN /\ operand # NaN
  IN  CASE constraint.type = "equals" -> number = operand
        [] constraint.type = "in" ->
             number # NaN /\ \E i \in DOMAIN constraint.operands : number = constraint.operands[i]
        [] constraint.type = "multiple" -> isNumber /\ IsMet(constraint, number, operand)
        [] OTHER -> isNumber => IsInLimit(constraint, number, operand)

\* The limits refuse NaN in any case.
FailsFloat(constraint, value) ==
  /\ value.type = "Float"
  /\ \/ value.content = NaN /\ constraint.type \in {"minimum", "maximum"}
     \/ Fails(constraint, IsMetByFloat(constraint, value.content))

\* Rows and columns are tested one by one.  A row that is no list has one
\* column for the limits and none for the other constraints.
FailsMatrix(constraint, value) ==
  /\ value.type = "ValueList"
  /\ \/ Fails(constraint, IsMet(constraint, Len(value.content), constraint.operands[1]))
     \/ \E i \in DOMAIN value.content :
          LET row == value.content[i]
              columns == IF row.type = "ValueList" THEN Len(row.content)
                         ELSE IF constraint.type \in {"minimum", "maximum"} THEN 1 ELSE 0
          IN  Fails(constraint, IsMet(constraint, columns, constraint.operands[2]))

\* A date is compared with a date-time as its first moment.
FailsDate(constraint, value) ==
  /\ value.type \in {"Date", "DateTime"}
  /\ LET moment == IF value.type = "Date" THEN <<value.content, 0>> ELSE value.content
         limit == constraint.operands[1]
     IN  IF constraint.form = "Date"
         THEN Fails(constraint, IsInLimit(constraint, moment[1], limit))
         ELSE Fails(constraint, IF constraint.type = "minimum" THEN ~Before(moment, limit)
                                ELSE ~Before(limit, moment))

\* matches does not look at the negation; chars tests each character.
FailsText(constraint, text, caseSensitive) ==
  LET Part(i) == constraint.operands[i]
      any(Test(_)) == \E i \in DOMAIN constraint.operands : Test(Part(i))
      isSame(part) == SameText(text, part, caseSensitive)
      starts(part) == StartsWith(text, part, caseSensitive)
      ends(part) == EndsWith(text, part, caseSensitive)
      contains(part) == ContainsText(text, part, caseSensitive)
  IN  CASE constraint.type \in {"equals", "in"} -> Fails(constraint, any(isSame))
        [] constraint.type = "starts" -> Fails(constraint, any(starts))
        [] constraint.type = "ends" -> Fails(constraint, any(ends))
        [] constraint.type = "contains" -> Fails(constraint, any(contains))
        [] constraint.type = "chars" ->
             \E i \in DOMAIN text : Fails(constraint, text[i] \in Part(1))
        [] constraint.type = "matches" -> text \notin Part(1)

FailsBytes(constraint, value) ==
  /\ value.type = "Bytes"
  /\ Fails(constraint, \E i \in DOMAIN constraint.operands : value.content = constraint.operands[i])

\* The value is refused by the constraint.
Refuses(constraint, value, caseSensitive) ==
  CASE constraint.form = "Integer" -> FailsInteger(constraint, value)
    [] constraint.form = "Float" -> FailsFloat(constraint, value)
    [] constraint.form = "Matrix" -> FailsMatrix(constraint, value)
    [] constraint.form \in {"Date", "DateTime"} -> FailsDate(constraint, value)
    [] constraint.form = "Text" ->
         value.type = "Text" /\ FailsText(constraint, value.content, caseSensitive)
    [] constraint.form = "Bytes" -> FailsBytes(constraint, value)
    [] constraint.form = "Boolean" ->
         value.type = "Boolean" /\ Fails(constraint, value.content = constraint.operands[1])

\* A name is validated as a text; lengths are tested too.
RefusesName(constraint, name, caseSensitive) ==
  Refuses(constraint, [type |-> "Text", content |-> name], caseSensitive)
=============================================================================
