SPECIFICATION SpecBuilder
CONSTANTS
  Definitions <- MCDefinitions
  NaN = NaN
  Alphabet <- MCAlphabet
  LowerCase <- MCLowerCase
  Letters = {"a"}
  Digits = {}
  MaxVersion = 2
  IndexNames <- MCIndexNames
  TextNames = {"text"}
  Reserved <- MCReserved
  Unescaped <- MCUnescaped
INVARIANTS
  RulesCoverDefinition
  CustomizationsWin
  NodesHaveParents
  AssertionsHold
CHECK_DEADLOCK FALSE
