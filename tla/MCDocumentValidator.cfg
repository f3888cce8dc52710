SPECIFICATION SpecValidator
CONSTANTS
  Instances <- MCInstances
  Versions = {0, 1}
  MaxRuns = 2
  NameTexts <- MCNameTexts
  NaN = NaN
  Alphabet <- MCAlphabet
  LowerCase <- MCLowerCase
  Letters = {"a"}
  Digits = {}
  Comma = ","
  IntegerTexts <- MCIntegerTexts
  MaxVersion = 2
  IndexNames <- MCIndexNames
  TextNames = {"text"}
  Reserved <- MCReserved
  Unescaped <- MCUnescaped
INVARIANTS
  AcceptedConforms
  RejectedForReason
  DefaultsAreCurrent
  OnlyStrayRulesFail
CHECK_DEADLOCK FALSE
