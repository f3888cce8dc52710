SPECIFICATION Spec
CONSTANTS
  MaxInteger <- MCMaxInteger
  MaxDigits <- MCMaxDigits
  MaxFloatDigits = 4
  MaxExponentDigits = 2
  FractionDigits = 3
  MaxNameLength = 10
  MaxNamePathLength = 3
  Documents <- MCDocuments
  MaxLineLength = 40
INVARIANTS
  WrittenIsAssigned
  MalformedIsRefused
  NoInternalError
  LocationsNameTheSource
  NamePathsMeanTheSame
