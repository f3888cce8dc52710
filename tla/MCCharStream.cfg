SPECIFICATION Spec
CONSTANTS
  MaxLineLength = 3
  Documents <- MCDocuments
INVARIANTS
  HashCoversContent
  EndMeansValid
CHECK_DEADLOCK FALSE
