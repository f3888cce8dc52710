SPECIFICATION Spec
CONSTANTS
  RootSource = root
  a = a
  b = b
  c = c
  Sources <- MCSources
  NoSource = NoSource
  NoText = NoText
  x = x
  y = y
  SignatureTexts <- MCSignatureTexts
  IncludeLists <- MCIncludeLists
  MaxNesting = 3
  MaxAssignments = 2
INVARIANTS
  NestingIsBounded
  SourcesAreUnique
  IncludesInOrder
  NoSourceLeaks
  SignatureIsVerified
PROPERTY ParseEnds
CHECK_DEADLOCK FALSE
