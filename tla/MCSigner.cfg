SPECIFICATION SignerSpec
CONSTANTS
  NoText = NoText
  Torn = Torn
  Invalid = Invalid
  text1 = text1
  text2 = text2
  Bodies <- MCBodies
INVARIANTS
  SignatureFitsText
  SignedIsWritten
PROPERTY OnlyDestinationIsWritten
CHECK_DEADLOCK FALSE
