SPECIFICATION Spec
CONSTANTS
  a = a
  b = b
  meta = meta
  text = text
  RegularNames <- MCRegularNames
  MetaNames = {meta}
  TextNames = {text}
  MaxPath = 3
  MaxElements = 6
INVARIANTS
  NamesAreNotMixed
  TreeIsWellFormed
  LastSectionIsResolved
PROPERTY NothingIsLost
