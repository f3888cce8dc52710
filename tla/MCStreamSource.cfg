SPECIFICATION Spec
CONSTANTS
  MaxLength = 7
  MaxLineLength = 2
  BufferSize = 3
  Contents <- MCContents
INVARIANT NothingIsSkipped
PROPERTY ImplementsLineReader
CHECK_DEADLOCK FALSE
