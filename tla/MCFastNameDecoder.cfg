SPECIFICATION SpecDecoder
CONSTANTS
  MaxLength = 5
  MaxTransactions = 3
  Buffers <- MCBuffers
INVARIANT RollbackDecodes
PROPERTY ImplementsCursor
CHECK_DEADLOCK FALSE
