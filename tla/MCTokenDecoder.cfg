SPECIFICATION Spec
CONSTANTS
  MaxLength = 4
  MaxTransactions = 3
  Documents <- MCDocuments
INVARIANTS
  ReplayIsWhatFollows
  UpcomingErrorIsAhead
  CaptureStaysInLine
  DelayedErrorGoesFirst
PROPERTIES
  NoReadBehindError
  ImplementsCursor
CHECK_DEADLOCK FALSE
