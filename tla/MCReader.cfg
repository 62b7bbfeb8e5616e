SPECIFICATION Spec
CONSTANTS
  Files <- MCFiles
  ReopenFiles <- MCReopenFiles
  NORMAL_EVENT_MAX_SIZE = 16
INVARIANTS EventsInOrder EventBytesIntact ReopenIsFresh
PROPERTIES MoveNextReturns
CHECK_DEADLOCK FALSE
