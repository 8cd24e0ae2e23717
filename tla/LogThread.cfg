SPECIFICATION FairSpec
CONSTANTS
  Loggers = {a, b}
  Pool = {x, y}
  MaxMessages = 4
INVARIANTS PrintedInOrder
PROPERTIES QueuedIsPrinted PoolRefills StopReturns
CHECK_DEADLOCK FALSE
