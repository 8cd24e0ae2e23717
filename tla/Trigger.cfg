SPECIFICATION FairSpec
CONSTANTS
  Callbacks = {a, b}
  Waiters = {w}
  Workers = {k}
  Tickers = {d}
  Divisor <- SecondStep
  NoOne = NoOne
  MaxCalls = 4
  MaxTicks = 2
INVARIANTS RemovedIsQuiet RegisteredIsReached
PROPERTY CallsReturn
CHECK_DEADLOCK FALSE
