SPECIFICATION FairCollector
CONSTANTS
  count = 3
  Timeouts = {1}
  Serial = TRUE
  MaxTime = 4
  MaxChanges = 2
INVARIANTS FreshAtCallback InTime
PROPERTY CallbackRecurs
