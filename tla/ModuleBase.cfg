CONSTANTS
  Callers = {main, bridge}
  Targets = {1, 4, 8, 16}
  NoOne = NoOne
  MaySignal = TRUE
SPECIFICATION FairSpec
INVARIANTS StateTellsLevel HooksExclude
PROPERTIES CallsKeepTheirWord CallsReturn
