CONSTANTS
  a = a
  b = b
  c = c
  Order <- Pair
  Configs <- Pairs
  MaySignal = {a}
  Bridges = {bridge}
  Main = main
  NoOne = NoOne
  Calls = {"set_state", "remove", "reconfigure"}
  Targets = {8}
  Overlap = TRUE
  MaxCalls = 1
  MaxErrors = 1
SPECIFICATION FairSpec
PROPERTIES MainSurvives ErrorIsReset SetStateReturns RemovedInInit ShutsDown
