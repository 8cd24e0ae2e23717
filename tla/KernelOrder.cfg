CONSTANTS
  a = a
  b = b
  c = c
  Order <- Three
  Configs <- Ordered
  MaySignal = {}
  Bridges = {bridge}
  Main = main
  NoOne = NoOne
  Calls = {"set_state", "remove", "add"}
  Targets = {1, 2, 4, 8, 16, 32768}
  Overlap = FALSE
  MaxCalls = 2
  MaxErrors = 0
SPECIFICATION Spec
INVARIANTS DependenciesAreUp ExclusionHolds
