CONSTANTS
  a = a
  b = b
  c = c
  Order <- Three
  Configs <- Forked
  MaySignal = {}
  Bridges = {bridge}
  Main = main
  NoOne = NoOne
  Calls = {"set_state"}
  Targets = {2, 4}
  Overlap = FALSE
  MaxCalls = 1
  MaxErrors = 0
SPECIFICATION Spec
INVARIANT DependenciesAreUp
