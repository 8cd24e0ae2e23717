CONSTANTS
  a = a
  b = b
  sp = sp
  Owners = {a, b}
  Tidy = {a}
  Kernel = robotkernel
  Kinds <- KindsOf
  ClockOf <- Clocks
  Bridges = {x, y}
  Providers = {sp}
  Listeners = {w}
  Called <- CalledServices
  DoNotUnload = FALSE
  MaxObjects = 3
SPECIFICATION Spec
INVARIANTS BridgesMatchServices OnlyOfPresentModule ListenersMatchDevices ClockIsFound CodeIsLoaded
PROPERTY TriggerComesFirst
CHECK_DEADLOCK FALSE
