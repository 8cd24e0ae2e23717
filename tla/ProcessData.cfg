CONSTANTS
  pos = pos
  vel = vel
  Pds = {measurement}
  Providers = {p1, p2}
  NoOne = NoOne
  Shared = FALSE
  Overlap = FALSE
  Members = {pos, vel}
  Order <- Names
  Forms <- AllForms
  Values = {1}
  Asked = {2}
  NoValue = none
SPECIFICATION DataSpec
INVARIANTS OneWriter OwnerMayWrite FrameIsDue
