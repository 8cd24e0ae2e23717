CONSTANTS
  pos = pos
  vel = vel
  Pds = {measurement}
  Providers = {p1}
  NoOne = NoOne
  Shared = FALSE
  Overlap = FALSE
  Members = {pos, vel}
  Order <- Names
  Forms <- Triple
  Values = {1}
  Asked = {2}
  NoValue = none
SPECIFICATION DataSpec
PROPERTY DeletedIsGone
