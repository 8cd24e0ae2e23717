SPECIFICATION RingSpec
CONSTANTS
  Sizes = {1, 2, 4}
  Lengths = {1, 2, 3, 5}
  MaxWritten = 18
INVARIANTS InBounds TextIsNewest LastTextIsKept
CHECK_DEADLOCK FALSE
