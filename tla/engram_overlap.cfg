SPECIFICATION Spec
CONSTANTS
  Coins = {y1, y2}
  Ids = {i1, i2}
  Sessions = {s1, s2}
  EventIds = {1, 2, 3}
  MaxNow = 1
  Overlap = TRUE
  MaxFaults = 0
INVARIANT NoSilentOverwrite
CHECK_DEADLOCK FALSE
