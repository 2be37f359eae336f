SPECIFICATION FairSpec
CONSTANTS
  Requests = {r1, r2}
  Jobs = {j1}
  Challenges = {c1, c2}
  Own = {c1}
  Coins = {y1, y2, y3}
  Locked = {y1, y2}
  Binds <- BoundBinds
  Price <- BothPrice
  Face <- BoundFace
  SettleFirst = FALSE
  MaxFaults = 1
  y1 = y1
  y2 = y2
  y3 = y3
  c1 = c1
  c2 = c2
PROPERTIES AcceptsOnce PendingEnds
CHECK_DEADLOCK FALSE
