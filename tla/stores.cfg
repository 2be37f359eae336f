SPECIFICATION MCSpec
CONSTANTS
  Callers = {s1, s2}
  Coins = {y1, y2}
  Ids = {i1, i2}
  Inodes = {n1, n2, n3, n4}
  Serial = TRUE
  MaxSeq = 4
  MaxCrashes = 1
  Coin = {y1, y2, b1, x1, x2, n1, n2, n3, n4}
  Purse = {y1, y2}
  Budget = {b1, x2}
  Incoming = {x1, x2}
  Fee = 1
  MaxWrites = 5
  MaxFaults = 2
  EventIds = {1, 2, 3}
  MaxNow = 2
  Overlap = FALSE
  MaxReaped = 1
  Jobs = {j1}
  Challenges = {c1, c2}
  Own = {c1}
  Proofs = {y1, y2}
  Locked = {y1, y2}
  Binds <- NoneBound
  Price <- OneOrTwo
  Face <- OneEach
  SettleFirst = TRUE
  MaxDeaths = 1
  c1 = c1
  y1 = y1
  y2 = y2
INVARIANTS FreeIsUnspent NoSilentLoss PaidIsGone PublishWins SpendsKept NothingStranded SuccessIsPaid
PROPERTIES FileKeeps AtomicRelay
SYMMETRY Symmetry
CHECK_DEADLOCK FALSE
