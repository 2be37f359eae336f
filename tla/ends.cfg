SPECIFICATION MCSpec
CONSTANTS
  q1 = q1
  q2 = q2
  m1 = m1
  t1 = t1
  t2 = t2
  t3 = t3
  x1 = x1
  x2 = x2
  Transfers = {t1, t2, t3}
  Txs = {x1, x2}
  TxOf <- TwoInOne
  Indices = {1, 2}
  Callers = {c1}
  Chunk = 2
  Confirmations = 1
  Lookback = 2
  Depth = 1
  Lag = 1
  MaxBlocks = 5
  MaxFaults = 1
  MintTokens = {t1, t2}
  Handlers = {h1, h2}
  MaxDeposit = 1
  MaxAmount = 1
  MintCap = 1
  Fee = 0
  Refs = {f1, f2}
  Issuers = {i1}
  Wallets = {w1}
  Nobody = Nobody
  SupplyCap = 1
  MaxDeaths = 1
  Addresses = {t1, t2, t3}
  Genesis = {t3}
  Watched = {t3}
  Window = 2
  MetaPerRun = 1
  Runners = {r1}
  Gap = 1
  Points = 2
  MaxHeight = 3
  MaxTime = 2
INVARIANTS NeverOverstates NothingSkipped
PROPERTIES DebtIsSettled IssueIsDelivered DepositIsSeen FundedIsMintable EveryTokenRead
CHECK_DEADLOCK FALSE
