SPECIFICATION AllSpec
CONSTANTS
  Tokens = {"path", "a", "b"}
  CreatedAt <- Creation
  Genesis = {"path"}
  Watched = {"path"}
  Window = 2
  MetaPerRun = 1
  Runners = {r1}
  SingleFlight = FALSE
  EventualKv = TRUE
  Gap = 1
  Points = 2
  MaxBlocks = 3
  MaxTime = 1
  Publishers = {worker}
  Pages = {page}
  MaxDeposits = 2
  MaxSwaps = 1
  Requests = {p1, p2}
  Interval = 1
  MaxGate = 5
  VaultFacts <- Addresses
  UnitToken = "usd"
  MeltFee = 2
  MaxDeploys = 2
  MaxFailures = 1
  Links = {l1, l2}
  Fetchers = {r1, r2}
  Life = 1
  Nothing = Nothing
  MaxLink = 3
  Calls = {p1, p2}
  MaxSocks = 2
  Holders = {"a", "b"}
  SymbolOf <- OneSymbol
  Pinned = {"a"}
  Slugs = {"usdx"}
  Figures <- SomeFigures
  Reports <- SomeReports
  Markets <- SomeMarkets
  Quotes = {q1, q2}
  Refs = {f1, f2}
  Issuers = {i1, i2}
  Wallets = {w1}
  SupplyCap = 2
  MaxDeaths = 1
  Parties = {"merchant", "agent", "owner"}
  Odd = {"merchant"}
  Offers <- SomeOffers
  Clients = {p1, p2}
  Paid = {y1, y2}
  Bodies <- SomeBodies
  Tiers <- Table
  Unit = 100
  MaxKept = 1
  MaxFaults = 1
INVARIANTS TypesOK RegistryComplete AlarmNeedsMove QuotesStop ServesVerified HandshakeHelps OkIsBacked CreditOnce OpensAsAsked ServedIsPaid
PROPERTY LinkReadOnce
CHECK_DEADLOCK FALSE
