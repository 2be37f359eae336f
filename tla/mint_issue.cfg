SPECIFICATION Spec
CONSTANTS
  Quotes = {q1, q2}
  Melts = {}
  Tokens = {t1, t2, t3}
  Heavy = {t3}
  Handlers = {h1, h2}
  MaxDeposit = 2
  MaxAmount = 2
  Cap = 2
  Fee = 0
  MaxFaults = 1
  Worth <- CoinWorth
  Total <- QuoteTotal
SYMMETRY Symmetry
INVARIANTS CapHolds IssuedIsBacked
PROPERTY IssuedOnce
CHECK_DEADLOCK FALSE
