SPECIFICATION Spec
CONSTANTS
  Quotes = {q1}
  Melts = {m1, m2}
  Tokens = {t1, t2, t3}
  Heavy = {t3}
  Handlers = {h1, h2}
  MaxDeposit = 4
  MaxAmount = 4
  Cap = 4
  Fee = 1
  MaxFaults = 1
  Worth <- CoinWorth
  Total <- QuoteTotal
SYMMETRY Symmetry
INVARIANTS IInv Solvent PayoutIsOwed PaidIsTrue
PROPERTIES Custodial InputsKept
CHECK_DEADLOCK FALSE
