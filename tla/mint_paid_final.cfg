SPECIFICATION Spec
CONSTANTS
  Quotes = {q1}
  Melts = {m1}
  Tokens = {t1, t2}
  Heavy = {}
  Handlers = {h1, h2}
  MaxDeposit = 1
  MaxAmount = 1
  Cap = 1
  Fee = 0
  MaxFaults = 0
  Worth <- CoinWorth
  Total <- QuoteTotal
PROPERTY PaidIsFinal
CHECK_DEADLOCK FALSE
