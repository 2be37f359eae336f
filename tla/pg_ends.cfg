SPECIFICATION FairSpec
CONSTANTS
  Backends = {b1, b2}
  Quotes = {q1}
  Melts = {m1}
  Tokens = {t1, t2, t3}
  Circulating = {t1, t2}
  Width = 2
  Cap = 2
PROPERTIES OneWinner EveryTxEnds
CHECK_DEADLOCK FALSE
