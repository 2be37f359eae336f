SPECIFICATION Spec
CONSTANTS
  Backends = {b1, b2}
  Quotes = {q1, q2}
  Melts = {m1}
  Tokens = {t1, t2, t3}
  Circulating = {t1}
  Width = 2
  Cap = 2
SYMMETRY Symmetry
INVARIANT CapHolds
CHECK_DEADLOCK FALSE
