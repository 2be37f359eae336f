SPECIFICATION Spec
CONSTANTS
  Coins = {a1, a2, b1, x1, x2, n1, n2, n3, n4}
  Purse = {a1, a2}
  Budget = {b1, x2}
  Incoming = {x1, x2}
  Ids = {i1, i2}
  Fee = 1
  MaxSeq = 4
  MaxFaults = 1
INVARIANT OffersUnspent
SYMMETRY Symmetry
CHECK_DEADLOCK FALSE
