SPECIFICATION Spec
CONSTANTS
  Calls = {i1, i2}
  MaxSocks = 2
INVARIANT RetriedAfterHandshake
CHECK_DEADLOCK FALSE
