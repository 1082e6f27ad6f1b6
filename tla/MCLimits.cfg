CONSTANTS
  c1 = c1
  c2 = c2
  Conns <- MCConns
  Hashes = {1, 2, 3}
  RATE = 1
  CAPACITY = 2
  MAX_DELIVERED_HASHES = 2
  MAX_PERSISTED_HASHES = 2
  MaxTime = 2
  MaxRegistrations = 2
  MaxSaves = 1
SPECIFICATION Spec
INVARIANT TypeOK RateBounded LoneIsLimited OnceBelowLimit
CHECK_DEADLOCK FALSE
SYMMETRY Interchangeable
