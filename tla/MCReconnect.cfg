CONSTANTS
  Addrs = {a, b, c, d}
  RECONNECT_TICK = 10
  MAX_RECONNECT_DELAY_SECS = 60
  MAX_SHIFT = 6
  KEPT = 3
  MaxConns = 2
SPECIFICATION Spec
INVARIANT TypeOK RedialedInTime LatestStored
PROPERTY BackoffKept
