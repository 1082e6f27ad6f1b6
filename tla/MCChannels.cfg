CONSTANTS
  Conns = {c1}
  CMD_CAP = 2
  EV_CAP = 2
  Dials = 3
SPECIFICATION FairSpec
INVARIANT TypeOK WedgeNeedsBothFull
PROPERTY Served
CHECK_DEADLOCK FALSE
