CONSTANTS
  u1 = u1
  m1 = m1
  NoUser = NoUser
  Users = {u1}
  Msgs = {m1}
  WINDOW_SIZE = 2
  MaxQueries = 3
  PeerSeqs = {1}
  Restarts = TRUE
SPECIFICATION FairSpec
PROPERTY OperationEnds LookupAnswered
