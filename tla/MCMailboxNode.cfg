CONSTANTS
  u1 = u1
  u2 = u2
  m1 = m1
  m2 = m2
  NoUser = NoUser
  Users = {u1, u2}
  Msgs = {m1, m2}
  WINDOW_SIZE = 2
  MaxQueries = 3
  PeerSeqs = {1}
  Restarts = TRUE
SPECIFICATION Spec
SYMMETRY Symmetry
INVARIANT TypeOK IndexCoversSled IndexIsBacked RetrievedInOrder WaitsOnLiveQuery
PROPERTY ImplementsLog
