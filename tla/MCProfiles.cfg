CONSTANTS
  c1 = c1
  c2 = c2
  Clients = {c1, c2}
  MaxRequests <- Requests
SPECIFICATION FairSpec
INVARIANT TypeOK UpdateAuthorized
PROPERTY OwnerKeepsName RequestEnds
CHECK_DEADLOCK FALSE
