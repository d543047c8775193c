SPECIFICATION FairSpec
CONSTANTS
  Requests <- MCRequests
  Items <- MCTwoItems
  MaxIds = 2
  NoRequest = NoRequest
  r1 = r1
  r2 = r2
  x1 = x1
  x2 = x2
  x3 = x3
PROPERTY Ends
CHECK_DEADLOCK FALSE
