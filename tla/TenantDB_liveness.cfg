CONSTANTS
  r1 = r1
  r2 = r2
  c1 = c1
  c2 = c2
  t1 = t1
  t2 = t2
  x1 = x1
  x2 = x2
  x3 = x3
  NoTenant = NoTenant
  NoConn = NoConn
  Requests <- MCRequests
  Conns <- MCOneConn
  Tenants <- MCOneTenant
  Rows <- MCOneRow
  Refers <- MCNoRefers
  Cascades <- MCNoRefers
SPECIFICATION FairSpec
PROPERTY Answered
