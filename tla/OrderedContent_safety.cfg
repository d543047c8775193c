SPECIFICATION Spec
CONSTANTS
  Requests <- MCRequests
  Items <- MCThreeItems
  MaxIds = 2
  NoRequest = NoRequest
  r1 = r1
  r2 = r2
  x1 = x1
  x2 = x2
  x3 = x3
SYMMETRY MCSymmetry
INVARIANTS TypeOK WholeReorder SameIndexExcused NoOrphan
CHECK_DEADLOCK FALSE
