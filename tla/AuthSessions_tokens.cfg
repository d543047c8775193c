CONSTANTS
  r1 = r1
  r2 = r2
  e1 = e1
  e2 = e2
  s1 = s1
  s2 = s2
  k1 = k1
  k2 = k2
  k3 = k3
  NoEmail = NoEmail
  NoSub = NoSub
  NoToken = NoToken
  Requests <- MCTwoRequests
  Emails <- MCOneEmail
  Subs <- MCOneSub
  Tokens <- MCThreeTokens
SPECIFICATION Spec
SYMMETRY MCSymmetry
INVARIANTS OneSession SessionHeld
CHECK_DEADLOCK FALSE
