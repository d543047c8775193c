CONSTANTS
  r1 = r1
  r2 = r2
  e1 = e1
  e2 = e2
  s1 = s1
  s2 = s2
  NoEmail = NoEmail
  NoSub = NoSub
  NoToken = NoToken
  Last = 2
  Requests <- MCTwoServers
  Emails <- MCTwoEmails
  Subs <- MCTwoSubs
  Tokens <- MCNoTokens
SPECIFICATION StartSpec
SYMMETRY MCSymmetry
INVARIANTS StartTypeOK SchemaWhole ServesReady StudentsLed GoogleIdentity
PROPERTY AdminJustified
