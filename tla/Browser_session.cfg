CONSTANTS
  b1 = b1
  b2 = b2
  u1 = u1
  u2 = u2
  c1 = c1
  c2 = c2
  None = None
  Tabs <- MCTabs
  Users <- MCUsers
  Calls <- MCCalls
  MaxTokens = 3
  MaxClicks = 6
SPECIFICATION FairSpec
INVARIANTS TypeOK AppHonest
PROPERTIES RemovesOwn Arrives
CHECK_DEADLOCK FALSE
