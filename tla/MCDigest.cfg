SPECIFICATION FairSpec
CONSTANTS
  u1 = u1
  u2 = u2
  Books <- TwoBooks
  Users <- OneUser
  Week = 2
  Limit = 1
  MaxTime = 4
  MaxBoots = 2
  MaxFails = 1
  MaxTurns = 1
PROPERTIES
  NothingElseIsPassed
  DueIsMarked
CHECK_DEADLOCK FALSE
