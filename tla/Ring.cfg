CONSTANTS
  p1 = p1
  p2 = p2
  Readers = {p1, p2}
  Size = 5
  MaxStarts = 2
  Options <- Uses
SPECIFICATION FairSpec
INVARIANTS
  Excluded
  FollowsLog
  PrintsMessages
CHECK_DEADLOCK FALSE
PROPERTIES
  Stores
  CatchesUp
