SPECIFICATION FairSpec
CONSTANTS
  Servers = {s1, s2}
  Default = 1
  Options <- Uses
CHECK_DEADLOCK FALSE
INVARIANTS
  Received
  NoPartialFile
PROPERTIES
  Ends
  Succeeds
