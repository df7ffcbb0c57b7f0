CONSTANTS
  d1 = d1
  d2 = d2
  Dirs = {d1, d2}
  Pids = {p1, p2}
  NoPid = NoPid
  Script = Script
  Options <- Uses
SPECIFICATION FairSpec
INVARIANTS
  TableAgrees
PROPERTIES
  KeepsRunning
  Supervised
