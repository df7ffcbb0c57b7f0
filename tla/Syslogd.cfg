CONSTANTS
  Facilities = {0, 1}
  Priorities = {0, 1, 2}
  AnyPrio = 8
  NoPrio = 9
  Hosts = {h1}
  Options <- Uses
SPECIFICATION FairSpec
INVARIANTS
  
  Backlog
PROPERTIES
  Returns
  Reconnects
CHECK_DEADLOCK FALSE
