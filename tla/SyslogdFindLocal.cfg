CONSTANTS
  Facilities = {0, 1}
  Priorities = {0, 1, 2}
  AnyPrio = 8
  NoPrio = 9
  Hosts = {h1}
  Options <- Default
SPECIFICATION Spec
PROPERTIES
  LogsLocally
CHECK_DEADLOCK FALSE
