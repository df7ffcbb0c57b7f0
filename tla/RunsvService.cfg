CONSTANTS
  Pids = {p1, p2, p3}
  NoPid = NoPid
  HasLog = FALSE
  HasFinish = TRUE
  Commands = {"d", "u", "x", "t", "p", "c", "o", "s"}
  LogCommands = {}
  Scripts = {}
  DiskErrors = {}
  MaxFifo = 1
  MaxStarts = 2
SPECIFICATION Spec
SYMMETRY PidSymmetry
INVARIANTS
  RecordedStatus
  FinishGetsRunStatus
PROPERTIES
  ImplementsLife
