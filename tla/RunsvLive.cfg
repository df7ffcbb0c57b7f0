CONSTANTS
  Pids = {p1, p2}
  NoPid = NoPid
  HasLog = TRUE
  HasFinish = FALSE
  Commands = {"x", "p"}
  LogCommands = {"u", "t"}
  Scripts = {}
  DiskErrors = {}
  MaxFifo = 1
  MaxStarts = 1
SPECIFICATION LiveSpec
PROPERTIES
  ExitLeavesNoChild
  ExitCompletes
  UpMeansRunning
