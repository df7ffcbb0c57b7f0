CONSTANTS
  Pids = {p1, p2}
  NoPid = NoPid
  HasLog = FALSE
  HasFinish = FALSE
  Commands = {"o"}
  LogCommands = {}
  Scripts = {}
  DiskErrors = {}
  MaxFifo = 1
  MaxStarts = 1
  MaxCalls = 1
  HasCheck = TRUE
  Words = {"up", "down", "stop", "restart", "forceStop", "shutdown", "onceV"}
SPECIFICATION SvFairSpec
INVARIANTS
  Obeyed
PROPERTIES
  RestartIsNew
  TakesEffect
