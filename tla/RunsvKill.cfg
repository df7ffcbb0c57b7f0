CONSTANTS
  Pids = {p1, p2}
  NoPid = NoPid
  HasLog = FALSE
  HasFinish = FALSE
  Commands = {"k", "u"}
  LogCommands = {}
  Scripts = {"k", "t"}
  DiskErrors = {"pid", "pid text"}
  MaxFifo = 1
  MaxStarts = 1
SPECIFICATION Spec
SYMMETRY PidSymmetry
INVARIANTS
  SignalsHitOwnChild
  PidFlagSound
