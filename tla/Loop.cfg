CONSTANTS
  LineMax = 4
  MinRead = 2
  StampLen = 0
  Wrap = 64
  Configs <- OneFilter
  Signals = {"TERM", "ALRM", "TICK"}
  MaxLine = 4
  MaxFile = 8
SPECIFICATION MCSpec
CHECK_DEADLOCK FALSE
INVARIANTS
  Lossless
  OneVerdict
  ReadFits
  SizeKept
PROPERTIES
  Exits
